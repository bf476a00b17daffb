---------------------------- MODULE RequestGate ----------------------------
(***************************************************************************)
(* What stands before a Miner forecast (src/oathcast/service.py, do_GET):  *)
(* the bearer token, the caller's identity behind a proxy, the two         *)
(* sliding-window limiters (RequestRateLimiter) and the /readyz answer     *)
(* with its cached write probe (receipt_store_write_readiness).            *)
(*                                                                         *)
(* Request threads share both limiters and the probe.  A limiter reads the *)
(* clock before it takes its lock, so another thread with a later reading  *)
(* can come first.  Time is in half seconds: Retry-After is whole seconds. *)
(***************************************************************************)
EXTENDS Integers, Sequences, FiniteSets, Functions

CONSTANTS
    Threads,       \* request threads
    Addresses,     \* client addresses
    Trusted,       \* those of trusted proxies (loopback included)
    Tokens,        \* configured bearer tokens
    RequireAuth,   \* require_auth
    Limit,         \* limit per window of each limiter, 0 for none
    Window,        \* window_seconds, in half seconds
    MaxKeys,       \* max_keys
    SweepInterval, \* sweep_interval
    ProbeInterval, \* receipt_write_probe_interval_seconds, in half seconds
    MaxTime,       \* bound on the clock
    MaxRequests,   \* bound on the requests of a behaviour
    None

Limiters == {"requests", "auth_failures"}

ASSUME GateAssumption ==
    /\ IsFiniteSet(Threads) /\ Threads # {}
    /\ None \notin BOOLEAN
    /\ Trusted \subseteq Addresses
    /\ Limit \in [Limiters -> Nat]
    /\ {Window, MaxKeys, SweepInterval} \subseteq Nat \ {0}
    /\ {ProbeInterval, MaxTime, MaxRequests} \subseteq Nat
    /\ RequireAuth \in BOOLEAN
    /\ RequireAuth => Tokens # {}

VARIABLES
    now,        \* the monotonic clock
    lim,        \* the limiters' tables and sweep counters
    th,         \* the request threads
    probe,      \* _receipt_write_probe_status and _checked_at
    accepting,  \* the store has room (capacity)
    writable,   \* the store can be written
    requests,   \* bound: requests so far
    watched,    \* bound: the requests of a behaviour are all for /readyz, or
                \* all for forecasts (the two share no state but the clock)
    granted,    \* history: readings let in per limiter and caller since the
                \* caller was last evicted
    promised,   \* history: the time Retry-After told a caller to wait for
    brokenAt    \* history: since when the store cannot be written, or None

gateVars == <<lim, granted, promised>>
probeVars == <<probe, accepting, writable, brokenAt>>
vars == <<now, gateVars, probeVars, th, requests, watched>>

-----------------------------------------------------------------------------
(* rate_limit_identity: the first address of X-Forwarded-For counts only   *)
(* when a trusted proxy sent it and the whole header is valid (None is a   *)
(* missing, repeated or invalid header).                                   *)
Identity(remote, forwarded) ==
    IF remote \in Trusted /\ forwarded # None THEN forwarded ELSE remote

(* authorization_valid; None is a missing header.                          *)
Authorized(supplied) ==
    IF Tokens = {} THEN ~RequireAuth ELSE supplied \in Tokens

(* The limiter's table is an OrderedDict: a sequence of callers with their *)
(* readings, the caller seen last at the end.                              *)
Tracks(table, key) == \E b \in Range(table) : b.key = key

Bucket(table, key) ==
    IF Tracks(table, key)
    THEN (CHOOSE b \in Range(table) : b.key = key).events
    ELSE <<>>

(* The members of a sequence that are in S, in their order (SelectSeq, of  *)
(* which nothing can be proved).                                           *)
Kept(s, S) ==
    LET kept[i \in 0..Len(s)] ==
            IF i = 0 THEN <<>>
            ELSE IF s[i] \in S THEN Append(kept[i - 1], s[i])
            ELSE kept[i - 1]
    IN kept[Len(s)]

Without(table, key) == Kept(table, {b \in Range(table) : b.key # key})

(* _expire_bucket: readings are dropped from the front while they are old. *)
Expire(events, cutoff) ==
    LET live == {i \in DOMAIN events : events[i] > cutoff}
    IN IF live = {} THEN <<>>
       ELSE SubSeq(events, CHOOSE i \in live : \A j \in live : i <= j, Len(events))

(* The callers in keys are expired, and those that have nothing left are   *)
(* dropped: one caller at the start of check(), all in _sweep_expired.     *)
Cut(table, keys, cutoff) ==
    [i \in DOMAIN table |->
        IF table[i].key \in keys
        THEN [key |-> table[i].key, events |-> Expire(table[i].events, cutoff)]
        ELSE table[i]]

Expired(table, keys, cutoff) ==
    LET cut == Cut(table, keys, cutoff)
    IN Kept(cut, {b \in Range(cut) : b.events # <<>>})

(* Mutant: a full table is not swept before a caller is evicted.           *)
SweepingRarely(l, key, own) == lim[l].checks + 1 >= SweepInterval

(* All buckets are expired every SweepInterval checks, and for a new       *)
(* caller in a full table.                                                 *)
Sweeping(l, key, own) ==
    \/ lim[l].checks + 1 >= SweepInterval
    \/ ~Tracks(own, key) /\ Len(own) >= MaxKeys

(* A new caller takes the place of the one seen least recently.            *)
Roomy(table, key) ==
    IF ~Tracks(table, key) /\ Len(table) >= MaxKeys THEN Tail(table) ELSE table

(* Mutant: one reading too many.                                           *)
HasRoomOffByOne(l, events) == Len(events) <= Limit[l]

HasRoom(l, events) == Len(events) < Limit[l]

(* int() truncates toward zero; the +1 rounds up.                          *)
Seconds(halves) == IF halves >= 0 THEN halves \div 2 ELSE -((-halves) \div 2)

(* Mutant: truncated and not rounded up.                                   *)
RetryAfterTruncated(events, reading) ==
    LET s == Seconds(events[1] + Window - reading)
    IN IF s < 1 THEN 1 ELSE s

RetryAfter(events, reading) ==
    LET s == Seconds(events[1] + Window - reading) + 1
    IN IF s < 1 THEN 1 ELSE s

-----------------------------------------------------------------------------
EmptyLimiters == [l \in Limiters |-> [checks |-> 0, table |-> <<>>]]

Idle == [pc |-> "idle", ready |-> None, at |-> None]

(* do_GET up to the limiter: the caller's key, the authorization that      *)
(* picks the limiter, and check()'s clock reading.                         *)
Arrive(t, remote, forwarded, supplied) ==
    /\ ~watched
    /\ th[t].pc = "idle" /\ requests < MaxRequests
    /\ requests' = requests + 1
    /\ th' = [th EXCEPT ![t] =
           [pc |-> "check", key |-> Identity(remote, forwarded), reading |-> now,
            limiter |-> IF Authorized(supplied) THEN "requests" ELSE "auth_failures"]]
    /\ UNCHANGED <<now, gateVars, probeVars, watched>>

(* RequestRateLimiter.check under its lock.  Allowed, the request goes on  *)
(* to the forecast, or to a 401 if it is not authorized; refused, it gets  *)
(* 429 with Retry-After.  A refused caller is also moved to the end.       *)
Check(t) ==
    LET l == th[t].limiter
        key == th[t].key
        reading == th[t].reading
        own == Expired(lim[l].table, {key}, reading - Window)
        sweeping == Sweeping(l, key, own)
        swept == IF sweeping THEN Expired(own, Addresses, reading - Window) ELSE own
        table == Roomy(swept, key)
        events == Bucket(swept, key)
        allowed == HasRoom(l, events)
    IN /\ th[t].pc = "check"
       /\ th' = [th EXCEPT ![t] = Idle]
       /\ IF Limit[l] = 0 THEN UNCHANGED gateVars
          ELSE /\ lim' = [lim EXCEPT ![l] =
                     [checks |-> IF sweeping THEN 0 ELSE lim[l].checks + 1,
                      table |-> Append(Without(table, key),
                          [key |-> key, events |->
                               IF allowed THEN Append(events, reading) ELSE events])]]
               /\ promised' = [promised EXCEPT ![l][key] =
                     IF allowed THEN None ELSE reading + 2 * RetryAfter(events, reading)]
               /\ granted' = [granted EXCEPT ![l] =
                     [k \in Addresses |->
                         IF Tracks(swept, k) /\ ~Tracks(table, k) THEN <<>>
                         ELSE IF k = key /\ allowed THEN Append(granted[l][k], reading)
                         ELSE granted[l][k]]]
       /\ UNCHANGED <<now, requests, probeVars, watched>>

-----------------------------------------------------------------------------
(* GET /readyz: the capacity is read first, then the probe lock is taken   *)
(* and the clock is read; a status that is recent enough is answered.      *)
ReadCapacity(t) ==
    /\ watched
    /\ th[t].pc = "idle" /\ requests < MaxRequests
    /\ requests' = requests + 1
    /\ th' = [th EXCEPT ![t] = [pc |-> "readiness", accepting |-> accepting]]
    /\ UNCHANGED <<now, gateVars, probeVars, watched>>

ProbeLocked == \E t \in Threads : th[t].pc \in {"probe", "probed"}

Answer(t, ready, at) ==
    th' = [th EXCEPT ![t] = [pc |-> "idle", ready |-> ready, at |-> at]]

Recent == IF probe = None THEN FALSE ELSE now - probe.checkedAt < ProbeInterval

ReadinessCached(t) ==
    /\ th[t].pc = "readiness" /\ ~ProbeLocked
    /\ Recent
    /\ Answer(t, probe.ready /\ th[t].accepting, now)
    /\ UNCHANGED <<now, gateVars, probeVars, requests, watched>>

ReadinessStale(t) ==
    /\ th[t].pc = "readiness" /\ ~ProbeLocked
    /\ ~Recent
    /\ th' = [th EXCEPT ![t] = [pc |-> "probe", accepting |-> th[t].accepting,
                                reading |-> now]]
    /\ UNCHANGED <<now, gateVars, probeVars, requests, watched>>

(* write_readiness: a row is written, read back and rolled back.  It is    *)
(* not ready when any of this fails.                                       *)
ProbeWrite(t) ==
    /\ th[t].pc = "probe"
    /\ th' = [th EXCEPT ![t] = [pc |-> "probed", accepting |-> th[t].accepting,
                                reading |-> th[t].reading, ready |-> writable]]
    /\ UNCHANGED <<now, gateVars, probeVars, requests, watched>>

(* Mutant: the status is dated when it is stored, after the probe.         *)
ProbeStoreLate(t) ==
    /\ th[t].pc = "probed"
    /\ probe' = [ready |-> th[t].ready, checkedAt |-> now]
    /\ Answer(t, th[t].ready /\ th[t].accepting, th[t].reading)
    /\ UNCHANGED <<now, gateVars, accepting, writable, brokenAt, requests, watched>>

(* The status is dated by the clock reading from before the probe.         *)
ProbeStore(t) ==
    /\ th[t].pc = "probed"
    /\ probe' = [ready |-> th[t].ready, checkedAt |-> th[t].reading]
    /\ Answer(t, th[t].ready /\ th[t].accepting, th[t].reading)
    /\ UNCHANGED <<now, gateVars, accepting, writable, brokenAt, requests, watched>>

-----------------------------------------------------------------------------
(* The append-only store fills; the disk stops taking writes or recovers.  *)
Fill ==
    /\ watched /\ accepting
    /\ accepting' = FALSE
    /\ UNCHANGED <<now, gateVars, probe, writable, brokenAt, th, requests, watched>>

DiskChanges ==
    /\ watched
    /\ writable' = ~writable
    /\ brokenAt' = IF writable THEN now ELSE None
    /\ UNCHANGED <<now, gateVars, probe, accepting, th, requests, watched>>

Tick ==
    /\ now < MaxTime
    /\ now' = now + 1
    /\ UNCHANGED <<gateVars, probeVars, th, requests, watched>>

(* The process ends and starts anew: buckets and probe status are kept in  *)
(* memory only.                                                            *)
Restart ==
    /\ lim' = EmptyLimiters
    /\ th' = [t \in Threads |-> Idle]
    /\ probe' = None
    /\ requests' = 0
    /\ granted' = [l \in Limiters |-> [k \in Addresses |-> <<>>]]
    /\ promised' = [l \in Limiters |-> [k \in Addresses |-> None]]
    /\ UNCHANGED <<now, accepting, writable, brokenAt, watched>>

Next ==
    \/ \E t \in Threads :
           \/ \E remote \in Addresses, forwarded \in Addresses \cup {None},
                 supplied \in Tokens \cup {None} :
                     Arrive(t, remote, forwarded, supplied)
           \/ Check(t)
           \/ ReadCapacity(t)
           \/ ReadinessCached(t)
           \/ ReadinessStale(t)
           \/ ProbeWrite(t)
           \/ ProbeStore(t)
    \/ Fill
    \/ DiskChanges
    \/ Tick
    \/ Restart

Init ==
    /\ lim = EmptyLimiters
    /\ th = [t \in Threads |-> Idle]
    /\ probe = None
    /\ requests = 0
    /\ granted = [l \in Limiters |-> [k \in Addresses |-> <<>>]]
    /\ promised = [l \in Limiters |-> [k \in Addresses |-> None]]
    /\ now = 0
    /\ accepting = TRUE
    /\ writable = TRUE
    /\ brokenAt = None
    /\ watched \in BOOLEAN

Spec == Init /\ [][Next]_vars

-----------------------------------------------------------------------------
InWindow(readings, end) ==
    Cardinality({i \in DOMAIN readings :
                    end - Window < readings[i] /\ readings[i] <= end})

(* As long as a caller is tracked, no window holds more of its admitted    *)
(* requests than the limit and one for each other thread that may have     *)
(* read the clock before the window was left behind: the clock is read     *)
(* outside the lock, and that is all it costs.                             *)
WindowLimit ==
    \A l \in Limiters, k \in Addresses :
        Limit[l] > 0 =>
            \A i \in DOMAIN granted[l][k] :
                InWindow(granted[l][k], granted[l][k][i])
                    <= Limit[l] + Cardinality(Threads) - 1

(* A caller who waits for Retry-After finds room in its bucket, unless     *)
(* another of its requests was admitted since: truncation to whole seconds *)
(* never sends it back too early, whatever the order of the readings.      *)
RetryAfterSuffices ==
    \A l \in Limiters, k \in Addresses :
        promised[l][k] # None /\ promised[l][k] <= now =>
            Len(Expire(Bucket(lim[l].table, k), now - Window)) < Limit[l]

(* A caller with a request in the current window is forgotten only for a   *)
(* full table of callers each of whom has a request in the window, too (a  *)
(* restart, which leaves an empty table, forgets everyone).                *)
ForgetsOnlyWhenFull ==
    [][\A t \in Threads, l \in Limiters, k \in Addresses :
           LET live(table, key, time) ==
                   \E i \in DOMAIN Bucket(table, key) :
                       Bucket(table, key)[i] > time - Window
           IN /\ th[t].pc = "check" /\ th'[t] = Idle
              /\ lim'[l].table # <<>>
              /\ live(lim[l].table, k, now) /\ ~Tracks(lim'[l].table, k)
              => /\ Len(lim'[l].table) = MaxKeys
                 /\ \A i \in 1..(MaxKeys - 1) :
                        live(lim'[l].table, lim'[l].table[i].key, th[t].reading)]_vars

(* "ready" is answered only if the store could be written at some moment   *)
(* of the probe interval before the answer's clock reading, or after it,   *)
(* across any number of threads waiting for the probe and slow probes.     *)
ReadyIsRecent ==
    \A t \in Threads :
        th[t].pc = "idle" /\ th[t].ready = TRUE /\ brokenAt # None =>
            brokenAt > th[t].at - ProbeInterval \/ brokenAt >= th[t].at
=============================================================================

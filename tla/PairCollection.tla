--------------------------- MODULE PairCollection ---------------------------
(***************************************************************************)
(* The collection of provider forecasts for the comparison                 *)
(* (scripts/collect_provider_pairs.py): runs that append one case per      *)
(* location, runs that fill in outcomes, and the merge of the host's file  *)
(* into the data branch (docs/p4-host-collection.md).                      *)
(*                                                                         *)
(* A run reads the whole dataset, changes it in memory and replaces the    *)
(* file atomically, after the loader of the comparison has accepted it.    *)
(* Nothing locks the file: Serialised says whether runs on one file are    *)
(* kept apart by what starts them (systemd runs a unit once at a time, the *)
(* workflow has a concurrency group and pushes only onto what it fetched). *)
(* Issue times are whole hours, and so is the clock; climatology and       *)
(* provenance, which nothing here looks at, are left out of a case.        *)
(***************************************************************************)
EXTENDS ForecastPipeline, Backtest, TLC

CONSTANTS
    Files,          \* datasets: the host's and the branch's
    Runs,           \* runs of the script that may be under way
    NLocations,     \* locations of the frozen list, in the order of their slugs
    Leads,          \* --lead-hours
    PairForecasts,  \* what the two providers may answer about one case
    Serialised,
    MaxHour,        \* bound on the clock
    MaxRuns         \* bound on the runs of a behaviour

ASSUME CollectionAssumption ==
    /\ Leads \subseteq Nat \ {0}
    /\ {MaxHour, MaxRuns} \subseteq Nat
    /\ NLocations \in Nat \ {0}
    /\ \A forecasts \in PairForecasts : DOMAIN forecasts # {}
    /\ Serialised \in BOOLEAN

VARIABLES
    hourNow,        \* the current hour
    datasets,       \* the content of each file
    runs,           \* the runs under way
    started,        \* bound: runs so far
    leadChanged,    \* history: files written under --allow-lead-change
    rejected        \* history: files the loader refused to replace

collectionVars == <<hourNow, datasets, runs, started, leadChanged, rejected>>

-----------------------------------------------------------------------------
(* case_id_for: slug, then issue time, so that ids sort by slug.           *)
CaseId(location, issued) == (MaxHour + 1) * Hour * location + issued

(* build_question and collect_once: the hour asked about begins a lead     *)
(* after the issue time, which is also the cutoff.                         *)
PairCase(location, issued, lead, forecasts) ==
    [id |-> CaseId(location, issued), location |-> location, issued |-> issued,
     start |-> issued + lead * Hour, end |-> issued + lead * Hour + Hour,
     resolved |-> Unknown, outcome |-> Unknown, forecasts |-> forecasts]

CollectOnce(issued, lead, answers) ==
    [l \in 1..NLocations |-> PairCase(l, issued, lead, answers[l])]

LeadTime(case) == case.start - case.issued

LeadChanges(existing, new) ==
    /\ existing # <<>> /\ new # <<>>
    /\ LeadTime(existing[Len(existing)]) # LeadTime(new[1])

Unseen(existing, new) ==
    {c \in Range(new) : \A i \in DOMAIN existing : existing[i].id # c.id}

(* The order of the loader: issue time, then id.  Sorted by it, a case     *)
(* stands after as many as come before it: no two cases have one id.       *)
Before(c, d) == c.issued < d.issued \/ (c.issued = d.issued /\ c.id < d.id)

Earlier(S, c) == {d \in S : Before(d, c)}

Chronological(S) ==
    [k \in 1..Cardinality(S) |->
        CHOOSE c \in S : Cardinality(Earlier(S, c)) = k - 1]

(* Mutant: what was collected last replaces what is there.                 *)
MergeCasesReplacing(existing, new) ==
    Chronological(Unseen(new, existing) \cup Range(new))

(* Mutant: new cases go to the end.                                        *)
MergeCasesUnsorted(existing, new) ==
    existing \o Chronological(Unseen(existing, new))

(* merge_cases: only unseen cases are added, and the whole is sorted.      *)
MergeCases(existing, new) ==
    Chronological(Range(existing) \cup Unseen(existing, new))

(* load_chronological_cases, on a whole list.                              *)
Loadable(list) ==
    /\ list # <<>>
    /\ \A i \in DOMAIN list :
           WellFormedCase(list[i]) /\ InOrder(SubSeq(list, 1, i - 1), list[i])

(* resolve_cases: cases without an outcome whose hour is over are resolved *)
(* with the export's observation, if it has a valid one.                   *)
Question(case) ==
    [event |-> case.id, asks |-> [place |-> [lat |-> case.location, lon |-> 0]],
     start |-> case.start, end |-> case.end]

ResolveCase(case, observed, time) ==
    LET result == ResolvePrecipitation(Question(case), observed)
    IN IF case.outcome # Unknown \/ case.end > time \/ result.status # "resolved"
       THEN case
       ELSE [case EXCEPT !.outcome = result.outcome, !.resolved = time]

-----------------------------------------------------------------------------
IdleRun == [pc |-> "idle", file |-> None]

(* A run that may start on a file.                                         *)
Starts(r, f) ==
    /\ runs[r] = IdleRun /\ started < MaxRuns
    /\ Serialised => \A s \in Runs : runs[s].file # f
    /\ started' = started + 1

Writing(f, list, allowed) ==
    [pc |-> "writing", file |-> f, list |-> list, allowed |-> allowed]

(* main, mode collect: the hour is read first, the providers are asked ... *)
BeginCollect(r, f, lead, allowed) ==
    /\ Starts(r, f)
    /\ runs' = [runs EXCEPT ![r] =
           [pc |-> "fetching", file |-> f, lead |-> lead, allowed |-> allowed,
            issued |-> hourNow * Hour]]
    /\ UNCHANGED <<hourNow, datasets, leadChanged, rejected>>

(* ... and the dataset is read after that.  A changed lead ends the run.   *)
Collected(r, answers) ==
    /\ runs[r].pc = "fetching"
    /\ LET run == runs[r]
           new == CollectOnce(run.issued, run.lead, answers)
           existing == datasets[run.file]
       IN runs' = [runs EXCEPT ![r] =
              IF LeadChanges(existing, new) /\ ~run.allowed THEN IdleRun
              ELSE Writing(run.file, MergeCases(existing, new), run.allowed)]
    /\ UNCHANGED <<hourNow, datasets, started, leadChanged, rejected>>

(* main, mode resolve, with an export that covers some of the locations    *)
(* and says one amount of all hours; another export may say another.       *)
BeginResolve(r, f, covered, amount) ==
    /\ Starts(r, f)
    /\ datasets[f] # <<>>
    /\ LET Observed(q) ==
               IF q.asks.place.lat \in covered
               THEN Observation(q.event, q.asks.place.lat, 0, q.start, q.end, amount)
               ELSE None
       IN runs' = [runs EXCEPT ![r] =
              Writing(f, [i \in DOMAIN datasets[f] |->
                             ResolveCase(datasets[f][i], Observed(Question(datasets[f][i])),
                                         hourNow * Hour)],
                      FALSE)]
    /\ UNCHANGED <<hourNow, datasets, leadChanged, rejected>>

(* The runbook's merge of one file into another.                           *)
BeginImport(r, from, into) ==
    /\ Starts(r, into)
    /\ datasets[from] # <<>>
    /\ ~LeadChanges(datasets[into], datasets[from])
    /\ runs' = [runs EXCEPT ![r] =
           Writing(into, MergeCases(datasets[into], datasets[from]), from \in leadChanged)]
    /\ UNCHANGED <<hourNow, datasets, leadChanged, rejected>>

(* write_dataset and atomic_write_bytes: a sibling file is written, loaded *)
(* and renamed; if it does not load, the dataset stays as it is.           *)
WriteDataset(r) ==
    /\ runs[r].pc = "writing"
    /\ LET f == runs[r].file
       IN IF Loadable(runs[r].list)
          THEN /\ datasets' = [datasets EXCEPT ![f] = runs[r].list]
               /\ leadChanged' = IF runs[r].allowed THEN leadChanged \cup {f}
                                 ELSE leadChanged
               /\ UNCHANGED rejected
          ELSE rejected' = rejected \cup {f} /\ UNCHANGED <<datasets, leadChanged>>
    /\ runs' = [runs EXCEPT ![r] = IdleRun]
    /\ UNCHANGED <<hourNow, started>>

(* A run dies, is a dry run, or cannot reach the disk.                     *)
RunEnds(r) ==
    /\ runs[r] # IdleRun
    /\ runs' = [runs EXCEPT ![r] = IdleRun]
    /\ UNCHANGED <<hourNow, datasets, started, leadChanged, rejected>>

HourPasses ==
    /\ hourNow < MaxHour
    /\ hourNow' = hourNow + 1
    /\ UNCHANGED <<datasets, runs, started, leadChanged, rejected>>

CollectionStep ==
    \/ \E r \in Runs, f \in Files :
           \/ \E lead \in Leads, allowed \in BOOLEAN : BeginCollect(r, f, lead, allowed)
           \/ \E covered \in SUBSET (1..NLocations), a \in {Min(Amounts), Max(Amounts)} :
                 BeginResolve(r, f, covered, a)
           \/ \E into \in Files \ {f} : BeginImport(r, f, into)
    \/ \E r \in Runs :
           \/ \E answers \in [1..NLocations -> PairForecasts] : Collected(r, answers)
           \/ WriteDataset(r)
           \/ RunEnds(r)
    \/ HourPasses

CollectionInit ==
    /\ hourNow = 0
    /\ datasets = [f \in Files |-> <<>>]
    /\ runs = [r \in Runs |-> IdleRun]
    /\ started = 0
    /\ leadChanged = {}
    /\ rejected = {}
=============================================================================

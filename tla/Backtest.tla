------------------------------ MODULE Backtest ------------------------------
(***************************************************************************)
(* The chronological comparison of weather providers                       *)
(* (src/oathcast/backtest.py) and the Brier scores it is made of           *)
(* (src/oathcast/scoring.py).                                              *)
(*                                                                         *)
(* Cases are read in order of issue.  The run walks over them one batch of *)
(* equal issue times after the other and chooses for each batch a provider *)
(* by the scores of earlier cases.  Probabilities are hundredths, so a     *)
(* loss is in units of 1/10000; a mean is kept as its sum and its count,   *)
(* which the code rounds to six digits: the same order for fewer than ten  *)
(* cases.  Provider names are numbers, in their alphabetical order.  A     *)
(* list of some of the cases is a function on their positions.             *)
(***************************************************************************)
EXTENDS Integers, Sequences, FiniteSetsExt

CONSTANTS
    Cases,          \* cases a fixture may list
    MaxCases,       \* bound on the length of a fixture
    WarmupCases,    \* warmup_cases
    MinHistory,     \* min_history_valid_cases
    Unknown         \* an outcome, a time or a probability that is not there

ASSUME BacktestAssumption ==
    /\ MaxCases \in Nat
    /\ WarmupCases \in Nat
    /\ MinHistory \in Nat \ {0}
    /\ \A c \in Cases :
           /\ {"issued", "forecasts", "outcome", "resolved"} \subseteq DOMAIN c
           /\ c.issued \in Int
    /\ Unknown \notin Int

VARIABLES
    cases,      \* the cases read so far
    phase,      \* "reading", "running", "reported" or "rejected"
    index,      \* the number of cases that have been decided
    trace       \* selection_trace: what was selected for each case

backtestVars == <<cases, phase, index, trace>>

-----------------------------------------------------------------------------
(* BrierCase: an attempt with its outcome.                                 *)
Attempt(probability, status, outcome) ==
    [probability |-> probability, status |-> status, outcome |-> outcome]

IsValid(attempt) ==
    attempt.status = "valid" /\ attempt.outcome # Unknown /\ attempt.probability # Unknown

BrierLoss(probability, outcome) ==
    (probability - 100 * outcome) * (probability - 100 * outcome)

(* An attempt that is not valid is worth nothing, not the worst loss.      *)
ScoreAttempt(attempt) ==
    IF IsValid(attempt) THEN 10000 - BrierLoss(attempt.probability, attempt.outcome)
    ELSE 0

(* evaluate_brier, as far as the choice of a provider looks at it.         *)
EvaluateBrier(attempts) ==
    LET valid == {i \in DOMAIN attempts : IsValid(attempts[i])}
    IN [valid |-> Cardinality(valid),
        loss |-> MapThenSumSet(LAMBDA i :
                     BrierLoss(attempts[i].probability, attempts[i].outcome), valid),
        score |-> MapThenSumSet(LAMBDA i : ScoreAttempt(attempts[i]),
                                DOMAIN attempts)]

-----------------------------------------------------------------------------
(* ChronologicalCase: an outcome comes with the time it was resolved, and  *)
(* that is after the hour, which is after the forecast.                    *)
WellFormedCase(c) ==
    /\ c.issued < c.start /\ c.start < c.end
    /\ (c.outcome = Unknown) = (c.resolved = Unknown)
    /\ c.resolved # Unknown => c.end <= c.resolved
    /\ DOMAIN c.forecasts # {}

(* validate_chronology, for the case read after those before it; cases of  *)
(* one issue time come in order of their ids.                              *)
InOrder(before, c) ==
    before = <<>>
    \/ LET last == before[Len(before)]
       IN /\ c.end - c.start = last.end - last.start
          /\ last.issued < c.issued \/ (last.issued = c.issued /\ last.id < c.id)
          /\ \A i \in DOMAIN before : before[i].id # c.id

(* ChronologicalCase.to_brier_case: a provider the case does not list is   *)
(* missing.                                                                *)
ToAttempt(c, provider) ==
    IF provider \in DOMAIN c.forecasts
    THEN Attempt(c.forecasts[provider].probability, c.forecasts[provider].status,
                 c.outcome)
    ELSE Attempt(Unknown, "missing", c.outcome)

AttemptsOf(list, provider) == [i \in DOMAIN list |-> ToAttempt(list[i], provider)]

ProviderNames(list) == UNION {DOMAIN list[i].forecasts : i \in DOMAIN list}

(* Mutant: every earlier case with an outcome, whenever it was resolved.   *)
AvailablePriorHindsight(list, decided, issued) ==
    LET Visible(c) == c.resolved # Unknown
    IN RestrictValues(Restrict(list, 1..decided), Visible)

(* Earlier cases whose outcome was known when this batch was issued.       *)
AvailablePrior(list, decided, issued) ==
    LET Visible(c) == c.resolved # Unknown /\ c.resolved <= issued
    IN RestrictValues(Restrict(list, 1..decided), Visible)

(* _choose_provider: enough valid history; the best end-to-end score, then *)
(* the smaller mean loss, then the name.  All histories are equally long.  *)
EligibleProfiles(prior, names) ==
    LET profile == [p \in names |-> EvaluateBrier(AttemptsOf(prior, p))]
        Enough(summary) == summary.valid >= MinHistory
    IN RestrictValues(profile, Enough)

BestOf(profile) ==
    LET Better(p, q) ==
            \/ profile[p].score > profile[q].score
            \/ /\ profile[p].score = profile[q].score
               /\ LET mine == profile[p].loss * profile[q].valid
                      other == profile[q].loss * profile[p].valid
                  IN mine < other \/ (mine = other /\ p <= q)
    IN CHOOSE p \in DOMAIN profile : \A q \in DOMAIN profile : Better(p, q)

ChooseProvider(prior, names) ==
    LET eligible == EligibleProfiles(prior, names)
    IN IF DOMAIN eligible = {} THEN Unknown ELSE BestOf(eligible)

(* The selection for the batch after the decided cases of a list.          *)
Selection(list, decided) ==
    ChooseProvider(AvailablePrior(list, decided, list[decided + 1].issued),
                   ProviderNames(list))

-----------------------------------------------------------------------------
(* load_chronological_cases reads the fixture and rejects it as a whole.   *)
ReadCase(c) ==
    /\ phase = "reading" /\ Len(cases) < MaxCases
    /\ IF WellFormedCase(c) /\ InOrder(cases, c)
       THEN cases' = Append(cases, c) /\ UNCHANGED phase
       ELSE phase' = "rejected" /\ UNCHANGED cases
    /\ UNCHANGED <<index, trace>>

BeginRun ==
    /\ phase = "reading"
    /\ phase' = IF WarmupCases < Len(cases) THEN "running" ELSE "rejected"
    /\ UNCHANGED <<cases, index, trace>>

Batch(decided) ==
    {i \in decided + 1..Len(cases) : cases[i].issued = cases[decided + 1].issued}

(* One turn of the loop in run_chronological_backtest.                     *)
DecideBatch ==
    /\ phase = "running" /\ index < Len(cases)
    /\ LET selected == Selection(cases, index)
           size == Cardinality(Batch(index))
       IN /\ trace' = trace \o [i \in 1..size |-> selected]
          /\ index' = index + size
    /\ UNCHANGED <<cases, phase>>

(* The cases are decided; the summaries printed then change no selection   *)
(* and are left out.                                                       *)
Report ==
    /\ phase = "running" /\ index = Len(cases)
    /\ phase' = "reported"
    /\ UNCHANGED <<cases, index, trace>>

BacktestInit ==
    /\ cases = <<>> /\ phase = "reading" /\ index = 0
    /\ trace = <<>>

BacktestStep ==
    \/ \E c \in Cases : ReadCase(c)
    \/ BeginRun
    \/ DecideBatch
    \/ Report
=============================================================================

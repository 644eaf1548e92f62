--------------------------- MODULE SuiteComparison ---------------------------
(***************************************************************************)
(* The comparison of a baseline and a candidate over the cases of a suite: *)
(* each case is run twice, the two runs are compared, the cohort is        *)
(* counted, and the counts decide the recommendation.                      *)
(*                                                                         *)
(* A run is what the decision tells apart: what aborted it, whether its    *)
(* outcome is the expected one, the evaluators it passed, its retries, and *)
(* whether it has every measurement that a budget of the bundle asks for.  *)
(***************************************************************************)
EXTENDS Naturals, FiniteSets

CONSTANTS SafetyEvaluators, OtherEvaluators,
          SuiteSize,      \* cases of the suite
          MaxRunRetries   \* retries of a run

ASSUME ComparisonAssumption ==
    /\ SafetyEvaluators \cap OtherEvaluators = {}
    /\ SuiteSize \in Nat \ {0} /\ MaxRunRetries \in Nat

VARIABLES
    stage,        \* "validate", "baseline", "candidate", or how it ended
    baselineRun,  \* the baseline run of the case under way
    counts,       \* of the cohort so far
    mirrored,     \* history: the counts with the two sides exchanged
    seen          \* history: what happened in some case

comparisonVars == <<stage, baselineRun, counts, mirrored, seen>>

-----------------------------------------------------------------------------
(* Runs, and compare_runs                                                   *)

\* The environment may abort a run: no response, hence no evaluator, no latency.
CaseRuns ==
    [aborted : {"no"}, matches : BOOLEAN, passed : SUBSET (SafetyEvaluators \cup OtherEvaluators),
     retries : 0 .. MaxRunRetries, measured : BOOLEAN]
    \cup [aborted : {"unexpected_access", "missing_coverage"}, matches : {FALSE}, passed : {{}},
          retries : 0 .. MaxRunRetries, measured : {FALSE}]

NotRun == [aborted |-> "not_run", matches |-> FALSE, passed |-> {}, retries |-> 0, measured |-> FALSE]

Comparable(b, c) == b.aborted = "no" /\ c.aborted = "no"
Measured(b, c)   == b.measured /\ c.measured

LostEvaluators(b, c)   == b.passed \ c.passed
SafetyRegression(b, c) == Comparable(b, c) /\ LostEvaluators(b, c) \cap SafetyEvaluators # {}

Regresses(b, c) ==
    (b.matches /\ ~c.matches) \/ LostEvaluators(b, c) # {} \/ c.retries > b.retries

Improves(b, c) ==
    (c.matches /\ ~b.matches) \/ LostEvaluators(c, b) # {} \/ c.retries < b.retries

\* A missing measurement goes before a regression.
CompareRuns(b, c) ==
    IF ~Comparable(b, c) \/ ~Measured(b, c) THEN "insufficient_evidence"
    ELSE IF Regresses(b, c) THEN "candidate_regresses"
    ELSE IF Improves(b, c) THEN "candidate_passes" ELSE "no_material_difference"

\* _task_success
TaskSuccess(r) == r.matches /\ SafetyEvaluators \subseteq r.passed

-----------------------------------------------------------------------------
(* _finalize_result                                                         *)

NoCounts == [cases |-> 0, regressions |-> 0, insufficient |-> 0, safety |-> 0,
             baseline |-> 0, candidate |-> 0]

One(p) == IF p THEN 1 ELSE 0

Counted(n, b, c) ==
    [cases        |-> n.cases + 1,
     regressions  |-> n.regressions + One(CompareRuns(b, c) = "candidate_regresses"),
     insufficient |-> n.insufficient + One(CompareRuns(b, c) = "insufficient_evidence"),
     safety       |-> n.safety + One(SafetyRegression(b, c)),
     baseline     |-> n.baseline + One(TaskSuccess(b)),
     candidate    |-> n.candidate + One(TaskSuccess(c))]

\* Mutant: incomplete evidence is not counted.
RecommendationRegardless(n) ==
    IF n.regressions > 0 \/ n.safety > 0 THEN "keep_baseline"
    ELSE IF n.candidate > n.baseline THEN "recommend_candidate"
    ELSE IF n.candidate < n.baseline THEN "keep_baseline" ELSE "inconclusive"

Recommendation(n) ==
    IF n.regressions > 0 \/ n.safety > 0 THEN "keep_baseline"
    ELSE IF n.insufficient > 0 THEN "inconclusive"
    ELSE IF n.candidate > n.baseline THEN "recommend_candidate"
    ELSE IF n.candidate < n.baseline THEN "keep_baseline" ELSE "inconclusive"

-----------------------------------------------------------------------------
(* run_suite_comparison                                                     *)

ComparisonInit ==
    /\ stage = "validate" /\ baselineRun = NotRun
    /\ counts = NoCounts /\ mirrored = NoCounts /\ seen = {}

\* Cases that are not the suite's members, a change that is not executable or not
\* the only one, and another baseline model are refused before any run.
Validate ==
    /\ stage = "validate"
    /\ stage' \in {"baseline", "refused"}
    /\ UNCHANGED <<baselineRun, counts, mirrored, seen>>

\* A run that raises ends the comparison without a result.
CaseRaises ==
    /\ stage \in {"baseline", "candidate"}
    /\ stage' = "raised"
    /\ UNCHANGED <<baselineRun, counts, mirrored, seen>>

RunBaseline(b) ==
    /\ stage = "baseline"
    /\ stage' = "candidate" /\ baselineRun' = b
    /\ UNCHANGED <<counts, mirrored, seen>>

RunCandidate(c) ==
    LET b == baselineRun IN
    /\ stage = "candidate"
    /\ counts' = Counted(counts, b, c)
    /\ mirrored' = Counted(mirrored, c, b)
    /\ stage' = IF counts'.cases = SuiteSize THEN Recommendation(counts') ELSE "baseline"
    /\ baselineRun' = NotRun
    /\ seen' = seen \cup {CompareRuns(b, c)}
                    \cup (IF TaskSuccess(b) /\ ~TaskSuccess(c) THEN {"task_lost"} ELSE {})

ComparisonNext ==
    \/ Validate \/ CaseRaises
    \/ \E r \in CaseRuns : RunBaseline(r) \/ RunCandidate(r)

ComparisonSpec == ComparisonInit /\ [][ComparisonNext]_comparisonVars

-----------------------------------------------------------------------------
ComparisonTypeOK ==
    /\ stage \in {"validate", "refused", "baseline", "candidate", "raised",
                  "keep_baseline", "inconclusive", "recommend_candidate"}
    /\ baselineRun \in CaseRuns \cup {NotRun}
    /\ DOMAIN counts = DOMAIN NoCounts
    /\ \A k \in DOMAIN counts : counts[k] \in 0 .. SuiteSize

\* A recommended candidate has earned it: some case passes for it, it lost no task
\* the baseline completes, no case lacks evidence, and whoever compared the two the
\* other way round was told to keep what is the candidate here.
RecommendationIsEarned ==
    stage = "recommend_candidate" =>
        /\ "candidate_passes" \in seen
        /\ seen \cap {"task_lost", "candidate_regresses", "insufficient_evidence"} = {}
        /\ Recommendation(mirrored) = "keep_baseline"
=============================================================================

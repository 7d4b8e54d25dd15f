------------------------- MODULE RegressionPipeline -------------------------
(***************************************************************************)
(* RegressionPipeline.run: replay, routing marker, evaluation, chaos       *)
(* drill (ChaosDrill), alerts and score, error budget, gate, result and    *)
(* event.  The budget tracker lives on from run to run.  Any step may      *)
(* raise: a subscriber of the in-memory bus is called inside _publish, and *)
(* so are the evaluation and the config center.                            *)
(* Rates are in percent; a score in ten-thousandths.                       *)
(***************************************************************************)
EXTENDS Integers, Sequences, FiniteSets

CONSTANTS
    MaxRuns,            \* bound on the runs
    Totals,             \* sizes of the datasets, each a divisor of 100
    SloTarget,          \* percent
    ScoreThreshold,     \* of the gate, ten-thousandths
    MaxP1Alerts

ASSUME PipelineAssumption ==
    /\ MaxRuns \in Nat /\ MaxP1Alerts \in Nat
    /\ Totals \subseteq {1, 2, 4, 5, 10, 20, 25, 50, 100}
    /\ SloTarget \in 1..100 /\ ScoreThreshold \in Nat

VARIABLES
    runs,               \* the number of runs begun
    run,                \* the current run
    budget,             \* the tracker: [total, bad]
    persisted,          \* run number -> the result in the config center
    announced           \* run number -> gate_passed of regression.completed

pipelineVars == <<runs, run, budget, persisted, announced>>

NoSummary == [total |-> 0, good |-> 0, toolFailures |-> 0, slow |-> FALSE, f1 |-> 0]
NoRun == [at |-> "idle", chaos |-> FALSE, steps |-> <<>>,
          summary |-> NoSummary, passed |-> FALSE]

PipelineInit ==
    /\ runs = 0
    /\ run = NoRun
    /\ budget = [total |-> 0, bad |-> 0]
    /\ persisted = <<>>
    /\ announced = <<>>

\* The steps before the evaluation: each runs if its component is given.
OptionalSteps == {<<>>, <<"replay">>, <<"ab_route">>, <<"replay", "ab_route">>}

\* regression.started, and the optional steps.
StartRun(chaos, optional) ==
    /\ run.at = "idle" /\ runs < MaxRuns
    /\ runs' = runs + 1
    /\ run' = [NoRun EXCEPT !.at = "evaluate", !.chaos = chaos, !.steps = optional]
    /\ UNCHANGED <<budget, persisted, announced>>

\* evaluate_fn; without one the summary has no samples and a success rate of 1.
EvaluateStep ==
    /\ run.at = "evaluate"
    /\ \E total \in Totals \cup {0} :
       \E good \in 0..total, slow \in BOOLEAN, f1 \in {0, 100} :
       \E failures \in {0, total - good} :
          run' = [run EXCEPT !.at = "chaos", !.steps = Append(@, "evaluate"),
                             !.summary = [total |-> total, good |-> good, slow |-> slow,
                                          toolFailures |-> failures, f1 |-> f1]]
    /\ UNCHANGED <<runs, budget, persisted, announced>>

\* The scenarios of the run; the resilience report goes into the result, not to the gate.
ChaosStep ==
    /\ run.at = "chaos"
    /\ run' = [run EXCEPT !.at = "assess",
                          !.steps = IF run.chaos THEN Append(@, "chaos") ELSE @]
    /\ UNCHANGED <<runs, budget, persisted, announced>>

-----------------------------------------------------------------------------
\* e2e_success_rate
Rate(summary) == IF summary.total = 0 THEN 100 ELSE (100 * summary.good) \div summary.total

\* AlertManager.evaluate on the default rules that the summaries can meet.
Firing(summary) ==
    {a \in {"low_e2e_success_rate", "high_p95_latency", "tool_execution_failures"} :
        \/ a = "low_e2e_success_rate" /\ Rate(summary) < 75
        \/ a = "high_p95_latency" /\ summary.slow
        \/ a = "tool_execution_failures" /\ summary.toolFailures >= 1}
P1 == {"low_e2e_success_rate", "tool_execution_failures"}

Lower(a, b) == IF a < b THEN a ELSE b
Higher(a, b) == IF a < b THEN b ELSE a

\* _compute_technical_score, with a stability of 1, in thousandths.
TechnicalScore(summary) ==
    Higher(0, 7 * Rate(summary) + 300 - Lower(100 * Cardinality(Firing(summary)), 500))

\* _compute_business_score, with a cost efficiency of 1, in thousandths.
BusinessScore(summary) == 4 * Rate(summary) + 300 + 3 * summary.f1

OverallScore(summary) == 6 * TechnicalScore(summary) + 4 * BusinessScore(summary)

\* total - int(total * rate): in floating point the product of a rate that is neither 0 nor
\* 1 may fall just below the number of successes.
BadCounted(summary) ==
    IF summary.good \in {0, summary.total} THEN {summary.total - summary.good}
    ELSE {summary.total - summary.good, summary.total - summary.good + 1}

\* Alerts and scores are computed and the budget is charged.
AssessStep ==
    /\ run.at = "assess"
    /\ \E bad \in BadCounted(run.summary) :
          budget' = [total |-> budget.total + run.summary.total, bad |-> budget.bad + bad]
    /\ run' = [run EXCEPT !.at = "gate"]
    /\ UNCHANGED <<runs, persisted, announced>>

\* snapshot: remaining <= 0, infinite burn included.  Its rounding to four digits makes a
\* difference only once hundreds of bad observations are allowed, and is left out.
BudgetExhausted(b) == b.total > 0 /\ 100 * b.bad >= b.total * (100 - SloTarget)

\* Mutant: an exhausted budget does not block.
DecidesWithoutBudget(summary, b) ==
    /\ Cardinality(Firing(summary) \cap P1) <= MaxP1Alerts
    /\ OverallScore(summary) >= ScoreThreshold

\* GateFunction.decide
Decides(summary, b) ==
    /\ Cardinality(Firing(summary) \cap P1) <= MaxP1Alerts
    /\ OverallScore(summary) >= ScoreThreshold
    /\ ~BudgetExhausted(b)

GateStep ==
    /\ run.at = "gate"
    /\ run' = [run EXCEPT !.at = "persist", !.passed = Decides(run.summary, budget),
                          !.steps = Append(@, "gate")]
    /\ UNCHANGED <<runs, budget, persisted, announced>>

Put(f, n, value) == [k \in DOMAIN f \cup {n} |-> IF k = n THEN value ELSE f[k]]

\* config_center.put("regression_results", run_id, ...)
PersistStep ==
    /\ run.at = "persist"
    /\ persisted' = Put(persisted, runs, [passed |-> run.passed, steps |-> run.steps])
    /\ run' = [run EXCEPT !.at = "complete"]
    /\ UNCHANGED <<runs, budget, announced>>

\* regression.completed
CompleteStep ==
    /\ run.at = "complete"
    /\ announced' = Put(announced, runs, run.passed)
    /\ run' = NoRun
    /\ UNCHANGED <<runs, budget, persisted>>

\* A subscriber, the evaluation or the config center raises out of run.
RaiseInRun ==
    /\ run.at # "idle"
    /\ run' = NoRun
    /\ UNCHANGED <<runs, budget, persisted, announced>>

\* reset: a new budget window.
ResetBudget ==
    /\ budget' = [total |-> 0, bad |-> 0]
    /\ UNCHANGED <<runs, run, persisted, announced>>

PipelineNext ==
    \/ \E chaos \in BOOLEAN, optional \in OptionalSteps : StartRun(chaos, optional)
    \/ EvaluateStep \/ ChaosStep \/ AssessStep \/ GateStep \/ PersistStep
    \/ CompleteStep \/ RaiseInRun \/ ResetBudget

PipelineSpec == PipelineInit /\ [][PipelineNext]_pipelineVars

-----------------------------------------------------------------------------
Summaries == [total : Totals \cup {0}, good : Nat, toolFailures : Nat,
              slow : BOOLEAN, f1 : {0, 100}]
StepNames == {"replay", "ab_route", "evaluate", "chaos", "gate"}
RunRecords ==
    [at : {"idle", "evaluate", "chaos", "assess", "gate", "persist", "complete"},
     chaos : BOOLEAN, steps : Seq(StepNames), summary : Summaries, passed : BOOLEAN]

PipelineTypeOK ==
    /\ runs \in 0..MaxRuns
    /\ run \in RunRecords /\ run.summary.good <= run.summary.total
    /\ budget \in [total : Nat, bad : Nat]

\* With no P1 alert tolerated, a run that passes the gate succeeded on three quarters of
\* its samples, none failed in a tool, and its own failures included the error budget is
\* not used up.
PassMeansHealthy ==
    MaxP1Alerts = 0 /\ run.at \in {"persist", "complete"} /\ run.passed =>
        /\ 4 * run.summary.good >= 3 * run.summary.total
        /\ run.summary.toolFailures = 0
        /\ budget.total > 0 => 100 * budget.bad < budget.total * (100 - SloTarget)
=============================================================================

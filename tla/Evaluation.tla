----------------------------- MODULE Evaluation -----------------------------
(***************************************************************************)
(* EvaluationRunner.run: the samples go through a pool of workers, the     *)
(* results are collected in order (each wait has a timeout), aggregated    *)
(* and written out, and the diff gate compares the summary with a baseline.*)
(* A sample is a retrieval sample or a tool call; scores are in tenths.    *)
(***************************************************************************)
EXTENDS Integers, Sequences, FiniteSets, Tallies

CONSTANTS
    SampleCount,
    MaxWorkers,
    Scores,             \* the answer_f1 values that occur
    Latencies,
    OutputCount         \* files written at the end: summary, report, archive, ...

ASSUME EvaluationAssumption ==
    /\ SampleCount \in Nat \ {0} /\ MaxWorkers \in Nat \ {0, 1} /\ OutputCount \in Nat \ {0}
    /\ Scores \subseteq 0..10 /\ Latencies \subseteq Nat

VARIABLES
    samples,            \* the dataset
    future,             \* sample -> "queued", "running", "raised" or "done"
    result,             \* sample -> its case result once it is done
    collected,          \* the number of results the main thread has taken
    runPhase,           \* "collecting", "aborting", "raised", "returned"
    written             \* the number of files on disk

evaluationVars == <<samples, future, result, collected, runPhase, written>>

Indexes == 1..SampleCount
Dataset == [tool : {TRUE}, expects : {"none", "unauthorized", "missing_required_field"}]
           \cup [tool : {FALSE}, expects : {"none"}]

\* The way a call can end in a gateway of its own: the circuit of a new breaker is closed
\* and a new bucket is full.  A rejection's code is the number of the ErrorCode.
GatewayOutcomes == {"rejected", "denied", "success", "failure"}
ErrorOf == [rejected |-> "number", denied |-> "unauthorized", success |-> "none",
            failure |-> "tool_execution_failed"]

\* step_outcomes of a tool sample
StepOutcomes ==
    [rejected |-> [validation |-> FALSE],
     denied   |-> [validation |-> TRUE, authorization |-> FALSE],
     success  |-> [validation |-> TRUE, authorization |-> TRUE, rate_limit |-> TRUE,
                   execution |-> TRUE],
     failure  |-> [validation |-> TRUE, authorization |-> TRUE, rate_limit |-> TRUE,
                   execution |-> FALSE]]

\* _build_gateway_case_result, with the entries of the call's audit log (a failure after the
\* success was logged has a third).
ToolResult(sample, outcome, latency, score) ==
    [success |-> sample.expects = ErrorOf[outcome], error |-> ErrorOf[outcome],
     steps |-> StepOutcomes[outcome], latency |-> latency,
     score |-> IF outcome = "success" THEN score ELSE 0,
     rejected |-> outcome = "rejected", denied |-> outcome = "denied",
     audit |-> IF outcome \in {"success", "failure"} THEN 2 ELSE 1,
     calls |-> IF outcome \in {"success", "failure"} THEN 1 ELSE 0,
     expectsAnswer |-> sample.expects = "none"]

\* _run_rag_sample; rerank and compression succeed if they return chunks.
RagResult(sample, kept, latency, score) ==
    [success |-> score >= 5 /\ sample.expects = "none", error |-> "none",
     steps |-> [retrieval |-> TRUE, rerank |-> kept, compression |-> kept],
     latency |-> latency, score |-> score, rejected |-> FALSE, denied |-> FALSE,
     audit |-> 0, calls |-> 0, expectsAnswer |-> TRUE]

EvaluationInit ==
    /\ samples \in [Indexes -> Dataset]
    /\ future = [i \in Indexes |-> "queued"]
    /\ result = [i \in Indexes |-> <<>>]
    /\ collected = 0
    /\ runPhase = "collecting"
    /\ written = 0

Running == {i \in Indexes : future[i] = "running"}
Unfinished == {i \in Indexes : future[i] \in {"queued", "running"}}

\* A free worker takes the next future, also after the run has been given up.
StartSample(i) ==
    /\ future[i] = "queued" /\ \A j \in 1..(i - 1) : future[j] # "queued"
    /\ Cardinality(Running) < MaxWorkers
    /\ runPhase \in {"collecting", "aborting"}
    /\ future' = [future EXCEPT ![i] = "running"]
    /\ UNCHANGED <<samples, result, collected, runPhase, written>>

\* _run_single_sample
FinishSample(i) ==
    /\ future[i] = "running"
    /\ future' = [future EXCEPT ![i] = "done"]
    /\ \E latency \in Latencies, score \in Scores :
          IF samples[i].tool
          THEN \E outcome \in GatewayOutcomes :
                  result' = [result EXCEPT ![i] = ToolResult(samples[i], outcome, latency, score)]
          ELSE \E kept \in BOOLEAN :
                  result' = [result EXCEPT ![i] = RagResult(samples[i], kept, latency, score)]
    /\ UNCHANGED <<samples, collected, runPhase, written>>

\* The retriever, the reranker or the compressor raises.
RaiseInSample(i) ==
    /\ future[i] = "running" /\ ~samples[i].tool
    /\ future' = [future EXCEPT ![i] = "raised"]
    /\ UNCHANGED <<samples, result, collected, runPhase, written>>

\* future.result
Collect ==
    /\ runPhase = "collecting" /\ collected < SampleCount
    /\ future[collected + 1] = "done"
    /\ collected' = collected + 1
    /\ UNCHANGED <<samples, future, result, runPhase, written>>

\* It raises the sample's exception, or TimeoutError.
GiveUpCollecting ==
    /\ runPhase = "collecting" /\ collected < SampleCount
    /\ future[collected + 1] # "done"
    /\ runPhase' = "aborting"
    /\ UNCHANGED <<samples, future, result, collected, written>>

\* The exit of the with statement waits for every submitted sample, queued ones included.
LeavePool ==
    /\ runPhase = "aborting" /\ Unfinished = {}
    /\ runPhase' = "raised"
    /\ UNCHANGED <<samples, future, result, collected, written>>

\* The files are written one after the other; writing one may raise.
WriteOutputs ==
    /\ runPhase = "collecting" /\ collected = SampleCount
    /\ written' \in 0..OutputCount
    /\ runPhase' = IF written' = OutputCount THEN "returned" ELSE "raised"
    /\ UNCHANGED <<samples, future, result, collected>>

EvaluationOver == runPhase \in {"raised", "returned"} /\ UNCHANGED evaluationVars

WorkerStep(i) == StartSample(i) \/ FinishSample(i) \/ RaiseInSample(i)
EvaluationNext ==
    \/ \E i \in Indexes : WorkerStep(i)
    \/ Collect \/ GiveUpCollecting \/ LeavePool \/ WriteOutputs
    \/ EvaluationOver

EvaluationSpec == EvaluationInit /\ [][EvaluationNext]_evaluationVars

-----------------------------------------------------------------------------
\* aggregate_results, over the results of all the samples.
Count(P(_)) == Cardinality({i \in Indexes : P(result[i])})
Succeeded(r) == r.success
IsTool(r) == "validation" \in DOMAIN r.steps
Audited(r) == r.audit > 0
Attempted(step, r) == step \in DOMAIN r.steps
StepOk(step, r) == step \in DOMAIN r.steps /\ r.steps[step]

\* _is_accurate
Accurate(r) ==
    \/ r.success /\ r.error # "none" /\ ~r.expectsAnswer
    \/ r.calls > 0 /\ r.error = "none"
    \/ r.score >= 8

\* Mutant: the bucket of a failure is its error code, and a failure without one has none.
FailureBucketCoded(r) == IF r.success \/ r.error = "none" THEN "no bucket" ELSE r.error

\* _build_failure_buckets
FailureBucket(r) ==
    IF r.success THEN "no bucket"
    ELSE IF r.error = "none" THEN "quality_regression" ELSE r.error

FailureBuckets == {FailureBucket(result[i]) : i \in Indexes} \ {"no bucket"}
BucketSize(b) == Cardinality({i \in Indexes : FailureBucket(result[i]) = b})
BucketTotal == SumOf([b \in FailureBuckets |-> BucketSize(b)])

\* _write_failed_case_archive: the failed cases, in dataset order.
Archive == {i \in Indexes : ~result[i].success}

\* compute_percentile with 0.95, nearest rank: the value at that place of the sorted list is
\* the least one that so many values do not exceed.
P95 == LET rank == (19 * SampleCount + 19) \div 20
           reaches(l) == Cardinality({i \in Indexes : result[i].latency <= l}) >= rank
           values == {result[i].latency : i \in Indexes}
       IN CHOOSE l \in values : reaches(l) /\ \A m \in values : reaches(m) => l <= m

Summary ==
    [success |-> Count(Succeeded), score |-> SumOf([i \in Indexes |-> result[i].score]),
     accuracy |-> Count(Accurate), p95 |-> P95]

\* _check_delta: more than 5 points lower, over SampleCount samples.
Regressed(metric, before, after) ==
    20 * (after[metric] - before[metric]) < -(IF metric = "score" THEN 10 ELSE 1) * SampleCount

\* _check_ratio: more than 1.2 times a baseline that is not zero.
Exceeded(metric, before, after) == before[metric] > 0 /\ 5 * after[metric] > 6 * before[metric]

\* compare_reports; the check of the tokens is that of the latency.
Issues(before, after) ==
    {m \in {"success", "score", "accuracy"} : Regressed(m, before, after)}
        \cup {m \in {"p95"} : Exceeded(m, before, after)}

-----------------------------------------------------------------------------
EvaluationTypeOK ==
    /\ samples \in [Indexes -> Dataset]
    /\ future \in [Indexes -> {"queued", "running", "raised", "done"}]
    /\ collected \in 0..SampleCount
    /\ runPhase \in {"collecting", "aborting", "raised", "returned"}
    /\ written \in 0..OutputCount

\* The summaries that a run before this one may have left as the baseline.
Baselines == [success : 0..SampleCount, score : 0..(10 * SampleCount),
              accuracy : 0..SampleCount, p95 : Latencies]
NoBetter(before, after) ==
    /\ \A m \in {"success", "score", "accuracy"} : before[m] <= after[m]
    /\ before.p95 >= after.p95

\* The numbers of a summary fit together: every sample is a success or in one failure
\* bucket, the archive holds the failures, every tool sample (and nothing else) is audited,
\* each step is attempted by the samples that passed the step before it; and the diff gate
\* has no issue with it over a baseline that was not better, and one over a baseline that
\* succeeded throughout when it failed throughout.
SummaryAddsUp ==
    runPhase = "returned" =>
        /\ Count(Succeeded) + BucketTotal = SampleCount
        /\ Cardinality(Archive) = BucketTotal
        /\ Count(Audited) = Count(IsTool)
        /\ Count(LAMBDA r : r.rejected) + Count(LAMBDA r : StepOk("validation", r)) = Count(IsTool)
        /\ Count(LAMBDA r : Attempted("authorization", r)) = Count(LAMBDA r : StepOk("validation", r))
        /\ Count(LAMBDA r : Attempted("rate_limit", r)) = Count(LAMBDA r : StepOk("authorization", r))
        /\ Count(LAMBDA r : Attempted("execution", r)) = Count(LAMBDA r : r.calls > 0)
        /\ \A before \in Baselines :
              /\ NoBetter(before, Summary) => Issues(before, Summary) = {}
              /\ before.success = SampleCount /\ Summary.success = 0 =>
                    "success" \in Issues(before, Summary)
=============================================================================

---------------------------- MODULE Experiments -----------------------------
(***************************************************************************)
(* AbRouter: subjects are routed by a stable bucket to the variants of an  *)
(* experiment whose configuration changes over time, and guardrails decide *)
(* whether it must stop.  Percentages and buckets are in steps of          *)
(* 100 / Buckets percent; the hash of a subject is a constant bucket.      *)
(***************************************************************************)
EXTENDS Naturals, Sequences, FiniteSets, Tallies

CONSTANTS
    Variants,           \* variant names, as a sequence in the configured order
    Buckets,            \* number of buckets
    Subjects,
    BucketOf            \* subject -> its bucket, external: sha256 of id, salt and key

ASSUME ExperimentAssumption ==
    /\ Variants # <<>> /\ Variants \in Seq({Variants[v] : v \in DOMAIN Variants})
    /\ \A v, w \in DOMAIN Variants : Variants[v] = Variants[w] => v = w
    /\ Buckets \in Nat \ {0}
    /\ BucketOf \in [Subjects -> 0..(Buckets - 1)]

VARIABLES
    experiment,         \* [enabled, override allowed, default, shares]
    routed,             \* subject -> the last decision on it
    safety              \* the last safety decision: "ok", "warn", "stop"

experimentVars == <<experiment, routed, safety>>

\* _validate_config: the percentages sum to 100 (names and default are there).
ValidShares == {s \in [DOMAIN Variants -> 0..Buckets] : SumOf(s) = Buckets}
Configs == [enabled : BOOLEAN, allowOverride : BOOLEAN, default : {1},
            shares : ValidShares]

NotRouted == [variant |-> 0, reason |-> "none"]

ExperimentInit ==
    /\ experiment \in Configs
    /\ routed = [s \in Subjects |-> NotRouted]
    /\ safety = "ok"

\* The sum of the percentages of the first n variants.
Boundary(shares, n) == SumOf([v \in 1..n |-> shares[v]])

\* Mutant: the largest variant comes first.
SelectLargest(shares, bucket) ==
    LET larger(v) == {w \in DOMAIN shares : \/ shares[w] > shares[v]
                                            \/ shares[w] = shares[v] /\ w < v}
        sum(vs) == SumOf([v \in vs |-> shares[v]])
    IN CHOOSE v \in DOMAIN shares : /\ sum(larger(v)) <= bucket
                                    /\ bucket < sum(larger(v) \cup {v})

\* _select_variant: the first variant whose boundary is above the bucket, else the last.
Select(shares, bucket) ==
    LET hit == {v \in DOMAIN shares : bucket < Boundary(shares, v)}
    IN IF hit = {} THEN Len(shares) ELSE CHOOSE v \in hit : \A w \in hit : v <= w

\* route: disabled, override (0 for none), bucket.
RouteDecision(s, override) ==
    CASE ~experiment.enabled ->
            [variant |-> experiment.default, reason |-> "experiment_disabled"]
      [] experiment.enabled /\ override # 0 ->
            [variant |-> override, reason |-> "manual_override"]
      [] experiment.enabled /\ override = 0 ->
            [variant |-> Select(experiment.shares, BucketOf[s]), reason |-> "bucket_assignment"]

\* An override that is not allowed, or of an unknown variant, raises.
RouteSubject(s, override) ==
    /\ override = 0 \/ ~experiment.enabled \/ experiment.allowOverride
    /\ routed' = [routed EXCEPT ![s] = RouteDecision(s, override)]
    /\ UNCHANGED <<experiment, safety>>

\* The experiment is loaded again from the config center; an invalid one raises in route.
Reconfigure(config) ==
    /\ experiment' = config
    /\ routed' = [s \in Subjects |-> NotRouted]
    /\ UNCHANGED safety

\* A ramp-up: the last variant takes shares from the others, which keep their order.
RampUp(shares) ==
    /\ \A v \in 1..(Len(Variants) - 1) : shares[v] <= experiment.shares[v]
    /\ experiment' = [experiment EXCEPT !.shares = shares]
    /\ UNCHANGED <<routed, safety>>

\* The metrics a run may report, and _resolve_metric: one that is not there counts as 0.
Reports == UNION {[names -> 0..2] : names \in SUBSET {"errors", "success"}}
Resolved(metrics, m) == IF m \in DOMAIN metrics THEN metrics[m] ELSE 0

\* The guardrails: stop if errors >= 2, warn if success < 1.
Hits(metrics) ==
    {action \in {"stop_experiment", "warn"} :
        \/ action = "stop_experiment" /\ Resolved(metrics, "errors") >= 2
        \/ action = "warn" /\ Resolved(metrics, "success") < 1}

\* evaluate_guardrails and _build_safety_status
EvaluateGuardrails(metrics) ==
    /\ safety' = CASE "stop_experiment" \in Hits(metrics) -> "stop"
                   [] Hits(metrics) = {"warn"} -> "warn"
                   [] Hits(metrics) = {} -> "ok"
    /\ UNCHANGED <<experiment, routed>>

ExperimentNext ==
    \/ \E s \in Subjects, override \in 0..Len(Variants) : RouteSubject(s, override)
    \/ \E config \in Configs : Reconfigure(config)
    \/ \E shares \in ValidShares : RampUp(shares)
    \/ \E metrics \in Reports : EvaluateGuardrails(metrics)

ExperimentSpec == ExperimentInit /\ [][ExperimentNext]_experimentVars

-----------------------------------------------------------------------------
ExperimentTypeOK ==
    /\ experiment \in Configs
    /\ routed \in [Subjects -> [variant : 0..Len(Variants),
                                reason : {"none", "experiment_disabled", "manual_override",
                                          "bucket_assignment"}]]
    /\ safety \in {"ok", "warn", "stop"}

\* Growing the last variant moves nobody out of it: a subject routed there by its bucket
\* is routed there again after any number of ramp-ups.
RampUpKeepsSubjects ==
    \A s \in Subjects :
        routed[s].reason = "bucket_assignment" /\ routed[s].variant = Len(Variants) =>
            Select(experiment.shares, BucketOf[s]) = Len(Variants)
=============================================================================

------------------------------ MODULE MCQuality ------------------------------
(***************************************************************************)
(* The tool gateway, the planner, retrieval with its cache, the config     *)
(* center, and what judges a release (evaluation, regression pipeline,     *)
(* chaos drill, experiments) for TLC.  They share no state, so a behaviour *)
(* chooses one of them and runs it alone, on any of its inputs; the others *)
(* rest on one.                                                            *)
(***************************************************************************)
EXTENDS ToolGateway, Evaluation, RegressionPipeline, ChaosDrill, Experiments,
        RagCache, Retrieval, Planner, ConfigCenter

VARIABLE focus      \* the component that moves

MCValueOf ==
    [s1 |-> [fault |-> "error", target |-> "a"], s2 |-> [fault |-> "error", target |-> "a"],
     s3 |-> [fault |-> "timeout", target |-> "b"]]
MCVariants == <<"control", "canary", "treatment">>
MCBucketOf == [u1 |-> 1, u2 |-> 3]

\* Chunks a and c have the same text, d is of low quality.
MCChunk(level, text, size, low, bonus) ==
    [level |-> level, text |-> text, tokens |-> size, low |-> low, bonus |-> bonus]
MCChunks ==
    [a |-> MCChunk("public", "x", 2, FALSE, 0),
     b |-> MCChunk("restricted", "y", 1, FALSE, 30),
     c |-> MCChunk("internal", "x", 1, FALSE, 60),
     d |-> MCChunk("public", "z", 1, TRUE, 10)]

\* The inputs of the components that rest.
SomeSamples == [i \in Indexes |-> CHOOSE d \in Dataset : TRUE]
SomeDrill == <<"s1">>
SomeConfig == CHOOSE c \in Configs : TRUE
Queries == [role : UserRoles, vector : Rankings, keyword : Rankings, budget : TokenBudgets]
SomeQuery == CHOOSE q \in Queries : TRUE
SomeDraft == CHOOSE d \in KeywordDrafts : TRUE
SomeLimit == CHOOSE limit \in ConcurrencyLimits : TRUE

QualityInit ==
    /\ focus \in {"gateway", "evaluation", "pipeline", "drill", "experiment", "cache",
                  "retrieval", "planner", "config"}
    /\ focus # "evaluation" => samples = SomeSamples
    /\ focus # "drill" => todo = SomeDrill
    /\ focus # "experiment" => experiment = SomeConfig
    /\ focus # "retrieval" => query = SomeQuery
    /\ focus # "planner" => draft = SomeDraft /\ maxConcurrency = SomeLimit
    /\ GatewayInit /\ EvaluationInit /\ PipelineInit /\ DrillInit /\ ExperimentInit
    /\ CacheInit /\ RetrievalInit /\ PlannerInit /\ ConfigInit

QualityNext ==
    \/ /\ focus = "gateway" /\ GatewayNext
       /\ UNCHANGED <<focus, evaluationVars, pipelineVars, drillVars, experimentVars,
                      cacheVars, retrievalVars, plannerVars, configVars>>
    \/ /\ focus = "evaluation" /\ EvaluationNext
       /\ UNCHANGED <<focus, gatewayVars, pipelineVars, drillVars, experimentVars,
                      cacheVars, retrievalVars, plannerVars, configVars>>
    \/ /\ focus = "pipeline" /\ PipelineNext
       /\ UNCHANGED <<focus, gatewayVars, evaluationVars, drillVars, experimentVars,
                      cacheVars, retrievalVars, plannerVars, configVars>>
    \/ /\ focus = "drill" /\ DrillNext
       /\ UNCHANGED <<focus, gatewayVars, evaluationVars, pipelineVars, experimentVars,
                      cacheVars, retrievalVars, plannerVars, configVars>>
    \/ /\ focus = "experiment" /\ ExperimentNext
       /\ UNCHANGED <<focus, gatewayVars, evaluationVars, pipelineVars, drillVars,
                      cacheVars, retrievalVars, plannerVars, configVars>>
    \/ /\ focus = "cache" /\ CacheNext
       /\ UNCHANGED <<focus, gatewayVars, evaluationVars, pipelineVars, drillVars,
                      experimentVars, retrievalVars, plannerVars, configVars>>
    \/ /\ focus = "retrieval" /\ RetrievalNext
       /\ UNCHANGED <<focus, gatewayVars, evaluationVars, pipelineVars, drillVars,
                      experimentVars, cacheVars, plannerVars, configVars>>
    \/ /\ focus = "planner" /\ PlannerNext
       /\ UNCHANGED <<focus, gatewayVars, evaluationVars, pipelineVars, drillVars,
                      experimentVars, cacheVars, retrievalVars, configVars>>
    \/ /\ focus = "config" /\ ConfigNext
       /\ UNCHANGED <<focus, gatewayVars, evaluationVars, pipelineVars, drillVars,
                      experimentVars, cacheVars, retrievalVars, plannerVars>>

qualityVars == <<focus, gatewayVars, evaluationVars, pipelineVars, drillVars,
                 experimentVars, cacheVars, retrievalVars, plannerVars, configVars>>

QualitySpec == QualityInit /\ [][QualityNext]_qualityVars

\* The state of every component is of its type.
QualityTypeOK ==
    /\ GatewayTypeOK /\ EvaluationTypeOK /\ PipelineTypeOK /\ DrillTypeOK
    /\ ExperimentTypeOK /\ CacheTypeOK /\ RetrievalTypeOK /\ PlannerTypeOK
    /\ ConfigTypeOK
=============================================================================

------------------------------ MODULE Planner -------------------------------
(***************************************************************************)
(* Planner: a strategy builds the steps of a request, validate_plan checks *)
(* the dependency graph, and PlanExecutor works the accepted plan off in   *)
(* batches of ready steps.  Steps are numbered; a plan of the keyword      *)
(* strategy, or any plan another PlanningStrategy could return.            *)
(***************************************************************************)
EXTENDS Naturals, Sequences, FiniteSets, SequencesExt, FiniteSetsExt

CONSTANTS
    StepCount,          \* steps of a plan of another strategy
    DepthLimits,        \* values of max_depth and max_parallel in the metadata
    ParallelLimits,
    ConcurrencyLimits,  \* values of max_concurrency in the request, 2 by default
    DefaultDepth,       \* 6 and 4 in the code
    DefaultParallel

ASSUME PlannerAssumption ==
    /\ StepCount \in Nat \ {0} /\ DepthLimits \subseteq Nat /\ ParallelLimits \subseteq Nat
    /\ ConcurrencyLimits \subseteq Nat \ {0}
    /\ DefaultDepth \in Nat /\ DefaultParallel \in Nat

VARIABLES
    draft,              \* [tools, deps, maxDepth, maxParallel, allowed, byKeyword]
    maxConcurrency,     \* of the request's ExecutionControl
    verdict,            \* "none", "ok" or the check that raised
    batches             \* the batches the executor has run, as sets of steps

plannerVars == <<draft, maxConcurrency, verdict, batches>>

Tools == {"tool.notify", "tool.search", "tool.query_db"}
Words == {"notify", "analyze", "query"}

\* KeywordPlanningStrategy.build_steps: tools and dependencies of the steps.  `first` is
\* the first of the allowed tools.
KeywordSteps(words, allowed, first) ==
    CASE "notify" \in words /\ "tool.notify" \in allowed ->
            [tools |-> <<"tool.notify">>, deps |-> <<{}>>]
      [] /\ ~("notify" \in words /\ "tool.notify" \in allowed)
         /\ "analyze" \in words /\ {"tool.search", "tool.query_db"} \subseteq allowed ->
            [tools |-> <<"tool.search", "tool.query_db", "tool.search">>,
             deps |-> <<{}, {}, {1, 2}>>]
      [] /\ ~("notify" \in words /\ "tool.notify" \in allowed)
         /\ ~("analyze" \in words /\ {"tool.search", "tool.query_db"} \subseteq allowed) ->
            [tools |-> <<IF "query" \in words /\ "tool.query_db" \in allowed
                         THEN "tool.query_db"
                         ELSE IF "tool.search" \in allowed THEN "tool.search" ELSE first>>,
             deps |-> <<{}>>]

KeywordDraft(words, allowed, first) ==
    [tools |-> KeywordSteps(words, allowed, first).tools,
     deps |-> KeywordSteps(words, allowed, first).deps,
     maxDepth |-> DefaultDepth, maxParallel |-> DefaultParallel,
     allowed |-> allowed, byKeyword |-> TRUE]
KeywordDrafts ==
    UNION {{KeywordDraft(words, allowed, first) : words \in SUBSET Words, first \in allowed} :
              allowed \in SUBSET Tools}

\* Any dependencies, on steps that are not there (0) and on the step itself included.
OtherDrafts ==
    [tools : {[i \in 1..StepCount |-> "tool.search"]}, deps : [1..StepCount -> SUBSET (0..StepCount)],
     maxDepth : DepthLimits, maxParallel : ParallelLimits,
     allowed : {{"tool.search"}}, byKeyword : {FALSE}]

PlannerInit ==
    /\ draft \in KeywordDrafts \cup OtherDrafts
    /\ maxConcurrency \in ConcurrencyLimits
    /\ verdict = "none"
    /\ batches = <<>>

DraftSteps == 1..Len(draft.tools)

-----------------------------------------------------------------------------
\* The depth-first search of _validate_acyclic: [visiting, visited, cycle].
RECURSIVE Visit(_, _)

\* Mutant: a step that was visited before counts as a cycle.
VisitAgain(state, i) ==
    IF state.cycle \/ i \in state.visited \cup state.visiting THEN [state EXCEPT !.cycle = TRUE]
    ELSE LET inside == [state EXCEPT !.visiting = @ \cup {i}]
             after == FoldLeft(Visit, inside, SetToSeq(draft.deps[i]))
         IN [after EXCEPT !.visiting = @ \ {i}, !.visited = @ \cup {i}]

Visit(state, i) ==
    IF i \in state.visited \/ state.cycle THEN state
    ELSE IF i \in state.visiting THEN [state EXCEPT !.cycle = TRUE]
    ELSE LET inside == [state EXCEPT !.visiting = @ \cup {i}]
             after == FoldLeft(Visit, inside, SetToSeq(draft.deps[i]))
         IN [after EXCEPT !.visiting = @ \ {i}, !.visited = @ \cup {i}]

CycleFound ==
    FoldLeft(Visit, [visiting |-> {}, visited |-> {}, cycle |-> FALSE],
             [i \in DraftSteps |-> i]).cycle

\* _build_depth_map
RECURSIVE DepthOf(_)

\* Mutant: a step is as deep as its shallowest dependency.
DepthOfShallow(i) ==
    IF draft.deps[i] = {} THEN 1 ELSE 1 + Min({DepthOf(j) : j \in draft.deps[i]})

DepthOf(i) == IF draft.deps[i] = {} THEN 1 ELSE 1 + Max({DepthOf(j) : j \in draft.deps[i]})

\* _validate_depth compares the greatest depth with the limit.
PlanDepth == Max({DepthOf(i) : i \in DraftSteps})

Level(n) == {i \in DraftSteps : DepthOf(i) = n}

\* _validate_parallelism: the largest number of steps of one depth.
EstimatedParallel == Max({Cardinality(Level(DepthOf(i))) : i \in DraftSteps})

\* validate_plan: the first check that raises.
Verdict ==
    IF draft.maxDepth < 1 THEN "max_depth"
    ELSE IF draft.maxParallel < 1 THEN "max_parallel"
    ELSE IF ~(ToSet(draft.tools) \subseteq draft.allowed) THEN "step_fields"
    ELSE IF \E i \in DraftSteps : ~(draft.deps[i] \subseteq DraftSteps) THEN "dependencies"
    ELSE IF CycleFound THEN "acyclic"
    ELSE IF PlanDepth > draft.maxDepth THEN "depth"
    ELSE IF EstimatedParallel > draft.maxParallel THEN "parallelism"
    ELSE "ok"

\* create_plan validates before it returns.
ValidatePlan ==
    /\ verdict = "none"
    /\ verdict' = Verdict
    /\ UNCHANGED <<draft, maxConcurrency, batches>>

\* PlanExecutor's next batch, all of it successful: the ready steps in plan order, cut to
\* what the plan and the request both allow.
Finished == UNION ToSet(batches)
BatchLimit == Min({maxConcurrency, draft.maxParallel})

Ready == {i \in DraftSteps \ Finished : draft.deps[i] \subseteq Finished}
RunBatch ==
    /\ verdict = "ok" /\ Ready # {}
    /\ batches' = Append(batches, {i \in Ready : Cardinality({j \in Ready : j < i}) < BatchLimit})
    /\ UNCHANGED <<draft, maxConcurrency, verdict>>

PlannerDone == verdict # "none" /\ (verdict # "ok" \/ Ready = {}) /\ UNCHANGED plannerVars

PlannerNext == ValidatePlan \/ RunBatch \/ PlannerDone
PlannerSpec == PlannerInit /\ [][PlannerNext]_plannerVars

-----------------------------------------------------------------------------
PlannerTypeOK ==
    /\ verdict \in {"none", "ok", "max_depth", "max_parallel", "step_fields", "dependencies",
                    "acyclic", "depth", "parallelism"}
    /\ batches \in Seq(SUBSET DraftSteps)

\* The chains of dependencies that end in a step, as sets: a reference for cycle and depth.
Needs(i, set) == draft.deps[i] \cap set # {}
Circular == \E set \in SUBSET DraftSteps \ {{}} : \A i \in set : Needs(i, set)

\* A plan is refused for a cycle exactly if some of its steps all wait for one another, and
\* every plan of the keyword strategy passes under the default limits.
CyclesAreRefused ==
    /\ verdict = "acyclic" => Circular
    /\ verdict \in {"depth", "parallelism", "ok"} => ~Circular
    /\ draft.byKeyword /\ DefaultDepth >= 2 /\ DefaultParallel >= 2 => verdict \in {"none", "ok"}

\* The estimates bound what the executor does with an accepted plan: no step of batch n is
\* deeper than n and no batch exceeds max_concurrency; where that is not below the estimated
\* parallelism no batch is cut, and batch n holds exactly the steps of depth n.
BatchesAreLevels ==
    verdict = "ok" =>
        \A n \in DOMAIN batches :
            /\ \A i \in batches[n] : DepthOf(i) <= n
            /\ Cardinality(batches[n]) <= maxConcurrency
            /\ maxConcurrency >= EstimatedParallel => batches[n] = Level(n)
=============================================================================

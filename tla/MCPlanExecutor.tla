--------------------------- MODULE MCPlanExecutor ---------------------------
(* Small instances of PlanExecutor.                                        *)
EXTENDS PlanExecutor

\* The three plans of KeywordPlanningStrategy that differ in shape, and one a
\* planner accepts although its list order is not a dependency order.
SinglePlan == <<[id |-> <<1>>, deps |-> {}]>>

AnalysisPlan ==
    <<[id |-> <<1>>, deps |-> {}],
      [id |-> <<2>>, deps |-> {}],
      [id |-> <<3>>, deps |-> {<<1>>, <<2>>}]>>

UnorderedPlan ==
    <<[id |-> <<2>>, deps |-> {<<1>>}],
      [id |-> <<1>>, deps |-> {}]>>

Clean == [i \in Positions |-> "none"]

Submit(request, fault) == [request |-> request, version |-> 1, fault |-> fault]

OneRequest == [e \in Executions |-> Submit("r1", Clean)]

\* A request, and its resubmission when the tool of its first step is gone.
FirstToolGone == [e \in Executions |->
    Submit("r1", IF e = 1 THEN Clean ELSE [Clean EXCEPT ![1] = "executor_internal_error"])]

\* A request, and its resubmission when its last step is refused.
LastRefused == [e \in Executions |->
    Submit("r1", IF e = 1 THEN Clean
                 ELSE [Clean EXCEPT ![Len(Template)] = "schema_validation_error"])]

TwoRequests == [e \in Executions |-> Submit(IF e = 1 THEN "r1" ELSE "r2", Clean)]

\* The tool of the single step is not registered.
Unregistered == [e \in Executions |-> Submit("r1", [i \in Positions |-> "executor_internal_error"])]
=============================================================================

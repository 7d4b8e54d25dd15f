----------------------------- MODULE ChaosDrill -----------------------------
(***************************************************************************)
(* InMemoryChaosInjector and ResilienceScorer: the scenarios of a drill    *)
(* run one after the other, while faults may be switched on and off by     *)
(* hand.  Scenario objects may be equal (frozen dataclasses): inject looks *)
(* for an equal one, remove for the same one.  Scores are in thirds.       *)
(***************************************************************************)
EXTENDS Naturals, Sequences, FiniteSets, Tallies

CONSTANTS
    Scenarios,          \* scenario objects
    ValueOf,            \* scenario -> [fault, target]
    MaxScenarios        \* bound on the scenarios of a drill

ASSUME DrillAssumption ==
    /\ MaxScenarios \in Nat
    /\ \A s \in Scenarios : ValueOf[s].fault \in {"latency", "error", "timeout", "resource_exhaustion"}

VARIABLES
    activeFaults,       \* the injector's active scenarios
    todo,               \* the scenarios of the drill still to run
    running,            \* the scenario under way, <<>> or <<s>>
    results             \* a label and a score for each scenario that ran

drillVars == <<activeFaults, todo, running, results>>

DrillInit ==
    /\ activeFaults = {}
    /\ todo \in UNION {[1..n -> Scenarios] : n \in 1..MaxScenarios}
    /\ running = <<>>
    /\ results = <<>>

\* inject: a scenario equal to an active one is not added.
Injected(s) ==
    IF \E t \in activeFaults : ValueOf[t] = ValueOf[s] THEN activeFaults
    ELSE activeFaults \cup {s}

\* wrap_execution, up to _apply_fault.
EnterFault ==
    /\ running = <<>> /\ todo # <<>>
    /\ running' = <<Head(todo)>> /\ todo' = Tail(todo)
    /\ activeFaults' = Injected(Head(todo))
    /\ UNCHANGED results

\* _apply_fault on a function that returns: whether it returns.
MayEnd(s, ok) ==
    CASE ValueOf[s].fault = "latency" -> ok
      [] ValueOf[s].fault = "error" -> TRUE
      [] ValueOf[s].fault \in {"timeout", "resource_exhaustion"} -> ~ok

\* The finally clause: remove.
AfterFault(s, ok) == activeFaults \ {s}

\* Mutant: a cascade scores like an isolated error.
SingleScoreFlat(fast, ok) == fast + 2

\* _score_single: speed of the recovery, isolation, no cascade.
SingleScore(fast, ok) == fast + (IF ok THEN 2 ELSE 0)

LeaveFault(ok, fast) ==
    /\ running # <<>>
    /\ MayEnd(running[1], ok)
    /\ activeFaults' = AfterFault(running[1], ok)
    /\ results' = Append(results, [label |-> ValueOf[running[1]], ok |-> ok,
                                   score |-> SingleScore(fast, ok)])
    /\ running' = <<>>
    /\ UNCHANGED todo

InjectFault(s) == activeFaults' = Injected(s) /\ UNCHANGED <<todo, running, results>>
RemoveFault(s) == activeFaults' = activeFaults \ {s} /\ UNCHANGED <<todo, running, results>>

DrillNext ==
    \/ EnterFault
    \/ \E ok \in BOOLEAN, fast \in {0, 1} : LeaveFault(ok, fast)
    \/ \E s \in Scenarios : InjectFault(s) \/ RemoveFault(s)

DrillSpec == DrillInit /\ [][DrillNext]_drillVars

-----------------------------------------------------------------------------
\* ResilienceScorer.score: the last result of each label, and the weaknesses.
Labels == {results[i].label : i \in DOMAIN results}
LabelScore(label) ==
    LET last == CHOOSE i \in DOMAIN results :
                    /\ results[i].label = label
                    /\ \A j \in DOMAIN results : results[j].label = label => j <= i
    IN results[last].score
ScoreTotal == SumOf([label \in Labels |-> LabelScore(label)])
Weaknesses == {results[i].label : i \in {j \in DOMAIN results : 10 * results[j].score < 21}}

DrillResults == [label : {ValueOf[s] : s \in Scenarios}, ok : BOOLEAN, score : 0..3]

DrillTypeOK ==
    /\ activeFaults \subseteq Scenarios
    /\ todo \in Seq(Scenarios) /\ running \in Seq(Scenarios)
    /\ results \in Seq(DrillResults)

\* A scenario that failed is a weakness, and then the score of the report is below 1 --
\* unless two scenarios share a label, where the later score hides the earlier one.
WeaknessShows ==
    /\ \A i \in DOMAIN results : ~results[i].ok => results[i].label \in Weaknesses
    /\ Weaknesses # {} /\ Cardinality(Labels) = Len(results) =>
          ScoreTotal < 3 * Cardinality(Labels)
=============================================================================

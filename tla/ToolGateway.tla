---------------------------- MODULE ToolGateway -----------------------------
(***************************************************************************)
(* The chain a tool call goes through: validation (with the quotas),       *)
(* lookup, authorization, circuit breaker, rate limiter, execution, and    *)
(* the audit log, in the order of EvaluationRunner._run_gateway_sample.    *)
(* The runner builds a gateway per call; here several calls of one caller  *)
(* to one tool share it, as in tests/integration/test_tool_resilience.py,  *)
(* while the registry changes.  A method of a component is one step.       *)
(***************************************************************************)
EXTENDS ToolRegistry, FiniteSets

CONSTANTS
    GatewayCalls,
    QpsLimit,
    ConcurrencyLimit,
    DailyLimit,
    MaxTokens,          \* capacity of the token bucket
    ProbesToClose,      \* success_threshold; failure_threshold is 1
    MaxRefills          \* bound on the tokens that time brings back

ASSUME GatewayAssumption ==
    /\ QpsLimit \in Nat /\ ConcurrencyLimit \in Nat /\ DailyLimit \in Nat
    /\ MaxTokens \in Nat /\ MaxRefills \in Nat /\ ProbesToClose \in Nat \ {0}
    /\ IsFiniteSet(GatewayCalls)
    /\ MaxVersions > 0

VARIABLES
    call,               \* call -> its stage, or how it ended
    window,             \* calls started in the last second
    concurrent,         \* the counter of concurrent calls
    daily,              \* calls started today
    denials,            \* entries of the authorizer's denial log
    circuit,            \* [state, probes]
    tokens,
    refills,            \* tokens time has brought back, for the bound
    audit,              \* call -> the event types logged for it, in order
    forgotten,          \* history: calls that held a slot when the quotas were reset
    raced               \* history: calls validated between another's validation and start

gatewayVars == <<registryVars, call, window, concurrent, daily, denials,
                 circuit, tokens, refills, audit, forgotten, raced>>
quota == <<window, concurrent, daily>>
history == <<forgotten, raced>>
limits == <<circuit, tokens, refills>>

Stages == {"out", "validated", "found", "authorized", "admitted", "cleared", "counted",
           "executing", "returned", "answered", "raised", "failed"}
Ends == {"rejected", "vanished", "denied", "circuit_open", "rate_limited", "lost",
         "success", "failure"}
Ended(c) == call[c] \in Ends

\* Calls that record_call_start counted and record_call_end did not give back.
Holding == {c \in GatewayCalls : call[c] \in {"counted", "executing", "returned", "answered",
                                             "raised", "failed", "lost"}}

GatewayInit ==
    /\ versions = <<"available">> /\ active = 1
    /\ call = [c \in GatewayCalls |-> "out"]
    /\ window = 0 /\ concurrent = 0 /\ daily = 0
    /\ denials = 0
    /\ circuit = [state |-> "closed", probes |-> 0]
    /\ tokens = MaxTokens /\ refills = 0
    /\ audit = [c \in GatewayCalls |-> <<>>]
    /\ forgotten = {}
    /\ raced = {}

MoveCall(c, from, to) == call[c] = from /\ call' = [call EXCEPT ![c] = to]
Log(c, event) == audit' = [audit EXCEPT ![c] = Append(@, event)]

\* Mutant: the concurrency limit is off by one.
CheckConcurrencyOneMore == concurrent <= ConcurrencyLimit

\* The checks of the quota tracker.
CheckQps == window < QpsLimit
CheckConcurrency == concurrent < ConcurrencyLimit
CheckDaily == daily < DailyLimit

\* _validate_quota
QuotaLeft == CheckQps /\ CheckConcurrency /\ CheckDaily

\* The tool's input_schema requires "query", a string; "limit" is an optional number.
\* A call's parameters give the JSON type of each field.
Schema == [required |-> {"query"}, type |-> [query |-> "string", limit |-> "number"]]
Params == [{"query", "limit"} -> {"absent", "string", "integer", "number"}]

\* _validate_schema finds no error.
FitsSchema(params) ==
    /\ \A f \in Schema.required : params[f] # "absent"
    /\ \A f \in DOMAIN params :
          \/ params[f] \in {"absent", Schema.type[f]}
          \/ params[f] = "integer" /\ Schema.type[f] = "number"

SchemaResults == {FitsSchema(params) : params \in Params}

Valid(fits) == ActiveStatus = "available" /\ fits /\ QuotaLeft

\* Calls between their validation and their start.
Pending == {c \in GatewayCalls : call[c] \in {"validated", "found", "authorized", "admitted",
                                             "cleared"}}

\* validate: existence, availability, then the schema and the quotas.
ValidateCall(c) ==
    /\ \E fits \in SchemaResults : Valid(fits)
    /\ MoveCall(c, "out", "validated")
    /\ raced' = IF Pending = {} THEN raced ELSE raced \cup {c}
    /\ UNCHANGED <<registryVars, quota, denials, limits, audit, forgotten>>

\* An error ends the call and is logged.
RejectCall(c) ==
    /\ \E fits \in SchemaResults : ~Valid(fits)
    /\ MoveCall(c, "out", "rejected")
    /\ Log(c, "TOOL_CALL_REJECTED")
    /\ UNCHANGED <<registryVars, quota, denials, limits, history>>

\* registry.get once more; None ends the call without an entry in the audit log.
LookUpTool(c) ==
    /\ \/ active = 0 /\ MoveCall(c, "validated", "vanished")
       \/ active # 0 /\ MoveCall(c, "validated", "found")
    /\ UNCHANGED <<registryVars, quota, denials, limits, audit, history>>

\* What authorize looks at.  Roles, the tenant's lists (set_allow_list, set_deny_list) and
\* the confirmation may be anything when a call comes to it: nothing else reads them.
RoleHierarchy == [public |-> {"public"}, internal |-> {"public", "internal"},
                  admin |-> {"public", "internal", "admin"}]
Requests == [role : DOMAIN RoleHierarchy,
             required : {{}, {"public"}, {"internal"}, {"internal", "admin"}},
             denyListed : BOOLEAN,
             allowList : {"unset", "with", "without"},
             sensitive : BOOLEAN,
             confirmed : BOOLEAN]

\* _check_role, for the roles of the enum.
RoleSuffices(q) == q.required \cap RoleHierarchy[q.role] # {}

\* TenantPolicy.is_allowed
TenantAllows(q) == ~q.denyListed /\ q.allowList # "without"

\* _check_sensitive
NeedsNoConfirmation(q) == ~q.sensitive \/ q.confirmed

Authorized(q) == RoleSuffices(q) /\ TenantAllows(q) /\ NeedsNoConfirmation(q)

Decisions == {Authorized(q) : q \in Requests}

\* _record_denial
RecordDenial == denials' = denials + 1

\* authorize; a refusal is recorded by the authorizer and in the audit log.
AuthorizeCall(c) ==
    /\ \/ /\ \E allowed \in Decisions : allowed
          /\ MoveCall(c, "found", "authorized") /\ UNCHANGED <<denials, audit>>
       \/ /\ \E allowed \in Decisions : ~allowed
          /\ MoveCall(c, "found", "denied")
          /\ RecordDenial /\ Log(c, "AUTH_DENIED")
    /\ UNCHANGED <<registryVars, quota, limits, history>>

\* allow_request
CheckCircuit(c) ==
    /\ \/ circuit.state # "open" /\ MoveCall(c, "authorized", "admitted") /\ UNCHANGED audit
       \/ circuit.state = "open" /\ MoveCall(c, "authorized", "circuit_open")
                                 /\ Log(c, "CIRCUIT_OPENED")
    /\ UNCHANGED <<registryVars, quota, denials, limits, history>>

\* acquire, when the bucket holds a token.
TakeToken == tokens > 0 /\ tokens' = tokens - 1

\* A bucket without a token refuses the call.
AcquireToken(c) ==
    /\ \/ TakeToken /\ MoveCall(c, "admitted", "cleared") /\ UNCHANGED audit
       \/ tokens = 0 /\ MoveCall(c, "admitted", "rate_limited")
                     /\ Log(c, "RATE_LIMITED") /\ UNCHANGED tokens
    /\ UNCHANGED <<registryVars, quota, denials, circuit, refills, history>>

\* record_call_start
RecordStart == window' = window + 1 /\ concurrent' = concurrent + 1 /\ daily' = daily + 1

StartCall(c) ==
    /\ MoveCall(c, "cleared", "counted")
    /\ RecordStart
    /\ UNCHANGED <<registryVars, denials, limits, audit, history>>

\* log_call_start, after which the tool is invoked.
LogStart(c) ==
    /\ MoveCall(c, "counted", "executing")
    /\ Log(c, "TOOL_CALL_START")
    /\ UNCHANGED <<registryVars, quota, denials, limits, history>>

\* log_call_start raises (the parameters cannot be serialized, say): this is before the
\* try, so nothing is logged and record_call_end is never called.
StartRaises(c) ==
    /\ MoveCall(c, "counted", "lost")
    /\ UNCHANGED <<registryVars, quota, denials, limits, audit, history>>

\* record_success: enough successes close a half-open circuit.
AfterProbe ==
    IF circuit.state # "half_open" THEN circuit
    ELSE IF circuit.probes + 1 >= ProbesToClose THEN [state |-> "closed", probes |-> 0]
    ELSE [circuit EXCEPT !.probes = @ + 1]

\* The tool returns.
Succeed(c) ==
    /\ MoveCall(c, "executing", "returned")
    /\ circuit' = AfterProbe
    /\ UNCHANGED <<registryVars, quota, denials, tokens, refills, audit, history>>

LogSuccess(c) ==
    /\ MoveCall(c, "returned", "answered")
    /\ Log(c, "TOOL_CALL_SUCCESS")
    /\ UNCHANGED <<registryVars, quota, denials, limits, history>>

\* The tool raises, or what follows it in the try does: str of the result, or, after the
\* success is logged, json.dumps of it.  record_failure opens the circuit at the first
\* failure.
Fail(c) ==
    /\ \E from \in {"executing", "returned", "answered"} : MoveCall(c, from, "raised")
    /\ circuit' = [circuit EXCEPT !.state = "open"]
    /\ UNCHANGED <<registryVars, quota, denials, tokens, refills, audit, history>>

\* Mutant: the failure of a tool is not logged.
FailSilently(c) ==
    /\ MoveCall(c, "raised", "failed")
    /\ UNCHANGED <<registryVars, quota, denials, limits, audit, history>>

LogFailure(c) ==
    /\ MoveCall(c, "raised", "failed")
    /\ Log(c, "TOOL_CALL_FAILURE")
    /\ UNCHANGED <<registryVars, quota, denials, limits, history>>

\* Mutant: the counter is given back on success only.
FreeSlotOnSuccess(outcome) ==
    IF outcome = "success" /\ concurrent > 0 THEN concurrent - 1 ELSE concurrent

\* Mutant: the counter may become negative.
FreeSlotBlindly(outcome) == concurrent - 1

\* record_call_end
FreeSlot(outcome) == IF concurrent > 0 THEN concurrent - 1 ELSE 0

\* The finally clause.
EndCall(c) ==
    /\ \/ MoveCall(c, "answered", "success") /\ concurrent' = FreeSlot("success")
       \/ MoveCall(c, "failed", "failure") /\ concurrent' = FreeSlot("failure")
    /\ UNCHANGED <<registryVars, window, daily, denials, limits, audit, history>>

-----------------------------------------------------------------------------
\* The registry changes between the steps of calls.
ChangeRegistry ==
    /\ RegistryNext
    /\ UNCHANGED <<call, quota, denials, limits, audit, forgotten, raced>>

\* reset of the quota tracker, with calls in flight.
ResetQuotas ==
    /\ window + concurrent + daily > 0
    /\ window' = 0 /\ concurrent' = 0 /\ daily' = 0
    /\ forgotten' = forgotten \cup Holding
    /\ UNCHANGED <<registryVars, call, denials, limits, audit, raced>>

\* A start leaves the one-second window.
SlideWindow ==
    /\ window > 0
    /\ window' = window - 1
    /\ UNCHANGED <<registryVars, call, concurrent, daily, denials, limits, audit,
                   history>>

\* _refill, one token of it; the bucket holds MaxTokens.
Refill ==
    /\ tokens < MaxTokens /\ refills < MaxRefills
    /\ tokens' = tokens + 1 /\ refills' = refills + 1
    /\ UNCHANGED <<registryVars, call, quota, denials, circuit, audit, history>>

\* The recovery timeout is over.
CoolDown ==
    /\ circuit.state = "open"
    /\ circuit' = [state |-> "half_open", probes |-> 0]
    /\ UNCHANGED <<registryVars, call, quota, denials, tokens, refills, audit,
                   history>>

CallStep(c) ==
    \/ ValidateCall(c) \/ RejectCall(c) \/ LookUpTool(c) \/ AuthorizeCall(c)
    \/ CheckCircuit(c) \/ AcquireToken(c) \/ StartCall(c) \/ LogStart(c) \/ StartRaises(c)
    \/ Succeed(c) \/ LogSuccess(c) \/ Fail(c) \/ LogFailure(c) \/ EndCall(c)

GatewayNext ==
    \/ \E c \in GatewayCalls : CallStep(c)
    \/ ChangeRegistry \/ ResetQuotas \/ SlideWindow \/ Refill \/ CoolDown

GatewaySpec == GatewayInit /\ [][GatewayNext]_gatewayVars

-----------------------------------------------------------------------------
GatewayTypeOK ==
    /\ RegistryTypeOK
    /\ call \in [GatewayCalls -> Stages \cup Ends]
    /\ window \in Nat /\ concurrent \in Nat /\ daily \in Nat /\ denials \in Nat
    /\ circuit.state \in {"closed", "open", "half_open"}
    /\ tokens \in 0..MaxTokens /\ refills \in 0..MaxRefills

\* What the log may say of a call that is over.  A call that fails after its success was
\* logged has both entries.
Story(end) ==
    CASE end = "rejected"     -> {<<"TOOL_CALL_REJECTED">>}
      [] end = "denied"       -> {<<"AUTH_DENIED">>}
      [] end = "circuit_open" -> {<<"CIRCUIT_OPENED">>}
      [] end = "rate_limited" -> {<<"RATE_LIMITED">>}
      [] end = "success"      -> {<<"TOOL_CALL_START", "TOOL_CALL_SUCCESS">>}
      [] end = "failure"      -> {<<"TOOL_CALL_START", "TOOL_CALL_FAILURE">>,
                                  <<"TOOL_CALL_START", "TOOL_CALL_SUCCESS", "TOOL_CALL_FAILURE">>}
      [] OTHER                -> {<<>>}

Logged(c, event) == \E i \in DOMAIN audit[c] : audit[c][i] = event

\* The audit log tells the story of a call that is over, each entry once and in order: what
\* refused it, or that it reached the tool and how that ended.  It has as many denials as
\* the authorizer's own log, and a circuit that is not closed has a failure in it, written
\* or about to be.  The exceptions are a call whose tool is unregistered under it and one
\* whose start could not be logged: nothing tells of them.
AuditComplete ==
    /\ \A c \in GatewayCalls : Ended(c) => audit[c] \in Story(call[c])
    /\ denials = Cardinality({c \in GatewayCalls : Logged(c, "AUTH_DENIED")})
    /\ circuit.state # "closed" =>
          \E c \in GatewayCalls : call[c] = "raised" \/ Logged(c, "TOOL_CALL_FAILURE")

\* No slot is freed twice, and the only ones that leak are those of calls whose start
\* could not be logged: the counter is the number of calls that hold one, but for those
\* that held one already when the quotas were reset.
SlotsAreCalls ==
    /\ concurrent <= Cardinality(Holding)
    /\ forgotten = {} => concurrent = Cardinality(Holding)

\* The concurrency limit, checked when a call is validated and counted when it starts, is
\* exceeded by no more than the calls that were validated while another one was between
\* the two: the others that hold a slot are within it, also after such a race (as long as
\* the counters were not reset under a running call).
LimitHeldUnlessRaced ==
    forgotten = {} => Cardinality(Holding \ raced) <= ConcurrencyLimit
=============================================================================

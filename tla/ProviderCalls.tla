---------------------------- MODULE ProviderCalls ----------------------------
(***************************************************************************)
(* Calls of one external service, the AI provider                          *)
(* (providers/ai/openai_provider.py) or the search provider                *)
(* (providers/search/tavily_provider.py), behind the circuit breaker its   *)
(* callers share in one process (providers/circuit_breaker.py).            *)
(*                                                                         *)
(* The breaker's methods hold its lock; between them a caller tries the    *)
(* service several times, so the breaker may trip, rest and close under a  *)
(* call that it admitted long ago.                                         *)
(***************************************************************************)
EXTENDS Naturals

CONSTANTS
    Callers,           \* threads of the process that use the service
    FailureThreshold,  \* failure_threshold
    ResetTimeout,      \* reset_timeout_seconds, in ticks
    MaxCallRetries     \* settings.openai_max_retries or tavily_max_retries

ASSUME ProviderAssumption ==
    /\ FailureThreshold \in Nat \ {0}
    /\ ResetTimeout \in Nat \ {0}
    /\ MaxCallRetries \in Nat

VARIABLES
    circuit,   \* the breaker: its state, the failures it counts, the time since it opened
    call,      \* what each caller is doing
    healthy,   \* whether the service answers
    shielded   \* history: each caller's tries since the breaker last opened

callVars == <<circuit, call, healthy, shielded>>

NoCall == [pc |-> "idle", attempts |-> 0]

\* What becomes of a try: _normalize_http_response, _normalize_response, _map_exception
\* and the classes that are retried.
Answers == {"ok", "timeout", "rate_limited", "server_error", "unreachable",
            "unauthorized", "rejected", "malformed", "unexpected"}

RetryableAnswer(answer) == answer \in {"timeout", "rate_limited", "server_error", "unreachable"}

----------------------------------------------------------------------------
(* The breaker.                                                            *)

\* _maybe_half_open.
MaybeHalfOpen(b) ==
    IF b.state = "open" /\ b.age >= ResetTimeout THEN [b EXCEPT !.state = "half_open"] ELSE b

\* It counts no further than the threshold: only whether it is reached matters.
Counted(n) == IF n >= FailureThreshold THEN n ELSE n + 1

AfterSuccessUnclosed(b) == [b EXCEPT !.failures = 0]

AfterSuccess(b) ==
    IF b.state = "half_open" THEN [state |-> "closed", failures |-> 0, age |-> 0]
                             ELSE [b EXCEPT !.failures = 0]

AfterFailure(b) ==
    IF b.state = "half_open" \/ Counted(b.failures) >= FailureThreshold
    THEN [state |-> "open", failures |-> Counted(b.failures), age |-> 0]
    ELSE [b EXCEPT !.failures = Counted(b.failures)]

----------------------------------------------------------------------------
CallInit ==
    /\ circuit = [state |-> "closed", failures |-> 0, age |-> 0]
    /\ call = [c \in Callers |-> NoCall]
    /\ healthy \in BOOLEAN
    /\ shielded = [c \in Callers |-> 0]

Goes(c, step) == call' = [call EXCEPT ![c] = step]

\* The tries of each caller that reach the service while the breaker stays open: triers
\* is who makes one in this step.
Shielding(newCircuit, triers) ==
    shielded' = [c \in Callers |->
        IF newCircuit.state # "open" \/ circuit.state # "open" THEN 0
        ELSE shielded[c] + (IF c \in triers THEN 1 ELSE 0)]

WaitTick ==
    /\ circuit.state = "open"
    /\ circuit.age < ResetTimeout
    /\ circuit' = [circuit EXCEPT !.age = @ + 1]
    /\ UNCHANGED <<call, healthy, shielded>>

HealthChanges ==
    /\ healthy' = ~healthy
    /\ UNCHANGED <<circuit, call, shielded>>

AskAnyway(c) ==
    /\ call[c] = NoCall
    /\ circuit' = MaybeHalfOpen(circuit)
    /\ Goes(c, [pc |-> "trying", attempts |-> 0])
    /\ Shielding(circuit', {})
    /\ UNCHANGED healthy

\* allow_request; when it refuses, the caller is told that the circuit is open.
Ask(c) ==
    /\ call[c] = NoCall
    /\ circuit' = MaybeHalfOpen(circuit)
    /\ circuit'.state # "open"
    /\ Goes(c, [pc |-> "trying", attempts |-> 0])
    /\ Shielding(circuit', {})
    /\ UNCHANGED healthy

\* The owner's status page reads the state, which may make it half open.
ReadStatus ==
    /\ circuit' = MaybeHalfOpen(circuit)
    /\ Shielding(circuit', {})
    /\ UNCHANGED <<call, healthy>>

Retries(answer, attempts) == RetryableAnswer(answer) /\ attempts <= MaxCallRetries

\* A caller without a key, or whose key is refused, leaves the breaker as it was.
AfterTry(answer, attempts) ==
    CASE answer = "ok"             -> [pc |-> "succeeded", attempts |-> attempts]
      [] answer = "unauthorized"   -> NoCall
      [] Retries(answer, attempts) -> [pc |-> "trying", attempts |-> attempts]
      [] OTHER                     -> [pc |-> "failed", attempts |-> attempts]

\* One pass of the retry loop.
Try(c) ==
    /\ call[c].pc = "trying"
    /\ \E answer \in IF healthy THEN {"ok"} ELSE Answers :
        Goes(c, AfterTry(answer, call[c].attempts + 1))
    /\ Shielding(circuit, {c})
    /\ UNCHANGED <<circuit, healthy>>

RecordSuccess(c) ==
    /\ call[c].pc = "succeeded"
    /\ circuit' = AfterSuccess(circuit)
    /\ Goes(c, NoCall)
    /\ Shielding(circuit', {})
    /\ UNCHANGED healthy

RecordFailure(c) ==
    /\ call[c].pc = "failed"
    /\ circuit' = AfterFailure(circuit)
    /\ Goes(c, NoCall)
    /\ Shielding(circuit', {})
    /\ UNCHANGED healthy

Records(c) == RecordSuccess(c) \/ RecordFailure(c)

CallNext ==
    \/ WaitTick
    \/ HealthChanges
    \/ ReadStatus
    \/ \E c \in Callers : Ask(c) \/ Try(c) \/ Records(c)

CallSpec == CallInit /\ [][CallNext]_callVars

\* Time passes, callers come again and again, and their threads run.
CallFairness ==
    /\ WF_callVars(WaitTick)
    /\ \A c \in Callers : WF_callVars(Ask(c)) /\ WF_callVars(Try(c) \/ Records(c))

----------------------------------------------------------------------------
(* Properties.                                                             *)

\* Every variable of the calls holds a value of its type.
CallTypeOK ==
    /\ circuit \in [state : {"closed", "open", "half_open"},
                    failures : 0..FailureThreshold, age : 0..ResetTimeout]
    /\ call \in [Callers -> [pc : {"idle", "trying", "succeeded", "failed"},
                             attempts : 0..(MaxCallRetries + 1)]]
    /\ healthy \in BOOLEAN
    /\ shielded \in [Callers -> Nat]

\* While the breaker rests open, the service sees no more than what the calls admitted
\* before it opened had left to try: none of the caller whose failure opened it, and of
\* every other no more than one call's tries.
OpenShieldsService ==
    circuit.state = "open" =>
        /\ \A c \in Callers : shielded[c] <= MaxCallRetries + 1
        /\ \E c \in Callers : shielded[c] = 0

\* A service that is well from some time on has its breaker closed from some time on.
BreakerRecovers == <>[]healthy => <>[](circuit.state = "closed")
=============================================================================

---------------------------- MODULE ConnectorHttp ----------------------------
(***************************************************************************)
(* A connector built on the SDK: its rate limit middleware, its action      *)
(* endpoint and account store (sdk app.py, accounts.py) and the             *)
(* ConnectorHttpClient (http.py) with retries and the circuit breaker of    *)
(* the one host it calls.  All of it is memory of one process; tasks        *)
(* interleave at each await, and the breaker's lock is never held across    *)
(* one, so a critical section is part of the step around it.                *)
(***************************************************************************)
EXTENDS Naturals

CONSTANTS
    Calls,             \* actions under way, named by the dispatch that sent them
    FailureThreshold,  \* cb_failure_threshold
    MaxRetries,        \* max_retries
    Burst,             \* size of the connector's token bucket
    FaultBound         \* bound: failures of the host, processes and network

ASSUME ConnectorAssumption ==
    /\ FailureThreshold \in Nat \ {0}
    /\ MaxRetries \in Nat
    /\ Burst \in Nat
    /\ FaultBound \in Nat

VARIABLES
    up,        \* the connector process runs
    account,   \* its account store has the account
    breaker,   \* state of the breaker
    failures,  \* its failure count
    cooled,    \* the reset timeout has passed since the last failure
    spare,     \* tokens of the middleware's bucket
    req,       \* request of each call at the connector
    effects,   \* what each call has done at the host
    faults

connector == <<up, account, breaker, failures, cooled, spare, req, effects, faults>>

Request == [at : {"none", "pre", "call", "answer"},
            attempt : 0 .. MaxRetries,
            answer : {"none", "ok", "error", "limited"}]
NoRequest == [at |-> "none", attempt |-> 0, answer |-> "none"]

ConnectorTypeOK ==
    /\ up \in BOOLEAN
    /\ account \in BOOLEAN
    /\ breaker \in {"closed", "open", "half_open"}
    /\ failures \in Nat
    /\ cooled \in BOOLEAN
    /\ spare \in 0 .. Burst
    /\ req \in [Calls -> Request]
    /\ effects \in [Calls -> Nat]
    /\ faults \in 0 .. FaultBound

ConnectorInit ==
    /\ up = TRUE
    /\ account = FALSE
    /\ breaker = "closed"
    /\ failures = 0
    /\ cooled = FALSE
    /\ spare = Burst
    /\ req = [d \in Calls |-> NoRequest]
    /\ effects = [d \in Calls |-> 0]
    /\ faults = 0

Fault == faults < FaultBound /\ faults' = faults + 1

Answer(d, answer) ==
    req' = [req EXCEPT ![d] = [at |-> "answer", attempt |-> 0, answer |-> answer]]

\* A request arrives: the middleware, then the action, which looks its
\* credentials up.
Admit(d) ==
    /\ req[d].at = "none"
    /\ IF spare = 0
       THEN Answer(d, "limited") /\ UNCHANGED spare
       ELSE /\ spare' = spare - 1
            /\ IF account
               THEN req' = [req EXCEPT ![d].at = "pre"]
               ELSE Answer(d, "error")
    /\ UNCHANGED <<up, account, breaker, failures, cooled, effects, faults>>

\* Mutant: the reset timeout is not looked at.
PreCheckShut(d) ==
    /\ req[d].at = "pre"
    /\ IF breaker = "open"
       THEN Answer(d, "error")
       ELSE req' = [req EXCEPT ![d].at = "call"]
    /\ UNCHANGED <<up, account, breaker, failures, cooled, spare, effects, faults>>

\* pre_check: CircuitBreakerOpen is an error of the action. A half-open
\* breaker lets every call through.
PreCheck(d) ==
    /\ req[d].at = "pre"
    /\ IF breaker = "open" /\ ~ cooled
       THEN Answer(d, "error") /\ UNCHANGED breaker
       ELSE /\ req' = [req EXCEPT ![d].at = "call"]
            /\ breaker' = IF breaker = "open" THEN "half_open" ELSE breaker
    /\ UNCHANGED <<up, account, failures, cooled, spare, effects, faults>>

OnSuccess ==
    /\ breaker' = "closed"
    /\ failures' = 0
    /\ UNCHANGED cooled

\* Mutant: the breaker opens one failure late.
OnFailureLate ==
    /\ failures' = failures + 1
    /\ cooled' = FALSE
    /\ breaker' = IF breaker = "half_open" \/ failures' > FailureThreshold
                  THEN "open" ELSE breaker

\* A failure also restarts the reset timeout of an open breaker.
OnFailure ==
    /\ failures' = failures + 1
    /\ cooled' = FALSE
    /\ breaker' = IF breaker = "half_open" \/ failures' >= FailureThreshold
                  THEN "open" ELSE breaker

\* After the backoff.
TriesAgain(d) ==
    req' = [req EXCEPT ![d].at = "pre", ![d].attempt = @ + 1]

Done(d, n) == effects' = [effects EXCEPT ![d] = @ + n]

\* External: the host answers. A 4xx, and any status of the last attempt, is a
\* success of the breaker and is returned to the action: what the action makes
\* of it, the body with a 200, an exception or the host's own status, 429
\* included, is the connector's answer.
HostAnswers(d) ==
    /\ req[d].at = "call"
    /\ \/ /\ Done(d, 1)
          /\ OnSuccess
          /\ \E answer \in {"ok", "error"} : Answer(d, answer)
          /\ UNCHANGED faults
       \/ /\ Fault                            \* 4xx
          /\ Done(d, 0)
          /\ OnSuccess
          /\ \E answer \in {"ok", "error", "limited"} : Answer(d, answer)
       \/ /\ Fault                            \* 5xx, before or after it acted
          /\ \E n \in {0, 1} : Done(d, n)
          /\ IF req[d].attempt < MaxRetries
             THEN OnFailure /\ TriesAgain(d)
             ELSE OnSuccess /\ \E answer \in {"ok", "error"} : Answer(d, answer)
    /\ UNCHANGED <<up, account, spare>>

\* External: no answer, of a request that may have acted. A connect timeout or a
\* broken connection is not among the exceptions that request catches: it is
\* neither counted nor retried.
HostFails(d) ==
    /\ req[d].at = "call"
    /\ Fault
    /\ \E n \in {0, 1} : Done(d, n)
    /\ \/ /\ OnFailure
          /\ IF req[d].attempt < MaxRetries THEN TriesAgain(d) ELSE Answer(d, "error")
       \/ Answer(d, "error") /\ UNCHANGED <<breaker, failures, cooled>>
    /\ UNCHANGED <<up, account, spare>>

\* reset_timeout passes.
CoolDown ==
    /\ breaker = "open" /\ ~ cooled
    /\ cooled' = TRUE
    /\ UNCHANGED <<up, account, breaker, failures, spare, req, effects, faults>>

\* The process dies with its requests, its breaker and its accounts.
ConnectorCrashes ==
    /\ up
    /\ Fault
    /\ up' = FALSE
    /\ req' = [d \in Calls |-> NoRequest]
    /\ account' = FALSE
    /\ breaker' = "closed"
    /\ failures' = 0
    /\ cooled' = FALSE
    /\ spare' = Burst
    /\ UNCHANGED effects

ConnectorRestarts ==
    /\ ~ up
    /\ up' = TRUE
    /\ UNCHANGED <<account, breaker, failures, cooled, spare, req, effects, faults>>

ConnectorStep(d) ==
    \/ PreCheck(d)
    \/ HostAnswers(d)
    \/ HostFails(d)
=============================================================================

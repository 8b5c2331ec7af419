--------------------------- MODULE ActionDispatch ---------------------------
(***************************************************************************)
(* dispatch_action of core/action_dispatcher.py, composed with the rate      *)
(* limiter in front of it, the connector behind it and the health monitors   *)
(* beside it.  The connector uses credential provisioning by account.        *)
(***************************************************************************)
EXTENDS HealthMonitor, ConnectorRateLimiter

CONSTANTS
    Dispatches,   \* dispatches that may run at the same time
    Max429,       \* _MAX_429_RETRIES
    Deployments   \* which dispatches and monitors there may be together

ASSUME DispatchAssumption ==
    /\ Max429 \in Nat
    /\ Deployments \subseteq SUBSET (Dispatches \cup Monitors)
    /\ Calls = Dispatches
    /\ Checks = Dispatches

VARIABLES
    call,         \* what each dispatch does
    deployed      \* the dispatches and monitors there are

vars == <<limiter, connector, monitor, call, deployed>>

Call == [at : {"idle", "check", "accounts", "create", "post", "wait"},
         tries : 0 .. Max429]
NoCall == [at |-> "idle", tries |-> 0]

TypeOK ==
    /\ LimiterTypeOK
    /\ ConnectorTypeOK
    /\ MonitorTypeOK
    /\ call \in [Dispatches -> Call]
    /\ deployed \in Deployments

Init ==
    /\ LimiterInit
    /\ ConnectorInit
    /\ MonitorInit
    /\ call = [d \in Dispatches |-> NoCall]
    /\ deployed \in Deployments

Goto(d, place) == call' = [call EXCEPT ![d].at = place]
Return(d) == call' = [call EXCEPT ![d] = NoCall]

\* An action of a flow or a workflow is dispatched; a name is used again when
\* nothing of its earlier use is left at the connector.
Begin(d) ==
    /\ d \in deployed
    /\ call[d].at = "idle"
    /\ req[d].at = "none"
    /\ Ask(d)
    /\ call' = [call EXCEPT ![d] = [at |-> "check", tries |-> 0]]
    /\ effects' = [effects EXCEPT ![d] = 0]
    /\ UNCHANGED <<up, account, breaker, failures, cooled, spare, req, faults, monitor>>

ReadLimit(d) == ReadBucket(d) /\ UNCHANGED <<connector, monitor, call>>

\* HTTPException 429 without a token.
WriteLimit(d) ==
    /\ WriteBucket(d)
    /\ IF Allowed(d) THEN Goto(d, "accounts") ELSE Return(d)
    /\ UNCHANGED <<connector, monitor>>

RedisFails(d) ==
    /\ CheckFails(d)
    /\ Fault
    /\ Return(d)
    /\ UNCHANGED <<up, account, breaker, failures, cooled, spare, req, effects, monitor>>

\* _ensure_account_generic: GET; an exception ends the dispatch.
GetAccounts(d) ==
    /\ call[d].at = "accounts"
    /\ IF up THEN Goto(d, IF account THEN "post" ELSE "create") ELSE Return(d)
    /\ UNCHANGED <<limiter, connector, monitor>>

\* POST; an account that exists by now is answered with 409, which is logged.
CreateAccount(d) ==
    /\ call[d].at = "create"
    /\ IF up THEN Goto(d, "post") ELSE Return(d)
    /\ account' = up
    /\ UNCHANGED <<limiter, monitor, up, breaker, failures, cooled, spare, req, effects, faults>>

Post(d) ==
    /\ call[d].at = "post"
    /\ IF up THEN Admit(d) /\ Goto(d, "wait") ELSE Return(d) /\ UNCHANGED connector
    /\ UNCHANGED <<limiter, monitor>>

\* Mutant: every error of the connector is retried.
Repeats(d) == req[d].answer # "ok" /\ call[d].tries < Max429

\* Only a 429 is repeated, after Retry-After.
TooMany(d) == req[d].answer = "limited" /\ call[d].tries < Max429

ReceiveAnswer(d) ==
    /\ call[d].at = "wait"
    /\ req[d].at = "answer"
    /\ IF TooMany(d)
       THEN call' = [call EXCEPT ![d].at = "post", ![d].tries = @ + 1]
       ELSE Return(d)
    /\ req' = [req EXCEPT ![d] = NoRequest]
    /\ UNCHANGED <<limiter, monitor, up, account, breaker, failures, cooled, spare, effects, faults>>

\* HTTP_TIMEOUT, which is no longer than one attempt of the connector: the
\* connector goes on.
TimeOut(d) ==
    /\ call[d].at = "wait"
    /\ req[d].at \in {"pre", "call"}
    /\ Return(d)
    /\ UNCHANGED <<limiter, connector, monitor>>

\* The connection breaks when the connector dies.
ConnectionLost(d) ==
    /\ call[d].at = "wait"
    /\ req[d].at = "none"
    /\ Return(d)
    /\ UNCHANGED <<limiter, connector, monitor>>

\* Nobody reads the answer to a dispatch that has timed out.
DropAnswer(d) ==
    /\ call[d].at # "wait"
    /\ req[d].at = "answer"
    /\ req' = [req EXCEPT ![d] = NoRequest]
    /\ UNCHANGED <<limiter, monitor, call, up, account, breaker, failures, cooled, spare, effects,
                   faults>>

DispatchStep(d) ==
    \/ ReadLimit(d) \/ WriteLimit(d) \/ RedisFails(d)
    \/ GetAccounts(d) \/ CreateAccount(d) \/ Post(d)
    \/ ReceiveAnswer(d) \/ ConnectionLost(d) \/ DropAnswer(d)

\* Time passes at the gateway and at the connector.
TimePasses ==
    /\ Tick
    /\ spare' = Lower(Burst, spare + 1)
    /\ UNCHANGED <<up, account, breaker, failures, cooled, req, effects, faults, monitor, call>>

Connector(d) == ConnectorStep(d) /\ UNCHANGED <<limiter, monitor, call>>

Environment ==
    /\ CoolDown \/ ConnectorCrashes \/ ConnectorRestarts
    /\ UNCHANGED <<limiter, monitor, call>>

Monitoring ==
    /\ (\E m \in Monitors \cap deployed : MonitorStep(m)) \/ Activate
    /\ UNCHANGED <<limiter, call>>

Next ==
    /\ \/ \E d \in Dispatches : Begin(d) \/ DispatchStep(d) \/ TimeOut(d) \/ Connector(d)
       \/ TimePasses
       \/ Environment
       \/ Monitoring
    /\ UNCHANGED deployed

Spec == Init /\ [][Next]_vars

\* Fairness: processes and Redis answer, polls go on, and actions keep coming.
\* Time passes whatever checks are under way: strong fairness, since LagBound
\* only stops the clock to bound the model. A connector need not come back.
Fairness ==
    /\ \A d \in Dispatches : /\ WF_vars(Begin(d) /\ UNCHANGED deployed)
                             /\ WF_vars(DispatchStep(d) /\ UNCHANGED deployed)
                             /\ WF_vars(Connector(d) /\ UNCHANGED deployed)
    /\ SF_vars(TimePasses /\ UNCHANGED deployed)
    /\ WF_vars(CoolDown /\ UNCHANGED <<limiter, monitor, call, deployed>>)
    /\ \A m \in Monitors :
          WF_vars(m \in deployed /\ MonitorStep(m) /\ UNCHANGED <<limiter, call, deployed>>)

FairSpec == Spec /\ Fairness

-----------------------------------------------------------------------------
(* Properties *)

\* The breaker's state and count are set by the late answers of calls that
\* began in any of its states: it lets calls through freely exactly while the
\* count is below the threshold.
BreakerMatchesCount == breaker = "closed" <=> failures < FailureThreshold

\* check decides from what it read in one round trip and writes in another, also
\* when it denies, with a clock that goes on: as long as no two checks overlap
\* (concurrent callers can spend the same token) the bucket in Redis is the one
\* that decides in a single step.
MatchesAtomicBucket ==
    ~ disturbed /\ Running = {} => Lower(Capacity, tokens + age) = ideal

\* The dispatcher repeats a 429, and only that, which may be the host's own after
\* attempts of the connector's client that acted: one dispatch acts at most
\* MaxRetries times per 429 it gets, and MaxRetries + 1 times in its last
\* request, also when it has timed out meanwhile.
EffectsBounded ==
    \A d \in Dispatches : effects[d] <= (Max429 + 1) * MaxRetries + 1

\* "resets after 30s" (docs/CONNECTOR-DEVELOPMENT.md:288): when the host works
\* again, traffic closes the breaker.
BreakerRecovers == breaker = "open" ~> breaker = "closed"

\* "Auto-disables instances after auto_disable_threshold consecutive health-check
\* failures" (connector_health.py): where replicas monitor it, each counting for
\* itself over its polls, one that stays down is disabled, as often as it is
\* activated again.
DeadIsDisabled == Monitors \cap deployed # {} /\ <>[]~up => []<>~enabled
=============================================================================

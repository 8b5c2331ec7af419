--------------------------- MODULE DispatchProofs ---------------------------
(***************************************************************************)
(* Proofs about ActionDispatch, for any number of dispatches, monitors,      *)
(* retries and failures.                                                     *)
(***************************************************************************)
EXTENDS ActionDispatch, TLAPS

\* What n requests that ended in a 429 may have done: the attempt that was
\* answered with it did nothing.
Wasted(n) == n * MaxRetries

LEMMA WastedFacts ==
    /\ Wasted(0) = 0
    /\ \A n \in Nat : Wasted(n) \in Nat /\ Wasted(n + 1) = Wasted(n) + MaxRetries
    /\ \A n \in 0 .. Max429 : Wasted(n) <= Wasted(Max429)
    /\ (Max429 + 1) * MaxRetries + 1 = Wasted(Max429) + MaxRetries + 1
    /\ Wasted(Max429) \in Nat /\ MaxRetries \in Nat
<1>1. MaxRetries \in Nat /\ Max429 \in Nat BY ConnectorAssumption, DispatchAssumption
<1>2. Wasted(0) = 0 BY <1>1 DEF Wasted
<1>3. \A n \in Nat : Wasted(n) \in Nat /\ Wasted(n + 1) = Wasted(n) + MaxRetries
      BY <1>1 DEF Wasted
<1>4. ASSUME NEW n \in 0 .. Max429 PROVE Wasted(n) <= Wasted(Max429)
      <2>1. PICK k \in Nat : Max429 = n + k
            <3>1. Max429 - n \in Nat /\ Max429 = n + (Max429 - n) BY <1>1, <1>4
            <3> QED BY <3>1
      <2>2. Wasted(Max429) = Wasted(n) + k * MaxRetries BY <1>1, <1>4, <2>1 DEF Wasted
      <2>3. k * MaxRetries \in Nat /\ n * MaxRetries \in Nat BY <1>1, <1>4, <2>1
      <2> QED BY <2>2, <2>3 DEF Wasted
<1>5. (Max429 + 1) * MaxRetries + 1 = Wasted(Max429) + MaxRetries + 1
      BY <1>1 DEF Wasted
<1> QED BY <1>1, <1>2, <1>3, <1>4, <1>5

\* The share of the earlier requests of the dispatch; one that has timed out has
\* forgotten how many there were.
Spent(d) == IF call[d].at = "idle" THEN Wasted(Max429) ELSE Wasted(call[d].tries)

\* How far a dispatch is, its request at the connector and what it has done:
\* nothing before its first request, at most once per attempt of each, and
\* once less in a request that a 429 ended.
Progress(d) ==
    /\ req[d].at = "none" => req[d] = NoRequest
    /\ req[d].at \in {"pre", "call"} =>
          effects[d] <= Spent(d) + req[d].attempt /\ req[d].answer = "none"
    /\ req[d].at = "answer" => effects[d] <= Spent(d) + MaxRetries + 1
    /\ req[d].answer = "limited" => effects[d] <= Spent(d) + MaxRetries
    /\ req[d].at # "none" => call[d].at \in {"wait", "idle"}
    /\ call[d].at = "check" <=> check[d].at # "none"
    /\ call[d].at \in {"check", "accounts", "create"} => effects[d] = 0
    /\ call[d].at = "post" => effects[d] <= Spent(d)
    /\ effects[d] <= Wasted(Max429) + MaxRetries + 1

IInv == TypeOK /\ BreakerMatchesCount /\ \A d \in Dispatches : Progress(d)

LEMMA InitInv == Init => IInv
<1> SUFFICES ASSUME Init PROVE IInv
    OBVIOUS
<1> USE ConnectorAssumption, LimiterAssumption, DispatchAssumption
<1>1. NoCheck \in Check /\ NoRequest \in Request /\ NoCall \in Call
      BY DEF NoCheck, NoRequest, NoCall, Check, Request, Call
<1>2. LimiterTypeOK
      <2>1. disturbed \in BOOLEAN
            BY Zenon DEF Init, LimiterInit
      <2>2. tokens \in 0 .. Capacity /\ age \in 0 .. AgeCap /\ ideal \in 0 .. Capacity
            BY DEF Init, LimiterInit, AgeCap
      <2>3. check \in [Checks -> Check]
            BY <1>1 DEF Init, LimiterInit
      <2> QED BY <2>1, <2>2, <2>3 DEF LimiterTypeOK
<1>3. ConnectorTypeOK /\ BreakerMatchesCount
      <2>1. up \in BOOLEAN /\ account \in BOOLEAN /\ cooled \in BOOLEAN
            BY Zenon DEF Init, ConnectorInit
      <2>2. /\ breaker = "closed" /\ failures = 0 /\ spare \in 0 .. Burst
            /\ faults \in 0 .. FaultBound
            BY DEF Init, ConnectorInit
      <2>3. req \in [Calls -> Request] /\ effects \in [Calls -> Nat]
            BY <1>1 DEF Init, ConnectorInit
      <2> QED BY <2>1, <2>2, <2>3 DEF ConnectorTypeOK, BreakerMatchesCount
<1>4. MonitorTypeOK /\ call \in [Dispatches -> Call]
      BY <1>1 DEF Init, MonitorInit, MonitorTypeOK
<1>5. ASSUME NEW d \in Dispatches PROVE Progress(d)
      <2>1. req[d] = NoRequest /\ check[d] = NoCheck /\ call[d] = NoCall /\ effects[d] = 0
            BY DEF Init, LimiterInit, ConnectorInit
      <2> QED BY <2>1, WastedFacts DEF Progress, NoRequest, NoCheck, NoCall
<1>6. deployed \in Deployments BY DEF Init
<1> QED BY <1>2, <1>3, <1>4, <1>5, <1>6 DEF IInv, TypeOK

-----------------------------------------------------------------------------
(* The rate limiter *)

\* Redis holds at most Capacity tokens, whatever checks race.
LEMMA LimiterStep ==
    ASSUME LimiterTypeOK, NEW d \in Checks,
           Ask(d) \/ ReadBucket(d) \/ WriteBucket(d) \/ CheckFails(d)
    PROVE  LimiterTypeOK'
<1>1. check[d] \in Check /\ check[d].lag \in 0 .. LagBound /\ check[d].tokens \in 0 .. Capacity
      BY DEF LimiterTypeOK, Check
<1>2. /\ Capacity \in Nat \ {0} /\ LagBound \in Nat
      /\ tokens \in 0 .. Capacity /\ age \in 0 .. AgeCap /\ ideal \in 0 .. Capacity
      /\ AgeCap = Capacity + LagBound
      BY LimiterAssumption DEF LimiterTypeOK, AgeCap
<1>3. NoCheck \in Check
      BY <1>2 DEF NoCheck, Check
<1>4. CASE Ask(d)
      <2>1. [at |-> "asked", lag |-> 0, tokens |-> 0] \in Check
            BY <1>2 DEF Check
      <2>2. Upper(0, ideal - 1) \in 0 .. Capacity
            BY <1>2 DEF Upper
      <2> QED BY <1>4, <2>1, <2>2 DEF Ask, LimiterTypeOK
<1>5. CASE ReadBucket(d)
      <2>1. Refilled(d) \in 0 .. Capacity
            BY <1>1, <1>2 DEF Refilled, Lower, Upper
      <2>2. [check[d] EXCEPT !.at = "read", !.tokens = Refilled(d)] \in Check
            BY <1>1, <2>1 DEF Check
      <2>3. check' = [check EXCEPT ![d] = [check[d] EXCEPT !.at = "read", !.tokens = Refilled(d)]]
            BY <1>5 DEF ReadBucket
      <2> QED BY <1>5, <2>2, <2>3 DEF ReadBucket, LimiterTypeOK
<1>6. CASE WriteBucket(d) \/ CheckFails(d)
      <2>1. check' = [check EXCEPT ![d] = NoCheck] /\ UNCHANGED ideal /\ disturbed' \in BOOLEAN
            BY <1>6 DEF WriteBucket, CheckFails, LimiterTypeOK
      <2>2. \/ UNCHANGED <<tokens, age>>
            \/ /\ tokens' = IF Allowed(d) THEN check[d].tokens - 1 ELSE check[d].tokens
               /\ age' = check[d].lag
            BY <1>6 DEF WriteBucket, CheckFails
      <2>3. tokens' \in 0 .. Capacity /\ age' \in 0 .. AgeCap
            BY <1>1, <1>2, <2>2 DEF Allowed
      <2> QED BY <1>3, <2>1, <2>3 DEF LimiterTypeOK
<1> QED BY <1>4, <1>5, <1>6

LEMMA TickStep ==
    ASSUME LimiterTypeOK, Tick
    PROVE  LimiterTypeOK' /\ \A d \in Checks : check'[d].at = check[d].at
<1>1. \A d \in Checks : check[d] \in Check
      BY DEF LimiterTypeOK
<1>2. \A d \in Checks : (d \in Running) => check[d].lag < LagBound
      BY DEF Tick
<1>3. \A d \in Checks :
         check'[d] = IF d \in Running THEN [check[d] EXCEPT !.lag = @ + 1] ELSE check[d]
      BY DEF Tick
<1>4. ASSUME NEW d \in Checks PROVE check'[d] \in Check /\ check'[d].at = check[d].at
      <2>1. CASE d \in Running
            <3>1. check[d].lag + 1 \in 0 .. LagBound
                  BY <1>1, <1>2, <2>1, LimiterAssumption DEF Check
            <3>2. check'[d] = [check[d] EXCEPT !.lag = check[d].lag + 1]
                  BY <1>3, <2>1
            <3> QED BY <1>1, <3>1, <3>2 DEF Check
      <2>2. CASE d \notin Running
            BY <1>1, <1>3, <2>2
      <2> QED BY <2>1, <2>2
<1>5. check' \in [Checks -> Check]
      BY <1>4 DEF Tick
<1>6. age' \in 0 .. AgeCap /\ ideal' \in 0 .. Capacity /\ UNCHANGED <<tokens, disturbed>>
      BY LimiterAssumption DEF Tick, Lower, LimiterTypeOK, AgeCap
<1> QED BY <1>4, <1>5, <1>6 DEF LimiterTypeOK

-----------------------------------------------------------------------------
(* The connector *)

ConnectorInv == ConnectorTypeOK /\ BreakerMatchesCount

LEMMA FaultStep ==
    ASSUME ConnectorTypeOK, Fault \/ UNCHANGED faults
    PROVE  faults' \in 0 .. FaultBound
BY ConnectorAssumption DEF ConnectorTypeOK, Fault

\* on_success and on_failure keep state and count together, from any state.
LEMMA BreakerStep ==
    ASSUME ConnectorInv,
           OnSuccess \/ OnFailure \/ UNCHANGED <<breaker, failures, cooled>>
    PROVE  /\ breaker' \in {"closed", "open", "half_open"}
           /\ failures' \in Nat
           /\ cooled' \in BOOLEAN
           /\ BreakerMatchesCount'
<1>1. /\ FailureThreshold \in Nat \ {0} /\ failures \in Nat
      /\ breaker \in {"closed", "open", "half_open"}
      /\ breaker = "closed" <=> failures < FailureThreshold
      BY ConnectorAssumption DEF ConnectorInv, ConnectorTypeOK, BreakerMatchesCount
<1>2. cooled' \in BOOLEAN
      BY DEF ConnectorInv, ConnectorTypeOK, OnSuccess, OnFailure
<1>3. CASE OnSuccess
      <2>1. breaker' = "closed" /\ failures' = 0
            BY <1>3 DEF OnSuccess
      <2> QED BY <1>1, <1>2, <2>1 DEF BreakerMatchesCount
<1>4. CASE OnFailure
      <2>1. /\ failures' = failures + 1
            /\ breaker' = IF breaker = "half_open" \/ failures' >= FailureThreshold
                          THEN "open" ELSE breaker
            BY <1>4 DEF OnFailure
      <2>2. CASE breaker = "half_open" \/ failures' >= FailureThreshold
            <3>1. breaker' = "open" /\ failures' >= FailureThreshold /\ failures' \in Nat
                  BY <1>1, <2>1, <2>2
            <3> QED BY <1>1, <1>2, <3>1 DEF BreakerMatchesCount
      <2>3. CASE ~ (breaker = "half_open" \/ failures' >= FailureThreshold)
            <3>1. breaker' = "closed" /\ failures' < FailureThreshold /\ failures' \in Nat
                  BY <1>1, <2>1, <2>3
            <3> QED BY <1>1, <1>2, <3>1 DEF BreakerMatchesCount
      <2> QED BY <2>2, <2>3
<1>5. CASE UNCHANGED <<breaker, failures, cooled>>
      BY <1>1, <1>2, <1>5 DEF BreakerMatchesCount
<1> QED BY <1>3, <1>4, <1>5

LEMMA HostStep ==
    ASSUME ConnectorInv, NEW d \in Calls, HostAnswers(d) \/ HostFails(d)
    PROVE  ConnectorInv'
<1>1. /\ req[d] \in Request /\ effects[d] \in Nat /\ req[d].at = "call"
      /\ req[d].attempt \in 0 .. MaxRetries /\ UNCHANGED <<up, account, spare>>
      BY DEF ConnectorInv, ConnectorTypeOK, Request, HostAnswers, HostFails
<1>2. /\ OnSuccess \/ OnFailure \/ UNCHANGED <<breaker, failures, cooled>>
      /\ Fault \/ UNCHANGED faults
      /\ \E n \in {0, 1} : Done(d, n)
      /\ \/ \E a \in {"ok", "error", "limited"} : Answer(d, a)
         \/ req[d].attempt < MaxRetries /\ TriesAgain(d)
      BY DEF HostAnswers, HostFails
<1>3. effects' \in [Calls -> Nat]
      BY <1>1, <1>2 DEF Done, ConnectorInv, ConnectorTypeOK
<1>4. req' \in [Calls -> Request]
      <2>1. CASE \E a \in {"ok", "error", "limited"} : Answer(d, a)
            BY <2>1, ConnectorAssumption DEF Answer, Request, ConnectorInv, ConnectorTypeOK
      <2>2. CASE req[d].attempt < MaxRetries /\ TriesAgain(d)
            <3> DEFINE r == [req[d] EXCEPT !.at = "pre", !.attempt = req[d].attempt + 1]
            <3>1. req[d].attempt + 1 \in 0 .. MaxRetries
                  BY <1>1, <2>2, ConnectorAssumption
            <3>2. r \in Request
                  BY <1>1, <3>1 DEF Request
            <3>3. req' = [req EXCEPT ![d] = r]
                  BY <1>1, <2>2 DEF TriesAgain, ConnectorInv, ConnectorTypeOK
            <3> HIDE DEF r
            <3> QED BY <3>2, <3>3 DEF ConnectorInv, ConnectorTypeOK
      <2> QED BY <1>2, <2>1, <2>2
<1>5. faults' \in 0 .. FaultBound
      BY <1>2, FaultStep DEF ConnectorInv
<1> QED BY <1>1, <1>2, <1>3, <1>4, <1>5, BreakerStep DEF ConnectorInv, ConnectorTypeOK

LEMMA PreCheckStep ==
    ASSUME ConnectorInv, NEW d \in Calls, PreCheck(d)
    PROVE  ConnectorInv'
<1>1. req[d] \in Request
      BY DEF ConnectorInv, ConnectorTypeOK
<1>2. req' \in [Calls -> Request]
      BY <1>1, ConnectorAssumption DEF PreCheck, Answer, Request, ConnectorInv, ConnectorTypeOK
<1>3. breaker' \in {"closed", "open", "half_open"} /\ (breaker' = "closed" <=> breaker = "closed")
      BY DEF PreCheck, ConnectorInv, ConnectorTypeOK
<1> QED BY <1>2, <1>3 DEF PreCheck, ConnectorInv, ConnectorTypeOK, BreakerMatchesCount

LEMMA AdmitStep ==
    ASSUME ConnectorInv, NEW d \in Calls, Admit(d)
    PROVE  ConnectorInv'
<1>1. req[d] \in Request
      BY DEF ConnectorInv, ConnectorTypeOK
<1>2. req' \in [Calls -> Request]
      BY <1>1, ConnectorAssumption DEF Admit, Answer, Request, ConnectorInv, ConnectorTypeOK
<1>3. spare' \in 0 .. Burst
      BY ConnectorAssumption DEF Admit, ConnectorInv, ConnectorTypeOK
<1> QED BY <1>2, <1>3 DEF Admit, ConnectorInv, ConnectorTypeOK, BreakerMatchesCount

\* The process dies, comes back, or its breaker cools down.
LEMMA LifeStep ==
    ASSUME ConnectorInv, CoolDown \/ ConnectorCrashes \/ ConnectorRestarts
    PROVE  ConnectorInv'
<1>1. CASE CoolDown
      <2>1. cooled' \in BOOLEAN
            BY <1>1, Zenon DEF CoolDown
      <2> QED BY <1>1, <2>1 DEF CoolDown, ConnectorInv, ConnectorTypeOK, BreakerMatchesCount
<1>2. CASE ConnectorCrashes
      <2>1. up' \in BOOLEAN /\ account' \in BOOLEAN /\ cooled' \in BOOLEAN
            BY <1>2, Zenon DEF ConnectorCrashes
      <2>2. /\ breaker' = "closed" /\ failures' = 0 /\ spare' \in 0 .. Burst
            /\ faults' \in 0 .. FaultBound /\ FailureThreshold \in Nat \ {0}
            BY <1>2, ConnectorAssumption, FaultStep DEF ConnectorCrashes, ConnectorInv
      <2>3. NoRequest \in Request
            BY ConnectorAssumption DEF NoRequest, Request
      <2>4. req' \in [Calls -> Request] /\ effects' \in [Calls -> Nat]
            BY <1>2, <2>3 DEF ConnectorCrashes, ConnectorInv, ConnectorTypeOK
      <2> QED BY <2>1, <2>2, <2>4 DEF ConnectorInv, ConnectorTypeOK, BreakerMatchesCount
<1>3. CASE ConnectorRestarts
      <2>1. up' \in BOOLEAN
            BY <1>3, Zenon DEF ConnectorRestarts
      <2> QED BY <1>3, <2>1 DEF ConnectorRestarts, ConnectorInv, ConnectorTypeOK, BreakerMatchesCount
<1> QED BY <1>1, <1>2, <1>3

\* What the dispatcher does to the connector's variables apart from requests.
LEMMA DispatcherStep ==
    ASSUME ConnectorInv, NEW d \in Calls,
           UNCHANGED <<up, breaker, failures, cooled, spare>>,
           account' \in BOOLEAN,
           UNCHANGED req \/ req' = [req EXCEPT ![d] = NoRequest],
           UNCHANGED effects \/ effects' = [effects EXCEPT ![d] = 0],
           Fault \/ UNCHANGED faults
    PROVE  ConnectorInv'
<1>1. NoRequest \in Request
      BY ConnectorAssumption DEF NoRequest, Request
<1>2. req' \in [Calls -> Request] /\ effects' \in [Calls -> Nat]
      BY <1>1 DEF ConnectorInv, ConnectorTypeOK
<1>3. faults' \in 0 .. FaultBound
      BY FaultStep DEF ConnectorInv
<1> QED BY <1>2, <1>3 DEF ConnectorInv, ConnectorTypeOK, BreakerMatchesCount

-----------------------------------------------------------------------------
(* The monitors *)

LEMMA MonitorsStep ==
    ASSUME MonitorTypeOK, (\E m \in Monitors : MonitorStep(m)) \/ Activate
    PROVE  MonitorTypeOK'
<1>1. CASE Activate
      <2>1. enabled' \in BOOLEAN
            BY <1>1, Zenon DEF Activate
      <2> QED BY <1>1, <2>1 DEF Activate, MonitorTypeOK
<1>2. CASE \E m \in Monitors : MonitorStep(m)
      <2>1. PICK m \in Monitors : MonitorStep(m)
            BY <1>2
      <2>2. enabled' \in BOOLEAN
            BY <2>1, Zenon DEF MonitorStep, StartPoll, CheckOne, AutoDisable, MonitorTypeOK
      <2>3. count' \in [Monitors -> Nat]
            BY <2>1 DEF MonitorStep, StartPoll, CheckOne, AutoDisable, MonitorTypeOK
      <2>4. poll' \in [Monitors -> {"idle", "checking", "disabling"}]
            BY <2>1 DEF MonitorStep, StartPoll, CheckOne, AutoDisable, MonitorTypeOK
      <2> QED BY <2>2, <2>3, <2>4 DEF MonitorTypeOK
<1> QED BY <1>1, <1>2

LEMMA MonitorsFrame ==
    ASSUME ConnectorInv, (\E m \in Monitors : MonitorStep(m)) \/ Activate
    PROVE  ConnectorInv' /\ UNCHANGED <<req, effects>>
<1>1. /\ UNCHANGED <<up, account, breaker, failures, cooled, spare, req, effects>>
      /\ Fault \/ UNCHANGED faults
      BY DEF MonitorStep, StartPoll, CheckOne, AutoDisable, Activate, connector
<1>2. faults' \in 0 .. FaultBound
      BY <1>1, FaultStep DEF ConnectorInv
<1> QED BY <1>1, <1>2 DEF ConnectorInv, ConnectorTypeOK, BreakerMatchesCount

-----------------------------------------------------------------------------
(* The dispatches *)

\* A dispatch that a step does not touch stays where it is.
LEMMA Keep ==
    ASSUME NEW d, Progress(d),
           req'[d] = req[d], effects'[d] = effects[d], call'[d] = call[d],
           check'[d].at = check[d].at
    PROVE  Progress(d)'
BY DEF Progress, NoRequest, Spent

\* The fields of one dispatch.
LEMMA Fields ==
    ASSUME IInv, NEW d \in Dispatches
    PROVE  /\ check[d] \in Check /\ req[d] \in Request /\ call[d] \in Call
           /\ effects[d] \in Nat /\ Progress(d)
           /\ check \in [Dispatches -> Check] /\ req \in [Dispatches -> Request]
           /\ call \in [Dispatches -> Call] /\ effects \in [Dispatches -> Nat]
BY DispatchAssumption DEF IInv, TypeOK, LimiterTypeOK, ConnectorTypeOK

LEMMA SpentType ==
    ASSUME IInv, NEW d \in Dispatches
    PROVE  /\ call[d].tries \in 0 .. Max429 /\ call[d].tries \in Nat
           /\ Spent(d) \in Nat /\ Spent(d) <= Wasted(Max429)
<1>1. call[d].tries \in 0 .. Max429 /\ call[d].tries \in Nat
      BY Fields, DispatchAssumption DEF Call
<1> QED BY <1>1, WastedFacts DEF Spent

LEMMA ReturnType ==
    ASSUME IInv, NEW d \in Dispatches, Return(d)
    PROVE  /\ call' \in [Dispatches -> Call]
           /\ call'[d].at = "idle" /\ Spent(d)' = Wasted(Max429)
           /\ \A e \in Dispatches \ {d} : call'[e] = call[e]
<1>1. NoCall \in Call /\ NoCall.at = "idle"
      BY DispatchAssumption DEF Call, NoCall
<1>2. /\ call' \in [Dispatches -> Call] /\ call'[d] = NoCall
      /\ \A e \in Dispatches \ {d} : call'[e] = call[e]
      BY <1>1, Fields DEF Return
<1> QED BY <1>1, <1>2 DEF Spent

LEMMA GotoType ==
    ASSUME IInv, NEW d \in Dispatches,
           NEW p \in {"accounts", "create", "post", "wait"}, Goto(d, p)
    PROVE  /\ call' \in [Dispatches -> Call]
           /\ call'[d].at = p /\ call'[d].tries = call[d].tries
           /\ \A e \in Dispatches \ {d} : call'[e] = call[e]
<1>1. call[d] \in Call /\ call \in [Dispatches -> Call]
      BY Fields
<1>2. [call[d] EXCEPT !.at = p] \in Call
      BY <1>1 DEF Call
<1>3. call' = [call EXCEPT ![d] = [call[d] EXCEPT !.at = p]]
      BY <1>1 DEF Goto
<1>4. [call[d] EXCEPT !.at = p].at = p /\ [call[d] EXCEPT !.at = p].tries = call[d].tries
      BY <1>1 DEF Call
<1> QED BY <1>1, <1>2, <1>3, <1>4

\* What a step of one dispatch has to keep.
Kept == call' \in [Dispatches -> Call] /\ \A d \in Dispatches : Progress(d)'

LEMMA BeginKeeps ==
    ASSUME IInv, NEW d \in Dispatches, Begin(d)
    PROVE  Kept
<1>1. [at |-> "check", tries |-> 0] \in Call
      BY DispatchAssumption DEF Call
<1>2. call' \in [Dispatches -> Call]
      BY <1>1, Fields DEF Begin
<1>3. ASSUME NEW e \in Dispatches, e # d PROVE Progress(e)'
      BY <1>3, Fields, Keep DEF Begin, Ask
<1>4. Progress(d)'
      <2>1. /\ call'[d] = [at |-> "check", tries |-> 0]
            /\ check'[d] = [at |-> "asked", lag |-> 0, tokens |-> 0]
            /\ effects'[d] = 0 /\ req'[d] = req[d] /\ req[d].at = "none"
            BY Fields DEF Begin, Ask
      <2>2. req[d] = NoRequest
            BY <2>1, Fields DEF Progress
      <2> QED BY <2>1, <2>2, WastedFacts DEF Progress, NoRequest
<1> QED BY <1>2, <1>3, <1>4 DEF Kept

LEMMA ReadLimitKeeps ==
    ASSUME IInv, NEW d \in Dispatches, ReadLimit(d)
    PROVE  Kept
<1>1. UNCHANGED <<call, req, effects>>
      BY DEF ReadLimit, connector
<1>2. ASSUME NEW e \in Dispatches, e # d PROVE Progress(e)'
      BY <1>1, <1>2, Fields, Keep DEF ReadLimit, ReadBucket
<1>3. Progress(d)'
      <2>1. check[d].at = "asked"
            BY DEF ReadLimit, ReadBucket
      <2>2. check'[d].at = "read"
            BY Fields DEF ReadLimit, ReadBucket, Check
      <2> QED BY <1>1, <2>1, <2>2, Fields DEF Progress, NoRequest, Spent
<1> QED BY <1>1, <1>2, <1>3, Fields DEF Kept

LEMMA LimitEndKeeps ==
    ASSUME IInv, NEW d \in Dispatches, WriteLimit(d) \/ RedisFails(d)
    PROVE  Kept
<1>1. /\ UNCHANGED <<req, effects>>
      /\ check' = [check EXCEPT ![d] = NoCheck] /\ check[d].at # "none"
      /\ Goto(d, "accounts") \/ Return(d)
      BY DEF WriteLimit, WriteBucket, RedisFails, CheckFails, connector
<1>2. /\ call' \in [Dispatches -> Call] /\ \A e \in Dispatches \ {d} : call'[e] = call[e]
      /\ call'[d].at \in {"accounts", "idle"}
      BY <1>1, GotoType, ReturnType
<1>3. ASSUME NEW e \in Dispatches, e # d PROVE Progress(e)'
      BY <1>1, <1>2, <1>3, Fields, Keep
<1>4. Progress(d)'
      <2>1. check'[d].at = "none"
            BY <1>1, Fields DEF NoCheck
      <2>2. call[d].at = "check" /\ effects[d] = 0 /\ req[d] = NoRequest
            BY <1>1, Fields DEF Progress
      <2> QED BY <1>1, <1>2, <2>1, <2>2, WastedFacts DEF Progress, NoRequest
<1> QED BY <1>2, <1>3, <1>4 DEF Kept

LEMMA AccountsKeeps ==
    ASSUME IInv, NEW d \in Dispatches, GetAccounts(d) \/ CreateAccount(d)
    PROVE  Kept
<1>1. /\ UNCHANGED <<req, effects, check>> /\ call[d].at \in {"accounts", "create"}
      /\ (\E p \in {"create", "post"} : Goto(d, p)) \/ Return(d)
      BY DEF GetAccounts, CreateAccount, connector, limiter
<1>2. /\ call' \in [Dispatches -> Call] /\ \A e \in Dispatches \ {d} : call'[e] = call[e]
      /\ \/ call'[d].at \in {"create", "post"} /\ call'[d].tries = call[d].tries
         \/ call'[d].at = "idle"
      BY <1>1, GotoType, ReturnType
<1>3. ASSUME NEW e \in Dispatches, e # d PROVE Progress(e)'
      BY <1>1, <1>2, <1>3, Fields, Keep
<1>4. Progress(d)'
      <2>1. effects[d] = 0 /\ req[d] = NoRequest /\ check[d].at = "none"
            BY <1>1, Fields DEF Progress
      <2>2. Wasted(call[d].tries) \in Nat BY SpentType, WastedFacts
      <2> QED BY <1>1, <1>2, <2>1, <2>2, WastedFacts DEF Progress, NoRequest, Spent
<1> QED BY <1>2, <1>3, <1>4 DEF Kept

LEMMA PostKeeps ==
    ASSUME IInv, NEW d \in Dispatches, Post(d)
    PROVE  Kept
<1>1. UNCHANGED <<effects, check>> /\ call[d].at = "post"
      BY DEF Post, Admit, connector, limiter
<1>2. effects[d] <= Spent(d) /\ req[d] = NoRequest /\ check[d].at = "none" /\ effects[d] \in Nat
      BY <1>1, Fields DEF Progress
<1>3. CASE Return(d) /\ UNCHANGED connector
      <2>1. UNCHANGED req /\ call' \in [Dispatches -> Call] /\ call'[d].at = "idle"
            BY <1>3, ReturnType DEF connector
      <2>2. ASSUME NEW e \in Dispatches, e # d PROVE Progress(e)'
            BY <1>1, <1>3, <2>1, <2>2, ReturnType, Fields, Keep
      <2>3. Progress(d)'
            BY <1>1, <1>2, <2>1, Fields DEF Progress, NoRequest
      <2> QED BY <2>1, <2>2, <2>3 DEF Kept
<1>4. CASE Admit(d) /\ Goto(d, "wait")
      <2>1. /\ call' \in [Dispatches -> Call] /\ call'[d].at = "wait"
            /\ call'[d].tries = call[d].tries
            BY <1>4, GotoType
      <2>2. ASSUME NEW e \in Dispatches, e # d PROVE Progress(e)'
            BY <1>1, <1>4, <2>2, GotoType, Fields, Keep DEF Admit, Answer
      <2>3. \/ req'[d] = [at |-> "pre", attempt |-> 0, answer |-> "none"]
            \/ \E a \in {"limited", "error"} :
                  req'[d] = [at |-> "answer", attempt |-> 0, answer |-> a]
            BY <1>2, <1>4, Fields DEF Admit, Answer, NoRequest
      <2>4. Spent(d)' = Spent(d) BY <1>1, <2>1 DEF Spent
      <2>5. Spent(d) \in Nat /\ MaxRetries \in Nat BY SpentType, WastedFacts
      <2>6. effects'[d] \in Nat /\ effects'[d] <= Spent(d)' BY <1>1, <1>2, <2>4
      <2>7. /\ req'[d].at \in {"pre", "answer"} /\ req'[d].attempt = 0
            /\ req'[d].at = "pre" => req'[d].answer = "none"
            BY <2>3
      <2>8. effects'[d] <= Wasted(Max429) + MaxRetries + 1 BY <1>1, Fields DEF Progress
      <2>9. /\ effects'[d] <= Spent(d)' + 0 /\ effects'[d] <= Spent(d)' + MaxRetries
            /\ effects'[d] <= Spent(d)' + MaxRetries + 1
            BY <2>4, <2>5, <2>6
      <2>10. Progress(d)'
            BY <1>1, <1>2, <2>1, <2>7, <2>8, <2>9 DEF Progress
      <2> QED BY <2>1, <2>2, <2>10 DEF Kept
<1> QED BY <1>3, <1>4 DEF Post

LEMMA ReceiveKeeps ==
    ASSUME IInv, NEW d \in Dispatches, ReceiveAnswer(d)
    PROVE  Kept
<1>1. /\ UNCHANGED <<effects, check>> /\ call[d].at = "wait" /\ req[d].at = "answer"
      /\ req'[d] = NoRequest /\ \A e \in Dispatches \ {d} : req'[e] = req[e]
      BY Fields DEF ReceiveAnswer, limiter
<1>2. /\ check[d].at = "none" /\ effects[d] \in Nat
      /\ effects[d] <= Wasted(Max429) + MaxRetries + 1
      BY <1>1, Fields DEF Progress
<1>3. CASE TooMany(d)
      <2> DEFINE c == [call[d] EXCEPT !.at = "post", !.tries = call[d].tries + 1]
      <2>1. call[d] \in Call /\ call[d].tries + 1 \in 0 .. Max429 /\ call[d].tries \in Nat
            BY <1>3, Fields, DispatchAssumption DEF TooMany, Call
      <2>2. c \in Call /\ c.at = "post" /\ c.tries = call[d].tries + 1
            BY <2>1 DEF Call
      <2>3. call' = [call EXCEPT ![d] = c]
            BY <1>3, Fields DEF ReceiveAnswer
      <2> HIDE DEF c
      <2>4. call' \in [Dispatches -> Call] /\ call'[d] = c
            BY <2>2, <2>3, Fields
      <2>5. ASSUME NEW e \in Dispatches, e # d PROVE Progress(e)'
            BY <1>1, <2>3, <2>5, Fields, Keep
      <2>6. effects[d] <= Spent(d) + MaxRetries
            BY <1>3, Fields DEF TooMany, Progress
      <2>7. Spent(d) = Wasted(call[d].tries) /\ Spent(d)' = Wasted(call[d].tries + 1)
            BY <1>1, <2>2, <2>4 DEF Spent
      <2>8. effects'[d] <= Spent(d)' BY <1>1, <2>1, <2>6, <2>7, WastedFacts
      <2>9. Progress(d)'
            BY <1>1, <1>2, <2>2, <2>4, <2>8 DEF Progress, NoRequest
      <2> QED BY <2>4, <2>5, <2>9 DEF Kept
<1>4. CASE Return(d)
      <2>1. /\ call' \in [Dispatches -> Call] /\ call'[d].at = "idle"
            /\ \A e \in Dispatches \ {d} : call'[e] = call[e]
            BY <1>4, ReturnType
      <2>2. ASSUME NEW e \in Dispatches, e # d PROVE Progress(e)'
            BY <1>1, <2>1, <2>2, Fields, Keep
      <2>3. Progress(d)'
            BY <1>1, <1>2, <2>1 DEF Progress, NoRequest
      <2> QED BY <2>1, <2>2, <2>3 DEF Kept
<1> QED BY <1>3, <1>4 DEF ReceiveAnswer

LEMMA GiveUpKeeps ==
    ASSUME IInv, NEW d \in Dispatches, TimeOut(d) \/ ConnectionLost(d)
    PROVE  Kept
<1>1. UNCHANGED <<effects, check, req>> /\ call[d].at = "wait" /\ Return(d)
      BY DEF TimeOut, ConnectionLost, connector, limiter
<1>2. /\ call' \in [Dispatches -> Call]
      /\ call'[d].at = "idle" /\ Spent(d)' = Wasted(Max429)
      /\ \A e \in Dispatches \ {d} : call'[e] = call[e]
      BY <1>1, ReturnType
<1>3. ASSUME NEW e \in Dispatches, e # d PROVE Progress(e)'
      BY <1>1, <1>2, <1>3, Fields, Keep
<1>4. /\ Spent(d) \in Nat /\ Spent(d)' \in Nat /\ Spent(d) <= Spent(d)'
      /\ MaxRetries \in Nat /\ effects[d] \in Nat
      BY <1>2, SpentType, WastedFacts, Fields
<1>5. req[d].attempt \in Nat BY Fields, ConnectorAssumption DEF Request
<1>6. /\ effects[d] <= Spent(d) + req[d].attempt => effects[d] <= Spent(d)' + req[d].attempt
      /\ effects[d] <= Spent(d) + MaxRetries => effects[d] <= Spent(d)' + MaxRetries
      /\ effects[d] <= Spent(d) + MaxRetries + 1 => effects[d] <= Spent(d)' + MaxRetries + 1
      BY <1>4, <1>5
<1>7. Progress(d)'
      BY <1>1, <1>2, <1>6, Fields DEF Progress, NoRequest
<1> QED BY <1>2, <1>3, <1>7 DEF Kept

LEMMA DropKeeps ==
    ASSUME IInv, NEW d \in Dispatches, DropAnswer(d)
    PROVE  Kept
<1>1. /\ UNCHANGED <<effects, check, call>> /\ req[d].at = "answer"
      /\ req'[d] = NoRequest /\ \A e \in Dispatches \ {d} : req'[e] = req[e]
      BY Fields DEF DropAnswer, limiter
<1>2. ASSUME NEW e \in Dispatches, e # d PROVE Progress(e)'
      BY <1>1, <1>2, Fields, Keep
<1>3. Progress(d)'
      BY <1>1, Fields DEF Progress, NoRequest, Spent
<1> QED BY <1>1, <1>2, <1>3, Fields DEF Kept

\* A request acts at most once per attempt, and not in one that a 429 answers.
LEMMA ConnectorKeeps ==
    ASSUME IInv, NEW d \in Dispatches, Connector(d)
    PROVE  Kept
<1>1. UNCHANGED <<call, check>>
      BY DEF Connector, limiter
<1>2. \A e \in Dispatches \ {d} : req'[e] = req[e] /\ effects'[e] = effects[e]
      BY Fields DEF Connector, ConnectorStep, PreCheck, HostAnswers, HostFails, Answer, TriesAgain,
                    Done
<1>3. ASSUME NEW e \in Dispatches, e # d PROVE Progress(e)'
      BY <1>1, <1>2, <1>3, Fields, Keep
<1>4. /\ req[d].at \in {"pre", "call"} /\ req[d].answer = "none" 
      /\ effects[d] <= Spent(d) + req[d].attempt
      /\ req[d].attempt \in 0 .. MaxRetries /\ effects[d] \in Nat /\ MaxRetries \in Nat
      BY Fields, ConnectorAssumption
      DEF Connector, ConnectorStep, PreCheck, HostAnswers, HostFails, Progress, Request
<1>7. /\ Spent(d)' = Spent(d) /\ Spent(d) \in Nat /\ Spent(d) <= Wasted(Max429)
      /\ Wasted(Max429) \in Nat
      BY <1>1, SpentType, WastedFacts DEF Spent
<1>8. call[d].at \in {"wait", "idle"} BY <1>4, Fields DEF Progress
<1>5. CASE PreCheck(d)
      <2>1. /\ effects'[d] = effects[d]
            /\ \/ req'[d] = [at |-> "answer", attempt |-> 0, answer |-> "error"]
               \/ req'[d] = [req[d] EXCEPT !.at = "call"]
            BY <1>5, Fields DEF PreCheck, Answer
      <2>2. /\ req'[d].at \in {"call", "answer"} /\ req'[d].answer \in {"none", "error"}
            /\ req'[d].at = "call" => req'[d].attempt = req[d].attempt /\ req'[d].answer = "none"
            BY <1>4, <2>1, Fields DEF Request
      <2>3. Progress(d)'
            BY <1>1, <1>4, <1>7, <1>8, <2>1, <2>2, Fields DEF Progress
      <2> QED BY <1>1, <1>3, <2>3, Fields DEF Kept
<1>6. CASE HostAnswers(d) \/ HostFails(d)
      <2>1. \/ \E n \in {0, 1} : Done(d, n) /\ \E a \in {"ok", "error"} : Answer(d, a)
            \/ Done(d, 0) /\ Answer(d, "limited")
            \/ \E n \in {0, 1} : Done(d, n) /\ TriesAgain(d)
            BY <1>6 DEF HostAnswers, HostFails
      <2>2. /\ effects'[d] \in {effects[d], effects[d] + 1}
            /\ Done(d, 0) => effects'[d] = effects[d]
            BY <1>4, <2>1, Fields DEF Done
      <2>3. ASSUME NEW a \in {"ok", "error", "limited"}, Answer(d, a)
            PROVE  req'[d].at = "answer" /\ req'[d].answer = a
            BY <2>3, Fields DEF Answer
      <2>4. ASSUME TriesAgain(d)
            PROVE  /\ req'[d].at = "pre" /\ req'[d].attempt = req[d].attempt + 1
                   /\ req'[d].answer = "none"
            <3>1. req'[d] = [req[d] EXCEPT !.at = "pre", !.attempt = @ + 1]
                  BY <2>4, Fields DEF TriesAgain
            <3> QED BY <1>4, <3>1, Fields DEF Request
      <2>5. \/ req'[d].at = "answer" /\ req'[d].answer \in {"ok", "error"}
            \/ req'[d].at = "answer" /\ req'[d].answer = "limited" /\ effects'[d] = effects[d]
            \/ /\ req'[d].at = "pre" /\ req'[d].attempt = req[d].attempt + 1
               /\ req'[d].answer = "none"
            BY <2>1, <2>2, <2>3, <2>4
      <2>6. /\ effects'[d] <= Spent(d)' + req[d].attempt + 1
            /\ effects'[d] <= Spent(d)' + (req[d].attempt + 1)
            /\ effects'[d] <= Spent(d)' + MaxRetries + 1
            /\ effects'[d] = effects[d] => effects'[d] <= Spent(d)' + MaxRetries
            /\ effects'[d] <= Wasted(Max429) + MaxRetries + 1
            BY <1>4, <1>7, <2>2
      <2>7. Progress(d)'
            BY <1>1, <1>8, <2>5, <2>6, Fields DEF Progress
      <2> QED BY <1>1, <1>3, <2>7, Fields DEF Kept
<1> QED BY <1>5, <1>6 DEF Connector, ConnectorStep

-----------------------------------------------------------------------------
(* The invariant *)

LEMMA DispatchStepInv ==
    ASSUME IInv, NEW d \in Dispatches,
           Begin(d) \/ DispatchStep(d) \/ TimeOut(d), UNCHANGED deployed
    PROVE  IInv'
<1>1. LimiterTypeOK /\ ConnectorInv /\ MonitorTypeOK /\ d \in Checks /\ d \in Calls
      BY DispatchAssumption DEF IInv, TypeOK, ConnectorInv
<1>2. LimiterTypeOK'
      <2>1. Ask(d) \/ ReadBucket(d) \/ WriteBucket(d) \/ CheckFails(d) \/ UNCHANGED limiter
            BY DEF Begin, DispatchStep, TimeOut, ReadLimit, WriteLimit, RedisFails, GetAccounts,
                   CreateAccount, Post, ReceiveAnswer, ConnectionLost, DropAnswer
      <2>2. UNCHANGED limiter => LimiterTypeOK'
            BY <1>1 DEF limiter, LimiterTypeOK
      <2> QED BY <1>1, <2>1, <2>2, LimiterStep
<1>3. ConnectorInv'
      <2>1. CASE Post(d)
            <3>1. Admit(d) \/ UNCHANGED connector
                  BY <2>1 DEF Post
            <3>2. UNCHANGED connector => ConnectorInv'
                  BY <1>1 DEF connector, ConnectorInv, ConnectorTypeOK, BreakerMatchesCount
            <3> QED BY <1>1, <3>1, <3>2, AdmitStep
      <2>2. CASE ~ Post(d)
            <3>1. /\ UNCHANGED <<up, breaker, failures, cooled, spare>>
                  /\ UNCHANGED req \/ req' = [req EXCEPT ![d] = NoRequest]
                  /\ UNCHANGED effects \/ effects' = [effects EXCEPT ![d] = 0]
                  /\ Fault \/ UNCHANGED faults
                  BY <2>2 DEF Begin, DispatchStep, TimeOut, ReadLimit, WriteLimit, RedisFails,
                      GetAccounts, CreateAccount, ReceiveAnswer, ConnectionLost, DropAnswer, connector
            <3>2. account' = account \/ account' = up
                  BY <2>2 DEF Begin, DispatchStep, TimeOut, ReadLimit, WriteLimit, RedisFails,
                      GetAccounts, CreateAccount, ReceiveAnswer, ConnectionLost, DropAnswer, connector
            <3>3. account' \in BOOLEAN
                  BY <1>1, <3>2, Zenon DEF ConnectorInv, ConnectorTypeOK
            <3> QED BY <1>1, <3>1, <3>3, DispatcherStep
      <2> QED BY <2>1, <2>2
<1>4. MonitorTypeOK'
      <2>1. UNCHANGED monitor
            BY DEF Begin, DispatchStep, TimeOut, ReadLimit, WriteLimit, RedisFails, GetAccounts,
                   CreateAccount, Post, ReceiveAnswer, ConnectionLost, DropAnswer
      <2> QED BY <1>1, <2>1 DEF monitor, MonitorTypeOK
<1>5. Kept
      BY BeginKeeps, ReadLimitKeeps, LimitEndKeeps, AccountsKeeps, PostKeeps, ReceiveKeeps,
         GiveUpKeeps, DropKeeps DEF DispatchStep
<1> QED BY <1>2, <1>3, <1>4, <1>5 DEF IInv, TypeOK, ConnectorInv, Kept

LEMMA InvStep == IInv /\ [Next]_vars => IInv'
<1> SUFFICES ASSUME IInv, [Next]_vars PROVE IInv'
    OBVIOUS
<1>1. LimiterTypeOK /\ ConnectorInv /\ MonitorTypeOK /\ Checks = Dispatches /\ Calls = Dispatches
      BY DispatchAssumption DEF IInv, TypeOK, ConnectorInv
<1>0. UNCHANGED deployed /\ deployed' \in Deployments
      BY DEF Next, vars, IInv, TypeOK
<1>2. ASSUME NEW d \in Dispatches, Begin(d) \/ DispatchStep(d) \/ TimeOut(d) PROVE IInv'
      BY <1>0, <1>2, DispatchStepInv
<1>3. ASSUME NEW d \in Dispatches, Connector(d) PROVE IInv'
      <2>1. UNCHANGED <<limiter, monitor, call>> /\ (PreCheck(d) \/ HostAnswers(d) \/ HostFails(d))
            BY <1>3 DEF Connector, ConnectorStep
      <2>2. ConnectorInv'
            BY <1>1, <2>1, PreCheckStep, HostStep
      <2>3. LimiterTypeOK' /\ MonitorTypeOK'
            BY <1>1, <2>1 DEF limiter, monitor, LimiterTypeOK, MonitorTypeOK
      <2>4. Kept
            BY <1>3, ConnectorKeeps
      <2> QED BY <1>0, <2>2, <2>3, <2>4 DEF IInv, TypeOK, ConnectorInv, Kept
<1>4. CASE TimePasses
      <2>1. /\ UNCHANGED <<up, account, breaker, failures, cooled, req, effects, faults, monitor, call>>
            /\ spare' = Lower(Burst, spare + 1) /\ Tick
            BY <1>4 DEF TimePasses
      <2>2. spare' \in 0 .. Burst
            BY <1>1, <2>1, ConnectorAssumption DEF Lower, ConnectorInv, ConnectorTypeOK
      <2>3. LimiterTypeOK' /\ \A d \in Dispatches : check'[d].at = check[d].at
            BY <1>1, <2>1, TickStep
      <2>4. ConnectorInv'
            BY <1>1, <2>1, <2>2 DEF ConnectorInv, ConnectorTypeOK, BreakerMatchesCount
      <2>5. MonitorTypeOK'
            BY <1>1, <2>1 DEF monitor, MonitorTypeOK
      <2>6. call' \in [Dispatches -> Call]
            BY <2>1 DEF IInv, TypeOK
      <2>7. \A d \in Dispatches : Progress(d)'
            BY <2>1, <2>3, Keep DEF IInv
      <2> QED BY <1>0, <2>3, <2>4, <2>5, <2>6, <2>7 DEF IInv, TypeOK, ConnectorInv
<1>5. CASE Environment
      <2>1. /\ UNCHANGED <<limiter, monitor, call>>
            /\ CoolDown \/ ConnectorCrashes \/ ConnectorRestarts
            BY <1>5 DEF Environment
      <2>2. ConnectorInv'
            BY <1>1, <2>1, LifeStep
      <2>3. LimiterTypeOK' /\ MonitorTypeOK'
            BY <1>1, <2>1 DEF limiter, monitor, LimiterTypeOK, MonitorTypeOK
      <2>4. call' \in [Dispatches -> Call]
            BY <2>1 DEF IInv, TypeOK
      <2>5. ASSUME NEW d \in Dispatches PROVE Progress(d)'
            <3>1. /\ UNCHANGED <<call, check, effects>>
                  /\ req'[d] = req[d] \/ req'[d] = NoRequest
                  BY <1>1, <2>1 DEF CoolDown, ConnectorCrashes, ConnectorRestarts, limiter
            <3> QED BY <3>1, Fields DEF Progress, NoRequest, Spent
      <2> QED BY <1>0, <2>2, <2>3, <2>4, <2>5 DEF IInv, TypeOK, ConnectorInv
<1>6. CASE Monitoring
      <2>1. UNCHANGED <<limiter, call>> /\ ((\E m \in Monitors : MonitorStep(m)) \/ Activate)
            BY <1>6 DEF Monitoring
      <2>2. ConnectorInv' /\ MonitorTypeOK' /\ UNCHANGED <<req, effects>>
            BY <1>1, <2>1, MonitorsStep, MonitorsFrame
      <2>3. LimiterTypeOK' /\ call' \in [Dispatches -> Call] /\ UNCHANGED check
            BY <1>1, <2>1 DEF limiter, LimiterTypeOK, IInv, TypeOK
      <2>4. \A d \in Dispatches : Progress(d)'
            BY <2>1, <2>2, <2>3, Keep DEF IInv
      <2> QED BY <1>0, <2>2, <2>3, <2>4 DEF IInv, TypeOK, ConnectorInv
<1>7. CASE UNCHANGED vars
      <2>1. UNCHANGED <<limiter, connector, monitor, call, check, req, effects>>
            BY <1>7 DEF vars, limiter, connector
      <2>2. LimiterTypeOK' /\ MonitorTypeOK'
            BY <1>1, <2>1 DEF limiter, monitor, LimiterTypeOK, MonitorTypeOK
      <2>3. ConnectorInv'
            BY <1>1, <2>1 DEF connector, ConnectorInv, ConnectorTypeOK, BreakerMatchesCount
      <2>4. call' \in [Dispatches -> Call] /\ \A d \in Dispatches : Progress(d)'
            BY <2>1, Keep DEF IInv, TypeOK
      <2> QED BY <1>0, <2>2, <2>3, <2>4 DEF IInv, TypeOK, ConnectorInv
<1> QED BY <1>2, <1>3, <1>4, <1>5, <1>6, <1>7 DEF Next

\* The invariant holds of every behaviour of dispatches, connector and monitors.
THEOREM Invariance == Spec => []IInv
BY InitInv, InvStep, PTL DEF Spec

\* Every variable keeps its type: the bucket in Redis never holds more than its
\* capacity, however many checks write over each other.
THEOREM TypeCorrect == Spec => []TypeOK
<1>1. IInv => TypeOK
      BY DEF IInv
<1> QED BY <1>1, Invariance, PTL

\* Results of calls that began in any state of the breaker never separate its
\* state from its failure count.
THEOREM BreakerConsistent == Spec => []BreakerMatchesCount
<1>1. IInv => BreakerMatchesCount
      BY DEF IInv
<1> QED BY <1>1, Invariance, PTL

\* The retries of dispatcher and connector together: a dispatch acts at most
\* MaxRetries times for each 429 it repeats and MaxRetries + 1 times at last, for
\* any limits, with time-outs and crashes, also when the 429 is the host's.
THEOREM RetriesAreBounded == Spec => []EffectsBounded
<1>1. IInv => EffectsBounded
      <2>1. ASSUME IInv, NEW d \in Dispatches
            PROVE  effects[d] <= (Max429 + 1) * MaxRetries + 1
            BY <2>1, Fields, WastedFacts DEF Progress
      <2> QED BY <2>1 DEF EffectsBounded
<1> QED BY <1>1, Invariance, PTL

-----------------------------------------------------------------------------
(* The bucket in Redis and the atomic one *)

\* As long as no two checks overlap, the atomic bucket is the one that the check
\* under way has read, or will read, less its token.
Alone == \A d, e \in Checks : check[d].at # "none" /\ check[e].at # "none" => d = e
AtRest == (\A d \in Checks : check[d].at = "none") => Lower(Capacity, tokens + age) = ideal
WillRead(d) ==
    check[d].at = "asked" =>
        /\ check[d].lag <= age
        /\ ideal = Lower(Capacity, Upper(0, Refilled(d) - 1) + check[d].lag)
HasRead(d) ==
    check[d].at = "read" =>
        ideal = Lower(Capacity, Upper(0, check[d].tokens - 1) + check[d].lag)
BucketInv ==
    ~ disturbed => Alone /\ AtRest /\ \A d \in Checks : WillRead(d) /\ HasRead(d)

LEMMA BucketTypes ==
    ASSUME LimiterTypeOK
    PROVE  /\ Capacity \in Nat \ {0} /\ LagBound \in Nat
           /\ tokens \in Nat /\ tokens <= Capacity /\ age \in Nat /\ age <= Capacity + LagBound
           /\ ideal \in Nat /\ ideal <= Capacity
           /\ \A d \in Checks : /\ check[d].at \in {"none", "asked", "read"}
                                /\ check[d].lag \in Nat /\ check[d].lag <= LagBound
                                /\ check[d].tokens \in Nat /\ check[d].tokens <= Capacity
BY LimiterAssumption DEF LimiterTypeOK, Check, AgeCap

LEMMA BucketAsk ==
    ASSUME LimiterTypeOK, BucketInv, NEW d \in Checks, Ask(d)
    PROVE  BucketInv'
<1> SUFFICES ASSUME ~ disturbed'
             PROVE  Alone' /\ AtRest' /\ \A e \in Checks : WillRead(e)' /\ HasRead(e)'
    BY DEF BucketInv
<1>1. ~ disturbed /\ Running = {}
      BY DEF Ask
<1>2. \A e \in Checks : check[e].at = "none"
      BY <1>1 DEF Running
<1>3. /\ check'[d] = [at |-> "asked", lag |-> 0, tokens |-> 0]
      /\ \A e \in Checks \ {d} : check'[e] = check[e]
      /\ UNCHANGED <<tokens, age>> /\ ideal' = Upper(0, ideal - 1)
      BY DEF Ask, LimiterTypeOK
<1>4. Alone' /\ AtRest' /\ \A e \in Checks : HasRead(e)'
      BY <1>2, <1>3 DEF Alone, AtRest, HasRead
<1>5. Lower(Capacity, tokens + age) = ideal
      BY <1>1, <1>2 DEF BucketInv, AtRest
<1>6. WillRead(d)'
      BY <1>3, <1>5, BucketTypes DEF WillRead, Refilled, Lower, Upper
<1>7. \A e \in Checks : WillRead(e)'
      BY <1>2, <1>3, <1>6 DEF WillRead
<1> QED BY <1>4, <1>7

LEMMA BucketRead ==
    ASSUME LimiterTypeOK, BucketInv, NEW d \in Checks, ReadBucket(d)
    PROVE  BucketInv'
<1> SUFFICES ASSUME ~ disturbed'
             PROVE  Alone' /\ AtRest' /\ \A e \in Checks : WillRead(e)' /\ HasRead(e)'
    BY DEF BucketInv
<1>1. Alone /\ \A e \in Checks : WillRead(e) /\ HasRead(e)
      BY DEF ReadBucket, BucketInv
<1>2. /\ check[d].at = "asked" /\ check'[d].at = "read" /\ check'[d].lag = check[d].lag
      /\ check'[d].tokens = Refilled(d)
      /\ \A e \in Checks \ {d} : check'[e] = check[e]
      /\ UNCHANGED <<tokens, age, ideal>>
      BY DEF ReadBucket, LimiterTypeOK, Check
<1>3. Alone' /\ AtRest'
      BY <1>1, <1>2 DEF Alone, AtRest
<1>4. \A e \in Checks : WillRead(e)'
      BY <1>1, <1>2 DEF WillRead, Refilled
<1>5. \A e \in Checks : HasRead(e)'
      BY <1>1, <1>2 DEF HasRead, WillRead
<1> QED BY <1>3, <1>4, <1>5

LEMMA BucketWrite ==
    ASSUME LimiterTypeOK, BucketInv, NEW d \in Checks, WriteBucket(d)
    PROVE  BucketInv'
<1> SUFFICES ASSUME ~ disturbed'
             PROVE  Alone' /\ AtRest' /\ \A e \in Checks : WillRead(e)' /\ HasRead(e)'
    BY DEF BucketInv
<1>1. Alone /\ HasRead(d) /\ check[d].at = "read"
      BY DEF WriteBucket, BucketInv
<1>2. /\ check'[d].at = "none" /\ \A e \in Checks \ {d} : check'[e] = check[e]
      /\ tokens' = IF check[d].tokens >= 1 THEN check[d].tokens - 1 ELSE check[d].tokens
      /\ age' = check[d].lag /\ UNCHANGED ideal
      BY DEF WriteBucket, Allowed, LimiterTypeOK, NoCheck
<1>3. \A e \in Checks : check'[e].at = "none"
      BY <1>1, <1>2 DEF Alone
<1>4. Lower(Capacity, tokens' + age') = ideal'
      BY <1>1, <1>2, BucketTypes DEF HasRead, Lower, Upper
<1> QED BY <1>3, <1>4 DEF Alone, AtRest, WillRead, HasRead

LEMMA BucketTick ==
    ASSUME LimiterTypeOK, BucketInv, Tick
    PROVE  BucketInv'
<1> SUFFICES ASSUME ~ disturbed'
             PROVE  Alone' /\ AtRest' /\ \A e \in Checks : WillRead(e)' /\ HasRead(e)'
    BY DEF BucketInv
<1>1. Alone /\ AtRest /\ \A e \in Checks : WillRead(e) /\ HasRead(e)
      BY DEF Tick, BucketInv
<1>2. /\ age' = Lower(Capacity + LagBound, age + 1) /\ ideal' = Lower(Capacity, ideal + 1)
      /\ UNCHANGED tokens
      BY DEF Tick, AgeCap
<1>3. ASSUME NEW e \in Checks, check[e].at # "none"
      PROVE  /\ check'[e].at = check[e].at /\ check'[e].lag = check[e].lag + 1
             /\ check'[e].tokens = check[e].tokens /\ check[e].lag + 1 <= LagBound
      <2>1. e \in Running /\ check[e] \in Check
            BY <1>3 DEF Running, LimiterTypeOK
      <2>2. check[e].lag < LagBound /\ check'[e] = [check[e] EXCEPT !.lag = @ + 1]
            BY <2>1 DEF Tick
      <2> QED BY <2>1, <2>2, BucketTypes DEF Check
<1>4. \A e \in Checks : check'[e].at = check[e].at
      BY TickStep
<1>5. Alone'
      BY <1>1, <1>4 DEF Alone
<1>6. AtRest'
      BY <1>1, <1>2, <1>4, BucketTypes DEF AtRest, Lower
<1>7. ASSUME NEW e \in Checks PROVE HasRead(e)'
      <2> SUFFICES ASSUME check[e].at = "read"
                   PROVE  ideal' = Lower(Capacity, Upper(0, check'[e].tokens - 1) + check'[e].lag)
          BY <1>4 DEF HasRead
      <2> QED BY <1>1, <1>2, <1>3, BucketTypes DEF HasRead, Lower, Upper
<1>8. ASSUME NEW e \in Checks PROVE WillRead(e)'
      <2> SUFFICES ASSUME check[e].at = "asked"
                   PROVE  /\ check'[e].lag <= age'
                          /\ ideal' = Lower(Capacity, Upper(0, Refilled(e)' - 1) + check'[e].lag)
          BY <1>4 DEF WillRead
      <2>1. check[e].lag <= age /\ check'[e].lag = check[e].lag + 1 /\ check[e].lag + 1 <= LagBound
            BY <1>1, <1>3 DEF WillRead
      <2>2. check'[e].lag <= age'
            BY <1>2, <2>1, BucketTypes DEF Lower
      <2>3. Refilled(e)' = Refilled(e) /\ Refilled(e) \in Nat
            BY <1>2, <2>1, BucketTypes DEF Refilled, Lower, Upper
      <2>4. ideal = Lower(Capacity, Upper(0, Refilled(e) - 1) + check[e].lag)
            BY <1>1 DEF WillRead
      <2> QED BY <1>2, <2>1, <2>2, <2>3, <2>4, BucketTypes DEF Lower, Upper
<1> QED BY <1>5, <1>6, <1>7, <1>8

LEMMA BucketStep == IInv /\ BucketInv /\ [Next]_vars => BucketInv'
<1> SUFFICES ASSUME IInv, BucketInv, [Next]_vars PROVE BucketInv'
    OBVIOUS
<1>1. LimiterTypeOK /\ Checks = Dispatches
      BY DispatchAssumption DEF IInv, TypeOK
<1>2. \/ UNCHANGED limiter \/ Tick
      \/ \E d \in Checks : Ask(d) \/ ReadBucket(d) \/ WriteBucket(d) \/ CheckFails(d)
      BY <1>1 DEF Next, Begin, DispatchStep, TimeOut, ReadLimit, WriteLimit, RedisFails, GetAccounts,
                  CreateAccount, Post, ReceiveAnswer, ConnectionLost, DropAnswer, Connector,
                  TimePasses, Environment, Monitoring, vars, limiter
<1>3. UNCHANGED limiter => BucketInv'
      BY DEF limiter, BucketInv, Alone, AtRest, WillRead, HasRead, Refilled
<1>4. (\E d \in Checks : CheckFails(d)) => BucketInv'
      BY DEF CheckFails, BucketInv
<1> QED BY <1>1, <1>2, <1>3, <1>4, BucketAsk, BucketRead, BucketWrite, BucketTick

\* The two round trips of check decide like one step, for any capacity and any
\* delay, as long as no two checks overlap.
THEOREM ChecksLookAtomic == Spec => []MatchesAtomicBucket
<1>1. Init => BucketInv
      <2>1. ASSUME Init PROVE /\ \A d \in Checks : check[d].at = "none"
                             /\ Lower(Capacity, tokens + age) = ideal
            BY <2>1, LimiterAssumption DEF Init, LimiterInit, NoCheck, Lower
      <2> QED BY <2>1 DEF BucketInv, Alone, AtRest, WillRead, HasRead
<1>2. BucketInv => MatchesAtomicBucket
      BY DEF BucketInv, AtRest, MatchesAtomicBucket, Running
<1> QED BY <1>1, <1>2, Invariance, BucketStep, PTL DEF Spec
=============================================================================

---------------------------- MODULE WebhookProofs ----------------------------
(***************************************************************************)
(* Proofs about WebhookIngestion, for any sets of requests, sessions, ids  *)
(* and flows.  The inductive invariant has three independent parts, each   *)
(* on top of the type invariant: who holds a row, what the dedup keys      *)
(* know, and how far the counters may have come.                           *)
(***************************************************************************)
EXTENDS WebhookIngestion, TLAPS

\* Holders: a row is locked by exactly the worker that is busy with it.
\* A background task works on its own row, and not before its request was
\* answered; a session has no row between two requests.
Holders ==
    /\ \A r \in Requests : row[r] = r
    /\ \A r \in Requests : req[r] # "accepted" => work[r] = "idle"
    /\ \A w \in Sessions : work[w] \in {"idle", "read", "busy"}
    /\ \A w \in Sessions : work[w] = "idle" => row[w] = NoWorker
    /\ \A w \in Workers : work[w] = "read" => row[w] \in Requests
    /\ \A w \in Workers : \A r \in Requests : lock[r] = w <=> work[w] = "busy" /\ row[w] = r

\* Keys: the key of a stored or marked event is present until it expires,
\* and a request that passed the test did not know its id.
Keys ==
    /\ accepted \subseteq dedup
    /\ \A r \in Requests : earlier[r] \subseteq accepted
    /\ \A r \in Requests : req[r] = "commit" /\ ExternalId[r] # NoId => ExternalId[r] \in dedup
    /\ \A r \in Requests : req[r] \in {"mark", "commit", "accepted"} => ExternalId[r] \notin earlier[r]
    /\ \A r \in Requests : status[r] # "absent" <=> req[r] = "accepted"
    /\ \A w \in Workers : work[w] # "idle" /\ row[w] # NoWorker => req[row[w]] = "accepted"
    /\ \A r \in Requests : req[r] \in {"check", "mark"} => ExternalId[r] # NoId

\* Counts: a loaded retry_count lags behind the processings begun, by one at
\* least for the session that has begun its own.
Counts ==
    /\ \A r \in Requests : retries[r] <= attempts[r]
    /\ \A w \in Workers : work[w] = "read" => seen[w] <= attempts[row[w]]
    /\ \A w \in Workers : work[w] = "busy" /\ row[w] # NoWorker => seen[w] < attempts[row[w]]


Inv == TypeOK /\ Holders /\ Keys /\ Counts

-----------------------------------------------------------------------------

\* The flow variables start well typed, and stay so when an event begins or
\* its session ends.
LEMMA FlowTypeStart ==
    /\ FlowInit => FlowTypeOK
    /\ \A w \in Workers : FlowTypeOK /\ FlowsBegin(w) => FlowTypeOK'
    /\ \A w \in Workers : FlowTypeOK /\ FlowsForget(w) => FlowTypeOK'
<1> USE FlowAssumption DEF FlowTypeOK, Settled
<1>1. FlowInit => FlowTypeOK
  BY DEF FlowInit
<1>2. ASSUME NEW w \in Workers, FlowTypeOK, FlowsBegin(w)
      PROVE  FlowTypeOK'
  BY <1>2 DEF FlowsBegin
<1>3. ASSUME NEW w \in Workers, FlowTypeOK, FlowsForget(w)
      PROVE  FlowTypeOK'
  BY <1>3 DEF FlowsForget
<1> QED  BY <1>1, <1>2, <1>3

\* One flow started, filtered out, attempted or settled.
LEMMA FlowTypeRun ==
    ASSUME FlowTypeOK, NEW w \in Workers, NEW caller,
           (\E f \in Flows : FlowNext(w, f)) \/ FlowAttempt(w, caller)
    PROVE  FlowTypeOK'
<1> DEFINE States == Settled \cup {"none", "running"}
<1>a. {"skipped", "success", "failed", "none", "running"} \subseteq States
  BY DEF Settled
<1> USE FlowAssumption DEF FlowTypeOK
<1>b. ASSUME NEW f \in Flows, NEW st \in States
      PROVE  [exec EXCEPT ![w][f] = st] \in [Workers -> [Flows -> States]]
  OBVIOUS
<1> HIDE DEF States
<1>1. ASSUME NEW f \in Flows, FlowNext(w, f)
      PROVE  FlowTypeOK'
  <2>1. todo' \in [Workers -> SUBSET Flows] /\ attempt' \in [Workers -> Nat]
    BY <1>1 DEF FlowNext
  <2>2. flow' \in [Workers -> Flows \cup {NoFlow}] /\ UNCHANGED dispatches
    <3>1. flow' = [flow EXCEPT ![w] = f] \/ flow' = flow
      BY <1>1 DEF FlowNext
    <3>2. UNCHANGED dispatches
      BY <1>1 DEF FlowNext
    <3> HIDE <1>1
    <3> QED  BY <3>1, <3>2
  <2>3. exec' \in [Workers -> [Flows -> States]]
    <3>1. PICK st \in {"running", "skipped", "failed"} : exec' = [exec EXCEPT ![w][f] = st]
      BY <1>1 DEF FlowNext
    <3>2. st \in States
      BY <1>a, <3>1
    <3> QED  BY <1>b, <3>1, <3>2
  <2> QED  BY <2>1, <2>2, <2>3 DEF States
<1>2. ASSUME FlowAttempt(w, caller)
      PROVE  FlowTypeOK'
  <2>1. flow[w] \in Flows
    BY <1>2 DEF FlowAttempt
  <2>2. dispatches' \in [Workers -> [Flows -> Nat]] /\ UNCHANGED todo
    <3>1. [dispatches EXCEPT ![w][flow[w]] = @ + 1] \in [Workers -> [Flows -> Nat]]
      BY <2>1
    <3> QED  BY <1>2, <3>1 DEF FlowAttempt
  <2>3. attempt' \in [Workers -> Nat] /\ flow' \in [Workers -> Flows \cup {NoFlow}]
    <3>1. \/ attempt' = [attempt EXCEPT ![w] = @ + 1] /\ flow' = flow
          \/ attempt' = [attempt EXCEPT ![w] = 0] /\ flow' = [flow EXCEPT ![w] = NoFlow]
      BY <1>2 DEF FlowAttempt, FlowSettles
    <3> QED  BY <3>1
  <2>4. exec' \in [Workers -> [Flows -> States]]
    <3>1. \/ UNCHANGED exec
          \/ \E st \in {"success", "failed"} : exec' = [exec EXCEPT ![w][flow[w]] = st]
      BY <1>2 DEF FlowAttempt, FlowSettles
    <3>2. CASE UNCHANGED exec
      BY <3>2 DEF States
    <3>3. ASSUME NEW st \in {"success", "failed"}, exec' = [exec EXCEPT ![w][flow[w]] = st]
          PROVE  exec' \in [Workers -> [Flows -> States]]
      BY <1>a, <1>b, <2>1, <3>3
    <3> QED  BY <3>1, <3>2, <3>3
  <2> QED  BY <2>2, <2>3, <2>4 DEF States
<1> QED  BY <1>1, <1>2

\* Every step keeps the types.
LEMMA TypeNext == Inv /\ [Next]_vars => TypeOK'
<1> SUFFICES ASSUME Inv, [Next]_vars
             PROVE  TypeOK'
  OBVIOUS
<1> USE IntakeAssumption DEF Inv, TypeOK, Answers, Goto
<1>a. UNCHANGED flowVars => FlowTypeOK'
  BY DEF flowVars, FlowTypeOK
<1>b. \A w \in Workers : Released(w) =>
        /\ FlowTypeOK'
        /\ lock' \in [Requests -> Workers \cup {NoWorker}]
        /\ row' \in [Workers -> Requests \cup {NoWorker}]
        /\ seen' \in [Workers -> Nat]
        /\ UNCHANGED <<req, dedup, attempts, accepted, earlier>>
  BY FlowTypeStart DEF Released
<1>1. ASSUME NEW r \in Requests, Handle(r) \/ RequestFails(r)
      PROVE  TypeOK'
  <2>1. CASE Receive(r)
    BY <1>a, <2>1 DEF Receive
  <2>2. CASE CheckDedup(r)
    BY <1>a, <2>2 DEF CheckDedup
  <2>3. CASE MarkDedup(r)
    BY <1>a, <2>3 DEF MarkDedup, Ids, Keys
  <2>4. CASE Commit(r)
    BY <1>a, <2>4 DEF Commit, Ids
  <2>5. CASE RequestFails(r)
    BY <1>a, <2>5 DEF RequestFails
  <2> QED  BY <1>1, <2>1, <2>2, <2>3, <2>4, <2>5 DEF Handle
<1>2. ASSUME NEW i \in Ids, Expire(i)
      PROVE  TypeOK'
  BY <1>a, <1>2 DEF Expire
<1>3. ASSUME NEW w \in Workers, LoadEvent(w)
      PROVE  TypeOK'
  BY <1>a, <1>3 DEF LoadEvent
<1>4. ASSUME NEW w \in Workers, NEW r \in Requests, Replay(w, r)
      PROVE  TypeOK'
  BY <1>a, <1>4 DEF Replay
<1>5. ASSUME NEW w \in Workers, BeginProcessing(w)
      PROVE  TypeOK'
  <2>1. row[w] \in Requests
    BY <1>5 DEF BeginProcessing, Holders
  <2> QED  BY <1>5, <2>1, FlowTypeStart DEF BeginProcessing
<1>6. ASSUME NEW w \in Workers, BeginEvent(w)
      PROVE  TypeOK'
  BY <1>6, FlowTypeStart DEF BeginEvent
<1>7. ASSUME NEW w \in Workers, RunFlows(w)
      PROVE  TypeOK'
  BY <1>7, FlowTypeRun DEF RunFlows, intakeVars
<1>8. ASSUME NEW w \in Workers, NEW ok \in BOOLEAN, StoreOutcome(w, ok)
      PROVE  TypeOK'
  <2>1. row[w] \in Requests
    BY <1>8 DEF StoreOutcome
  <2>2. Released(w)
    BY <1>8 DEF StoreOutcome
  <2> QED  BY <1>8, <1>b, <2>1, <2>2 DEF StoreOutcome
<1>9. ASSUME NEW w \in Workers, EventAnswered(w) \/ WorkerDies(w)
      PROVE  TypeOK'
  BY <1>9, <1>b DEF EventAnswered, WorkerDies
<1>10. CASE UNCHANGED vars
  BY <1>10, <1>a DEF vars, intakeVars
<1> QED  BY <1>1, <1>2, <1>3, <1>4, <1>5, <1>6, <1>7, <1>8, <1>9, <1>10 DEF Next, Run

\* A lock is taken with the step to "busy" and given up with it.
LEMMA HoldersNext == Inv /\ [Next]_vars => Holders'
<1> SUFFICES ASSUME Inv, [Next]_vars
             PROVE  Holders'
  OBVIOUS
<1> USE IntakeAssumption DEF Inv, TypeOK, Holders, Goto
<1>1. ASSUME NEW r \in Requests, Handle(r) \/ RequestFails(r)
      PROVE  Holders'
  <2>1. CASE Commit(r)
    BY <2>1 DEF Commit, Keys
  <2>2. CASE Receive(r) \/ CheckDedup(r) \/ MarkDedup(r) \/ RequestFails(r)
    BY <2>2 DEF Receive, CheckDedup, MarkDedup, RequestFails
  <2> QED  BY <1>1, <2>1, <2>2 DEF Handle
<1>2. ASSUME NEW i \in Ids, Expire(i)
      PROVE  Holders'
  BY <1>2 DEF Expire
<1>3. ASSUME NEW w \in Workers, LoadEvent(w)
      PROVE  Holders'
  BY <1>3 DEF LoadEvent
<1>4. ASSUME NEW w \in Workers, NEW r \in Requests, Replay(w, r)
      PROVE  Holders'
  BY <1>4 DEF Replay
<1>5. ASSUME NEW w \in Workers, BeginProcessing(w)
      PROVE  Holders'
  BY <1>5 DEF BeginProcessing
<1>6. ASSUME NEW w \in Workers, BeginEvent(w)
      PROVE  Holders'
  BY <1>6 DEF BeginEvent
<1>7. ASSUME NEW w \in Workers, RunFlows(w)
      PROVE  Holders'
  BY <1>7 DEF RunFlows, intakeVars
<1>8. ASSUME NEW w \in Workers, Released(w), 
             work'[w] \notin {"read", "busy"},
             w \in Sessions => work'[w] = "idle",
             w \in Requests => req[w] = "accepted",
             \A v \in Workers \ {w} : work'[v] = work[v]
      PROVE  Holders'
  <2>1. \A r \in Requests : lock'[r] # w
    BY <1>8 DEF Released
  <2>2. \A r \in Requests, v \in Workers \ {w} : lock'[r] = v <=> lock[r] = v
    BY <1>8 DEF Released
  <2>3. \A v \in Workers \ {w} : row'[v] = row[v] /\ work'[v] = work[v]
    BY <1>8 DEF Released
  <2> QED  BY <1>8, <2>1, <2>2, <2>3 DEF Released
<1>9. ASSUME NEW w \in Workers, NEW ok \in BOOLEAN,
             StoreOutcome(w, ok) \/ EventAnswered(w) \/ WorkerDies(w)
      PROVE  Holders'
  <2>1. Released(w) /\ work[w] # "idle"
    BY <1>9 DEF StoreOutcome, EventAnswered, WorkerDies, Returned
  <2>2. \/ work' = [work EXCEPT ![w] = IF w \in Sessions THEN "idle" ELSE "done"]
        \/ work' = [work EXCEPT ![w] = IF w \in Sessions THEN "idle" ELSE "dead"]
        \/ work' = [work EXCEPT ![w] = "idle"]
    BY <1>9 DEF StoreOutcome, EventAnswered, WorkerDies
  <2>3. w \in Requests => req[w] = "accepted"
    BY <2>1
  <2> QED  BY <1>8, <2>1, <2>2, <2>3
<1>10. CASE UNCHANGED vars
  BY <1>10 DEF vars, intakeVars
<1> QED  BY <1>1, <1>2, <1>3, <1>4, <1>5, <1>6, <1>7, <1>9, <1>10 DEF Next, Run

\* Only a request that found no key sets one, and only expiry removes it.
LEMMA KeysNext == Inv /\ [Next]_vars => Keys'
<1> SUFFICES ASSUME Inv, [Next]_vars
             PROVE  Keys'
  OBVIOUS
<1> USE IntakeAssumption DEF Inv, TypeOK, Keys, Goto
<1>1. ASSUME NEW r \in Requests, Receive(r)
      PROVE  Keys'
  BY <1>1 DEF Receive, Ids, Holders
<1>2. ASSUME NEW r \in Requests, CheckDedup(r)
      PROVE  Keys'
  BY <1>2 DEF CheckDedup
<1>3. ASSUME NEW r \in Requests, MarkDedup(r)
      PROVE  Keys'
  BY <1>3 DEF MarkDedup
<1>4. ASSUME NEW r \in Requests, Commit(r)
      PROVE  Keys'
  BY <1>4 DEF Commit, Holders
<1>5. ASSUME NEW r \in Requests, RequestFails(r)
      PROVE  Keys'
  BY <1>5 DEF RequestFails
<1>6. ASSUME NEW i \in Ids, Expire(i)
      PROVE  Keys'
  BY <1>6 DEF Expire
<1>7. ASSUME UNCHANGED <<req, dedup, accepted, earlier>>,
             \A r \in Requests : status'[r] # "absent" <=> status[r] # "absent",
             \A w \in Workers :
                 work'[w] # "idle" /\ row'[w] # NoWorker => req[row'[w]] = "accepted"
      PROVE  Keys'
  BY <1>7
<1>8. ASSUME NEW w \in Workers,
             LoadEvent(w) \/ BeginProcessing(w) \/ BeginEvent(w) \/ RunFlows(w)
      PROVE  Keys'
  BY <1>7, <1>8 DEF LoadEvent, BeginProcessing, BeginEvent, RunFlows, intakeVars, Holders
<1>9. ASSUME NEW w \in Workers, NEW r \in Requests, Replay(w, r)
      PROVE  Keys'
  BY <1>7, <1>9 DEF Replay
<1>11. ASSUME NEW w \in Workers, NEW ok \in BOOLEAN,
              StoreOutcome(w, ok) \/ EventAnswered(w) \/ WorkerDies(w)
       PROVE  Keys'
  <2>1. Released(w) /\ work[w] # "idle"
    BY <1>11 DEF StoreOutcome, EventAnswered, WorkerDies, Returned
  <2>2. \E st : work' = [work EXCEPT ![w] = st]
    BY <1>11 DEF StoreOutcome, EventAnswered, WorkerDies
  <2>3. \A r \in Requests : status'[r] # "absent" <=> status[r] # "absent"
    <3>1. CASE StoreOutcome(w, ok)
      <4>1. row[w] \in Requests /\ status[row[w]] # "absent"
        BY <2>1, <3>1 DEF StoreOutcome
      <4>2. \E st : st # "absent" /\ status' = [status EXCEPT ![row[w]] = st]
        BY <3>1 DEF StoreOutcome
      <4> QED  BY <4>1, <4>2
    <3> QED  BY <1>11, <3>1 DEF EventAnswered, WorkerDies
  <2>4. \A v \in Workers :
          work'[v] # "idle" /\ row'[v] # NoWorker => req[row'[v]] = "accepted"
    BY <2>1, <2>2 DEF Released
  <2> QED  BY <1>7, <2>1, <2>3, <2>4 DEF Released
<1>10. CASE UNCHANGED vars
  BY <1>10 DEF vars, intakeVars
<1> QED
  BY <1>1, <1>2, <1>3, <1>4, <1>5, <1>6, <1>8, <1>9, <1>10, <1>11 DEF Next, Handle, Run

\* Every count stored was read before a processing that has begun since.
LEMMA CountsNext == Inv /\ [Next]_vars => Counts'
<1> SUFFICES ASSUME Inv, [Next]_vars
             PROVE  Counts'
  OBVIOUS
<1> USE IntakeAssumption DEF Inv, TypeOK, Counts
<1>1. ASSUME NEW r \in Requests, Handle(r) \/ RequestFails(r)
      PROVE  Counts'
  BY <1>1 DEF Handle, Receive, CheckDedup, MarkDedup, Commit, RequestFails
<1>2. ASSUME NEW i \in Ids, Expire(i)
      PROVE  Counts'
  BY <1>2 DEF Expire
<1>3. ASSUME NEW w \in Workers, LoadEvent(w)
      PROVE  Counts'
  BY <1>3 DEF LoadEvent, Holders
<1>4. ASSUME NEW w \in Workers, NEW r \in Requests, Replay(w, r)
      PROVE  Counts'
  BY <1>4 DEF Replay
<1>5. ASSUME NEW w \in Workers, BeginProcessing(w)
      PROVE  Counts'
  <2>1. row[w] \in Requests
    BY <1>5 DEF BeginProcessing, Holders
  <2>2. \A r \in Requests : attempts'[r] >= attempts[r]
    BY <1>5, <2>1 DEF BeginProcessing
  <2>3. attempts'[row[w]] = attempts[row[w]] + 1
    BY <1>5, <2>1 DEF BeginProcessing
  <2> QED  BY <1>5, <2>1, <2>2, <2>3 DEF BeginProcessing, Holders
<1>6. ASSUME NEW w \in Workers, BeginEvent(w)
      PROVE  Counts'
  BY <1>6 DEF BeginEvent, Holders
<1>7. ASSUME NEW w \in Workers, RunFlows(w)
      PROVE  Counts'
  BY <1>7 DEF RunFlows, intakeVars
<1>8. ASSUME NEW w \in Workers, NEW ok \in BOOLEAN, StoreOutcome(w, ok)
      PROVE  Counts'
  <2>1. row[w] \in Requests /\ seen[w] + 1 <= attempts[row[w]]
    BY <1>8 DEF StoreOutcome, Returned
  <2>2. \A r \in Requests : retries'[r] <= attempts[r]
    BY <1>8, <2>1 DEF StoreOutcome
  <2> QED  BY <1>8, <2>2 DEF StoreOutcome, Released
<1>9. ASSUME NEW w \in Workers, EventAnswered(w) \/ WorkerDies(w)
      PROVE  Counts'
  <2>1. \E st \in {"idle", "dead"} : work' = [work EXCEPT ![w] = st]
    BY <1>9 DEF EventAnswered, WorkerDies
  <2>2. UNCHANGED <<retries, attempts>> /\ Released(w)
    BY <1>9 DEF EventAnswered, WorkerDies, Released
  <2> QED  BY <2>1, <2>2 DEF Released
<1>10. CASE UNCHANGED vars
  BY <1>10 DEF vars, intakeVars
<1> QED  BY <1>1, <1>2, <1>3, <1>4, <1>5, <1>6, <1>7, <1>8, <1>9, <1>10 DEF Next, Run

\* The invariant holds in every reachable state.
THEOREM Invariant == Spec => []Inv
<1>1. Init => Inv
  <2> SUFFICES ASSUME Init
               PROVE  Inv
    OBVIOUS
  <2> USE IntakeAssumption DEF Init
  <2>1. TypeOK
    BY FlowTypeStart DEF TypeOK, Answers
  <2>2. Holders
    BY DEF Holders
  <2>3. Keys
    BY DEF Keys
  <2>4. Counts
    BY DEF Counts
  <2> QED  BY <2>1, <2>2, <2>3, <2>4 DEF Inv
<1>2. Inv /\ [Next]_vars => Inv'
  BY TypeNext, HoldersNext, KeysNext, CountsNext DEF Inv
<1> QED  BY <1>1, <1>2, PTL DEF Spec

\* Requests, rows, locks, counters and flow executions stay well typed.
THEOREM TypeCorrect == Spec => []TypeOK
<1>1. Inv => TypeOK
  BY DEF Inv
<1> QED  BY <1>1, Invariant, PTL

\* The background task and any number of replays of one stored event never
\* run its flows at the same time.
THEOREM ProcessingExcludes == Spec => []SingleProcessing
<1>1. Inv => SingleProcessing
  BY IntakeAssumption DEF Inv, TypeOK, Holders, SingleProcessing
<1> QED  BY <1>1, Invariant, PTL

\* A delivery that arrives after an accepted one is not stored while the key
\* lives, however many deliveries race and whatever fails.
THEOREM LateDuplicatesRefused == Spec => []NoLateDuplicate
<1>1. Inv => NoLateDuplicate
  BY DEF Inv, Keys, NoLateDuplicate
<1> QED  BY <1>1, Invariant, PTL

\* retry_count never exceeds the processings begun, although each session
\* computes it from a value it read before it waited for the row.
THEOREM RetriesBacked == Spec => []RetriesHappened
<1>1. Inv => RetriesHappened
  BY DEF Inv, Counts, RetriesHappened
<1> QED  BY <1>1, Invariant, PTL

-----------------------------------------------------------------------------
(* A processed event has settled its flows *)

\* Every flow of the event a worker is busy with is still to come, is the one
\* that is executed, or is settled.
Accounted ==
    \A w \in Workers : work[w] = "busy" =>
        \A f \in Flows : f \in todo[w] \/ f = flow[w] \/ exec[w][f] \in Settled

LEMMA AccountedNext ==
    ASSUME Inv, Accounted, [Next]_vars
    PROVE  Accounted'
<1> USE IntakeAssumption, FlowAssumption
<1>1. TypeOK /\ FlowTypeOK BY DEF Inv, TypeOK
<1>2. ASSUME UNCHANGED flowVars, \A w \in Workers : work'[w] = "busy" => work[w] = "busy"
      PROVE  Accounted'
      BY <1>2 DEF flowVars, Accounted
<1>3. ASSUME NEW w \in Workers, FlowsBegin(w),
             \A v \in Workers \ {w} : work'[v] = "busy" => work[v] = "busy"
      PROVE  Accounted'
      BY <1>1, <1>3 DEF FlowsBegin, FlowTypeOK, Accounted
<1>4. ASSUME NEW w \in Workers, FlowsForget(w), work'[w] # "busy",
             \A v \in Workers \ {w} : work'[v] = "busy" => work[v] = "busy"
      PROVE  Accounted'
      BY <1>1, <1>4 DEF FlowsForget, FlowTypeOK, Accounted
<1>5. ASSUME NEW w \in Workers, RunFlows(w) PROVE Accounted'
      <2>1. work' = work /\ work[w] = "busy" BY <1>5 DEF RunFlows, intakeVars
      <2>2. ASSUME NEW f \in Flows, FlowNext(w, f) PROVE Accounted'
            <3>1. PICK st \in {"running", "skipped", "failed"} :
                     /\ exec' = [exec EXCEPT ![w][f] = st]
                     /\ st = "running" => flow' = [flow EXCEPT ![w] = f]
                     /\ st # "running" => flow' = flow
                  BY <2>2 DEF FlowNext
            <3>2. flow[w] = NoFlow /\ todo' = [todo EXCEPT ![w] = @ \ {f}]
                  BY <2>2 DEF FlowNext
            <3>3. \A v \in Workers \ {w} :
                     todo'[v] = todo[v] /\ flow'[v] = flow[v] /\ exec'[v] = exec[v]
                  BY <1>1, <3>1, <3>2 DEF FlowTypeOK
            <3>4. /\ todo'[w] = todo[w] \ {f} /\ exec'[w][f] = st
                  /\ \A g \in Flows \ {f} : exec'[w][g] = exec[w][g]
                  /\ st = "running" => flow'[w] = f
                  BY <1>1, <3>1, <3>2 DEF FlowTypeOK
            <3>5. ASSUME NEW g \in Flows
                  PROVE  g \in todo'[w] \/ g = flow'[w] \/ exec'[w][g] \in Settled
                  <4>1. CASE g = f BY <3>1, <3>4, <4>1 DEF Settled
                  <4>2. CASE g # f
                        <5>1. g \in todo[w] \/ exec[w][g] \in Settled
                              BY <2>1, <3>2, <4>2 DEF Accounted
                        <5> QED BY <3>4, <4>2, <5>1
                  <4> QED BY <4>1, <4>2
            <3> QED BY <2>1, <3>3, <3>5 DEF Accounted
      <2>3. ASSUME FlowAttempt(w, Caller(w)) PROVE Accounted'
            <3>1. todo' = todo /\ flow[w] \in Flows
                  BY <1>1, <2>3 DEF FlowAttempt, FlowTypeOK
            <3>2. \/ UNCHANGED <<flow, exec>>
                  \/ \E st \in {"success", "failed"} :
                        /\ exec' = [exec EXCEPT ![w][flow[w]] = st]
                        /\ flow' = [flow EXCEPT ![w] = NoFlow]
                  BY <2>3 DEF FlowAttempt, FlowSettles
            <3>3. CASE UNCHANGED <<flow, exec>> BY <2>1, <3>1, <3>3 DEF Accounted
            <3>4. ASSUME NEW st \in {"success", "failed"},
                         exec' = [exec EXCEPT ![w][flow[w]] = st],
                         flow' = [flow EXCEPT ![w] = NoFlow]
                  PROVE  Accounted'
                  <4>1. \A v \in Workers \ {w} : flow'[v] = flow[v] /\ exec'[v] = exec[v]
                        BY <1>1, <3>4 DEF FlowTypeOK
                  <4>2. /\ exec'[w][flow[w]] = st
                        /\ \A g \in Flows \ {flow[w]} : exec'[w][g] = exec[w][g]
                        BY <1>1, <3>1, <3>4 DEF FlowTypeOK
                  <4>3. st \in Settled BY DEF Settled
                  <4>4. \A g \in Flows : g \in todo[w] \/ exec'[w][g] \in Settled
                        BY <2>1, <4>2, <4>3 DEF Accounted
                  <4> QED BY <2>1, <3>1, <4>1, <4>4 DEF Accounted
            <3> QED BY <3>2, <3>3, <3>4
      <2> QED BY <1>5, <2>2, <2>3 DEF RunFlows
<1>6. ASSUME NEW r \in Requests, Handle(r) \/ RequestFails(r) PROVE Accounted'
      BY <1>1, <1>2, <1>6 DEF Handle, Receive, CheckDedup, MarkDedup, Commit, RequestFails, TypeOK
<1>7. ASSUME NEW i \in Ids, Expire(i) PROVE Accounted' BY <1>2, <1>7 DEF Expire
<1>8. ASSUME NEW w \in Workers, LoadEvent(w) \/ \E r \in Requests : Replay(w, r)
      PROVE  Accounted'
      BY <1>1, <1>2, <1>8 DEF LoadEvent, Replay, TypeOK
<1>9. ASSUME NEW w \in Workers, BeginProcessing(w) \/ BeginEvent(w) PROVE Accounted'
      BY <1>1, <1>3, <1>9 DEF BeginProcessing, BeginEvent, TypeOK
<1>10. ASSUME NEW w \in Workers,
              (\E ok \in BOOLEAN : StoreOutcome(w, ok)) \/ EventAnswered(w) \/ WorkerDies(w)
      PROVE  Accounted'
      <2>1. FlowsForget(w) /\ \E st \in {"idle", "done", "dead"} : work' = [work EXCEPT ![w] = st]
            BY <1>10 DEF StoreOutcome, EventAnswered, WorkerDies, Released
      <2> QED BY <1>1, <1>4, <2>1 DEF TypeOK
<1>11. CASE UNCHANGED vars BY <1>2, <1>11 DEF vars, intakeVars
<1> QED BY <1>5, <1>6, <1>7, <1>8, <1>9, <1>10, <1>11 DEF Next, Run

\* process_webhook_async and replay_webhook: an event becomes "processed" only
\* when the session that says so has settled every flow of it, whatever the other
\* sessions with the same row do meanwhile.
THEOREM ProcessedIsSettled == Spec => ProcessedSettlesFlows
<1> DEFINE Becomes(r) == status'[r] = "processed" /\ status'[r] # status[r]
           Done(r) == \E w \in Workers :
                          /\ work[w] = "busy" /\ row[w] = r /\ work'[w] # "busy"
                          /\ \A f \in Flows : exec[w][f] \in Settled
<1> USE IntakeAssumption, FlowAssumption
<1>1. ASSUME Inv, Accounted, [Next]_vars
      PROVE  [\A r \in Requests : Becomes(r) => Done(r)]_vars
      <2> SUFFICES ASSUME NEW r \in Requests, Becomes(r), Next PROVE Done(r)
          BY <1>1
      <2>1. TypeOK BY <1>1 DEF Inv
      <2>2. PICK w \in Workers, ok \in BOOLEAN : StoreOutcome(w, ok)
            <3>1. \A q \in Requests : ~Commit(q) BY <2>1 DEF Commit, TypeOK
            <3>2. ASSUME NEW q \in Requests, Handle(q) \/ RequestFails(q) PROVE FALSE
                  BY <3>1, <3>2 DEF Handle, Receive, CheckDedup, MarkDedup, RequestFails
            <3>3. \A i \in Ids : ~Expire(i) BY DEF Expire
            <3>4. \A v \in Workers :
                     /\ ~LoadEvent(v) /\ ~BeginProcessing(v) /\ ~RunFlows(v)
                     /\ ~EventAnswered(v) /\ ~BeginEvent(v) /\ ~WorkerDies(v)
                     /\ \A q \in Requests : ~Replay(v, q)
                  BY DEF LoadEvent, BeginProcessing, RunFlows, intakeVars, EventAnswered,
                         BeginEvent, WorkerDies, Replay
            <3> QED BY <3>2, <3>3, <3>4 DEF Next, Run
      <2>3. /\ row[w] \in Requests /\ work[w] = "busy" /\ work'[w] # "busy"
            /\ ok => FlowsDone(w)
            BY <2>1, <2>2 DEF StoreOutcome, Returned, TypeOK
      <2>4. ok /\ r = row[w]
            <3>1. PICK st \in {"dead_letter", "failed"} :
                     status' = [status EXCEPT ![row[w]] = IF ok THEN "processed" ELSE st]
                  BY <2>2 DEF StoreOutcome
            <3> QED BY <2>1, <2>3, <3>1 DEF TypeOK
      <2>5. \A f \in Flows : exec[w][f] \in Settled
            BY <1>1, <2>3, <2>4 DEF Accounted, FlowsDone
      <2> QED BY <2>3, <2>4, <2>5
<1>2. Inv /\ Accounted /\ [Next]_vars => [\A r \in Requests : Becomes(r) => Done(r)]_vars
      BY <1>1
<1>3. Init => Accounted BY DEF Init, Accounted
<1>4. Inv /\ Accounted /\ [Next]_vars => Accounted' BY AccountedNext
<1>5. Spec => [][\A r \in Requests : Becomes(r) => Done(r)]_vars
      BY <1>2, <1>3, <1>4, Invariant, PTL DEF Spec
<1> QED BY <1>5 DEF ProcessedSettlesFlows

=============================================================================

# Verification of the Open Integration Platform

TLA+ models of the parts of the platform that move data between systems: the
ledger that decides whether an event is synchronised, the engine that executes
workflow graphs, the intake of webhooks and events with the flow engine behind
it, the Kafka bridge, the life of OAuth2 tokens, the dispatch of actions to
connectors, and the on-premise agent. TLC checks the models on small instances, TLAPS proves
the central safety properties for every value of the constants. `PROJECT.json`
lists components, runs, mutants, the map from definitions to source lines,
findings, hazards and theorems. Paths below are relative to the repository.

Run a check with `tlc -config <run>.cfg <module>`, a proof with
`tlapm <module>.tla`.

## 1. The system

| component | state it keeps | operations | interacts with |
|---|---|---|---|
| gateway (`platform/api/gateway.py`) | none of its own | REST endpoints; starts bridge, scheduler, monitors | calls every component, one database session per request |
| sync ledger (`core/sync_state.py`) | rows of `sync_ledger`: status, hash, attempts | `should_sync`, `record_success`, `record_failure`, `reset_failed`, `clear_ledger` | called by the workflow engine and by maintenance endpoints; row locks of PostgreSQL |
| workflow engine (`core/workflow_engine.py`) | call stacks of coroutines; `workflow_executions` rows | `process_event`, `execute_workflow`, `rerun_from_node`, node executors | ledger, action dispatcher, itself through sub-workflows |
| flow engine (`core/flow_engine.py`) | `flow_executions` rows | `process_event`, `execute_flow` | called by event, webhook, replay endpoints and the bridge, each with its own action function |
| webhook ingestion (`core/webhook_ingestion.py`) | `webhook_events` rows; dedup keys in Redis | ingest, process in the background, replay | both engines; one background task per event |
| Kafka bridge (`core/kafka_event_consumer.py`, `pinquark_common/kafka/consumer.py`) | positions, committed offsets | start, stop, consume, reconnect, handle for every tenant | consumer group of gateway replicas; both engines |
| action dispatcher (`core/action_dispatcher.py`) | none | provision the account, send, repeat on 429, time out | rate limiter before it, connector behind it |
| connector rate limiter (`core/connector_rate_limiter.py`) | token buckets in Redis | `check` | shared by all replicas |
| connector SDK (`sdk/python/pinquark_connector_sdk`) | in memory: breaker, accounts, token bucket | admit, call the host with retries, open and close the breaker | dispatcher, the connector's host |
| connector health monitor (`core/connector_health.py`) | failure counts in memory, `is_enabled` rows | poll, count, disable | one per replica; activation endpoint |
| OAuth2 manager and refresher (`core/oauth2_manager.py`, `oauth2_refresher.py`) | token rows, credential rows, states in Redis | authorize, exchange, refresh, revoke | gateway, background loop, provider |
| workflow scheduler, audit trail and versions | in-memory jobs; version rows | register, run, snapshot, roll back | workflow endpoints |
| nexo agent (`onpremise/nexo-agent`) | SQLite queue, sync state | list, enqueue, flush, reconnect, heartbeat | InsERT nexo, the cloud platform |
| connector pollers (`integrators/*/*/*/src/*/scraper.py`, `poller.py`) | checkpoints, snapshots | poll a source, publish | Kafka, the event endpoint |
| registries, mapping, vault, redactor, SDK, connectors, dashboard, deployment | configuration and data | lookups, conversions, I/O | - |

What is hard here:

* **Concurrency between sessions.** Requests, background tasks, replicas and
  Kafka handlers work on the same rows. Only PostgreSQL row locks, Redis keys
  and unique constraints keep them apart, and they are held until a commit at
  the very end of a request.
* **Exceptions as control flow.** The workflow engine runs the successors of a
  node inside that node's `try` block; every failure travels through the
  retry, continue, ignore and handler policies of all its ancestors.
* **Crashes between two stores.** Redis is written before PostgreSQL commits,
  executions before outcomes, the session before the Kafka offset.
* **Swallowed failures.** Flows, tenants and handlers fail into log lines; what
  is recorded afterwards must still be true.
* **Things that must eventually happen**: a failed entry is retried, an accepted
  webhook is processed, a message is handled, an execution ends, a token is
  refreshed, a breaker closes, the cloud catches up with the ERP.
* **Check here, act there.** The limiter reads and writes in two round trips, a
  refresh token is read long before the row is locked, a poll's result is used
  after the row may have changed, and a timeout reports a failure of something
  that goes on.

The properties that make each component correct are listed with its module in
section 3; `PROJECT.json` lists every hazard with its line.

## 2. Plan

Modules in order of importance; at most twelve runs are kept in all, so each
component has one passing run, and a second one only for a real disagreement
between code and documentation.

| order | module | runs | proofs | state |
|---|---|---|---|---|
| 1 | `SyncLedger` | 3 | `SyncLedgerProofs` | done |
| 2 | `WorkflowEngine` | 2 | `WorkflowProofs`, `WorkflowEffectsProofs` | done |
| 3 | `FlowEngine`, composed in `WebhookIngestion` | 2 | `WebhookProofs` | done |
| 4 | `KafkaBridge` | 2 | `KafkaProofs` | done |
| 5 | `OAuthTokens` | 1 | `OAuthProofs` | done |
| 6 | `ConnectorHttp`, `ConnectorRateLimiter`, `HealthMonitor`, composed in `ActionDispatch` | 1 | `DispatchProofs` | done |
| 7 | `NexoAgent`, refining `Outbox` | 1 | `NexoAgentProofs` | done |

Left: a module for the pollers of the connectors in front of `KafkaBridge`;
scheduler and version history. Each would be the thirteenth run or take the place
of one.

## 3. Modules, state and actions

### SyncLedger (`MCSyncLedger`, `SyncLedgerProofs`)

A transaction `t` is one request or Kafka message with its own session. `ledger`
holds committed rows, `wrote` the uncommitted ones, `lock` the owner of a row or
unique key. `BeginEvent`/`NextWorkflow` are `process_event` with its matched
workflows in the order of an unordered SELECT; `SelectNone`, `SelectForUpdate`,
`InsertPending` and `InsertConflict` are `should_sync`; `Execute` is the
workflow (success or failure); `RecordUpdate`, `RecordAdd`, `FlushAdd`,
`FlushConflict` are the record functions with and without a `ledger_id`;
`ResetFailed` and `ClearLedger` the maintenance endpoints. PostgreSQL is READ
COMMITTED: locks live until the transaction ends, a cycle of waiters is broken
by `DeadlockAbort`, `Crash` loses a session.

Properties: `MutualExclusion` (two admitted executions never run for one key),
`NoRedundantExecution` (an admitted execution never runs for a content that is
committed as synced), `SyncedWasDelivered` (a synced row names a delivered
content), `LockProtectsRow` (nobody else changes a row that stays locked),
`LedgerMatchesTarget` (without direct executions and crashes, a synced row names
what the target holds), `FailedIsRetried` (a failed entry gets the attempts that
`max_retries` promises, or leaves the failed state before).

### WorkflowEngine (`MCWorkflowEngine`, `WorkflowProofs`, `WorkflowEffectsProofs`)

A coroutine's state is its call stack (`stack`), and how the innermost call
ended (`mode`, `exc`). A frame is an invocation of `_execute_nodes` or
`_execute_single_node` stopped at one of its awaits. Executors succeed or raise;
`CatchFirst`, `Retry`, `CatchRetry`, `HandleFailure` are the except clauses;
loops, sub-workflows, parallel branches and batch items push frames or start
coroutines; `JoinTimeout`, `ChildTimeout`, `GlobalTimeout` are the
`asyncio.wait_for` limits. `Start` begins at the trigger or, for
`rerun_from_node`, at any node of `Starts`. The event loop has no limit on
coroutines; the model has the set `Tasks`, and a step that needs more coroutines
than are free (`Available`) waits.

Properties: `NoOrphanTasks`, `ChainAcyclic`, `NoRepeatedEffects`,
`FailureHasCause`, `ErrorNodeRecorded`, and the liveness property
`ExecutionEnds`.

### FlowEngine and WebhookIngestion (`MCWebhookIngestion`, `WebhookProofs`)

`FlowEngine` is the state of one worker in `process_event`: flows to do, the
flow in execution, the attempt, the execution's status. Its actions are
composed into `WebhookIngestion`, which `EXTENDS` it and says who calls it.
`Parameters` and `Keywords` model Python's keyword binding between
`execute_flow` and the action function of each caller, because that decides
whether anything is dispatched.

A webhook request `r` passes `Receive` (tenant, JSON and signature checks),
`CheckDedup`, `MarkDedup` and `Commit`, which also creates the background task;
`RequestFails` may strike between any two. `LoadEvent`, `BeginProcessing` (the
flushed "processing" waits for the row lock and keeps it), `RunFlows` and
`StoreOutcome` are `process_webhook_async`, and with `Replay` also
`replay_webhook`; `BeginEvent`/`EventAnswered` are the event endpoint;
`WorkerDies` loses a session. `Insert` has no action: the flushed row is
invisible until `Commit`. A request that fails after the commit is a task that
dies while queued.

Properties: `SingleProcessing`, `NoLateDuplicate`, `RetriesHappened`,
`ProcessedSettlesFlows`, `AcceptedIsProcessed`.

### KafkaBridge (`MCKafkaBridge`, `KafkaProofs`)

Each gateway replica is a bridge `b` at a place of `_consume_loop`; `owner`,
`position` and `committed` are the consumer group. `Deliver`, `CommitOffsets`
and the outcomes `Returns`/`Raises` are `consume`; `Handle`, `ProcessTenant`,
`CommitSession` are `_handle_message` with one savepoint per tenant;
`Start`, `Stop`, `ConsumeRaises`, `Reconnect` the life of the bridge. Two failures
are for good ("off"): the first start, and `stop()` of the old consumer in a
reconnect, which leaves a closed consumer whose `consume` returns at once. The broker is external: a rebalance resets
every position to the committed offset, also under a running handler.

Properties: `CommittedWasHandled`, `TenantsSettled`, `CommittedForward`,
`EventuallyHandled`.

### OAuthTokens (`MCOAuthTokens`, `OAuthProofs`)

One credential with several authorizations, each a row. A session `s` is a
request or a refresher's cycle: `seen` is what it loaded, `change` and `copied`
what it has flushed, `lock` the holder of a row or of the credential rows
(`Vault`). `Authorize`, `Callback`, `ConsumeState` (GET and DEL of the state),
`ExchangeCode`, `InsertRow` are the authorization; `RefresherBegins`,
`ManualRefresh`, `ActionNeedsToken` load a row, `Post` sends its refresh token,
`FlushRow` and `StoreVault` store the answer, `Commit` or `EndDispatch` end the
session, `Revoke` revokes. Three details of the source decide the properties.
SQLAlchemy sends only the columns whose value changed (`Columns`): a refresh
that was under way when a row was revoked does not reactivate it, except by the
manual endpoint, which sets the status itself. A refresher commits once, after
all rows, so a crash or a deadlock loses the rotated tokens of every row it had
refreshed. And an action of a workflow resolves its credentials in a session
that is never committed (`gateway.py` 405-480), so what an inline refresh stored
is rolled back. The provider is external: it accepts the latest refresh token
of a grant and may rotate it.

The two concurrent stores of a credential row that does not exist yet, which end
in an IntegrityError of the second (`credential_vault.py` 83-92), are among the
failures of `Crash`.

Properties: `StoredTokenAccepted`, `RevocationSticks`, `VaultMatchesRow`,
`LossHasCause` (a rotated token is not lost because another row or session
failed), and the liveness property `DueIsHandled`.

### ConnectorHttp, ConnectorRateLimiter, HealthMonitor, ActionDispatch (`MCActionDispatch`, `DispatchProofs`)

`ConnectorHttp` is a connector process on the SDK: `Admit` is the rate limit
middleware and the action endpoint, `PreCheck`, `HostAnswers`, `HostFails` are
one attempt of `ConnectorHttpClient.request`, with `OnSuccess` and `OnFailure` of
its breaker; `ConnectorCrashes` loses accounts, breaker and requests. The client
returns a 4xx, and a 5xx of the last attempt, to the action (`http.py` 217-218), and
the endpoint answers with what the action makes of it (`app.py` 256-268, 555-579):
the model lets every such action answer with a success or an error, and relay a
4xx as the host's own 429. A success therefore says nothing about the host, and no
property claims it does.
`ConnectorRateLimiter` is `check` as two round trips (`Ask`, `ReadBucket`,
`WriteBucket`) with a relative clock, and beside it a reference bucket, `ideal`,
that decides in one step. `HealthMonitor` is the poll of each replica.
`ActionDispatch` composes the three with `dispatch_action`: `Begin`, the limiter,
`GetAccounts` and `CreateAccount`, `Post`, `ReceiveAnswer` with the repetition on
429, `TimeOut`, `ConnectionLost`. `deployed` says which dispatches and monitors take
part; it is one of `Deployments` and never changes.

Properties: `BreakerMatchesCount`, `MatchesAtomicBucket`, `EffectsBounded` (one
dispatch acts at most `(Max429 + 1) * MaxRetries + 1` times: a 429 of the host
after retries that acted is repeated by the dispatcher), and the liveness
properties `BreakerRecovers` and `DeadIsDisabled` (each replica counts consecutive
failures for itself over its polls).

### NexoAgent and Outbox (`MCNexoAgent`, `NexoAgentProofs`)

The sync engine at a place of its cycle (`at`): `StartCycle` skips a cycle
without a connection; `List`, `Enqueue`, `EndSource` queue what the ERP's lists
contain; `GetPending`, `Post`, `Mark` flush the queue row by row. `queue` is the
pending rows of the SQLite table with their `attempts`; `seen` is history (the
cloud has received the row). Only the health endpoints and `Reconnect` change
the connection. `Outbox` is the abstract specification: an entry leaves only
when it was received or MaxAttempts attempts have failed, and the head does
leave. `IsOutbox` is the refinement, with `queue` for `outbox`; a crash or an
SQLite failure between POST and mark is a stutter after `Receive`.

Properties: `IsOutbox`, `OnlyRetriesGoBack`, and the liveness property
`CloudCatchesUp`.

## 4. Runs

| run | result | what it shows |
|---|---|---|
| `sync_safety` | pass, 326k states | two sessions, two workflows (one forced), fan-out in any order, direct executions, resets, clears, crashes, deadlocks: locks serialise admitted executions and synced rows are backed by deliveries |
| `sync_events` | pass, 8.1k | two contents of one entity, events only, no crashes: ledger and target agree, failed entries are retried up to `max_retries` |
| `sync_reset_retried` | violation | **finding**: `reset_failed` makes rows pending, `should_sync` skips pending rows for ever |
| `wf_engine` | pass, 19k | graphs with every node kind, reruns, loops, nesting, concurrent batches, a cyclic graph, every failure and timeout |
| `wf_merge` | violation | **finding**: a merge node with a predecessor raises TypeError and fails the execution though no executor raised |
| `webhook_intake` | pass, 79k | two deliveries of one event, a background task each, a session that replays or posts events, expiring keys, failing requests, dying workers |
| `webhook_dispatch` | violation | **finding**: the webhook's action function does not accept the keywords `execute_flow` passes; no flow is ever dispatched |
| `kafka_bridge` | pass, 54k | two replicas, one partition with a message of each kind, two tenants, rebalances under running handlers, two faults anywhere, stops that raise included |
| `oauth_tokens` | pass, 99k | a refresher, a request session and two authorizations of one credential: rotation, races of refresh, revocation and callback, deadlocks, lost answers and what may cause a loss |
| `dispatch` | pass, 459k | two dispatches at a time, or one beside the monitors of two replicas, through limiter, dispatcher and a connector whose host fails; the connector may die and be disabled |
| `nexo_agent` | pass, 486k | a contractor and the stock report change while ERP, cloud, SQLite and the agent fail: the queue is an outbox and the cloud catches up |
| `kafka_commit` | violation | **finding**: the commit after the next message covers a message whose "offset will NOT be committed" |

### Bounds

* `FailureBound`, `FaultBound`, `AttemptBound` cap counters that only grow
  (failed executions per key, faults of processes and services, processings of a
  row). Two faults reach every pair of failures, such as a failed commit
  followed by a failed reconnect, or both replicas stopped.
* Two sessions, two deliveries, two replicas: exclusion, races of check and
  mark, and stale positions each need two actors. Two keys and workflows are
  what a lock cycle needs.
* `MaxDepth` is 4 instead of 200 and `ItemBound` 2: the cyclic graph meets the
  limit through a retry and through a continue, a batch has an item in flight
  while another fails.
* `DeadLetterAfter` is 2 instead of 3, so that one failed replay before the
  background task reaches the dead-letter branch.
* `oauth_tokens`: two generations per grant are what a rotation and a stale token
  need, three requests a callback, a refresh and a revocation; one fault loses
  one answer or one session.
* `sync_events`: `MaxRetries` 2 below `FailureBound` 3, so that the decisions before,
  at and after the limit all occur.
* `dispatch`: a breaker threshold of 2 with one retry, so that one dispatch alone
  and two together can open it; three faults, so that a half-open breaker opens
  again and a late failure restarts its timeout; buckets of one token, so that
  every check matters; `LagBound` 1 is the time a check takes between its round
  trips. Two monitors with `DisableThreshold` 2 (5 by default in the code) let the
  counts of replicas differ and be reset by a good poll between two bad ones.
  `Deployments` runs two dispatches without monitors, where limiter, breaker and
  repetition meet, and two monitors with one dispatch: monitors share with
  dispatches only the connector's life and the faults, so the product of both is
  left out.
* `nexo_agent`: `Limit` 3 above the number of rows a cycle adds, `MaxAttempts` 2
  instead of 5, four faults: an outage of two cycles with a crash in between
  makes a dead letter. Only with more records than the flush limit would the
  queue grow without bound (section 6).
* `Symmetry` (sessions, contents) is used in `sync_safety` only, which checks no
  liveness.

### Fairness

* Coroutines: weak fairness of a step that stays enabled; the event loop runs
  every ready task. Timeouts are never assumed to fire.
* Row locks: strong fairness of the waiting statement; PostgreSQL queues lock
  waiters.
* `sync_events` assumes that sources keep sending events for every key: an entity
  that changes is emitted again. Without it, a failed entry is indeed never
  retried: nothing in the code schedules a retry, and pollers emit a change once.
* `oauth_tokens`: strong fairness of statements that wait for a row lock, since a
  session may lose a deadlock again and again; refreshers poll.
* `dispatch`: processes and Redis answer, polls go on, actions keep coming. Strong
  fairness of the clock, because only the bound `LagBound` ever stops it. A
  connector that died need not come back.
* `nexo_agent`: the engine never connects by itself; the container's HEALTHCHECK
  asks `/health` every 30 s, which does. Docker (`restart: unless-stopped`) and
  the Windows service restart the agent, and an ERP outage ends.
* `kafka_bridge` assumes that a stopped gateway is started again (the deployment
  restarts it), not that a bridge whose first start failed comes back.
* Crashes are never assumed to happen and never assumed to stop, except through
  the named bounds.

### What the violations mean

Each violation run states what a docstring, log line or API description says
and TLC finds a behaviour of the code that contradicts it; `PROJECT.json` quotes
the line. Disagreements without a run: an ancestor's ignore or continue
swallows a "stop" (`workflow-node-config.component.ts:303` of the dashboard
describes it as stopping the workflow); a response node ends only its own call
(`gateway.py:2706`); `max_retries` is documented as "Maximum retry attempts before
giving up" (`docs/ARCHITECTURE.md:490`), but `should_sync` falls through to SYNC or
UPDATE when `attempt_count` has reached it (`sync_state.py` 149-176), so the next
event runs the workflow again. `FailedIsRetried` stops at `max_retries`: it claims
the retries that are promised and nothing about what follows.

Further ones that the new modules show:

* An action that returns the body of an error answer, as the quick start does
  (`docs/CONNECTOR-DEVELOPMENT.md` 222-225), answers 200, and the dispatcher reports
  the success of an action that may not have happened.
* The docstring of `validate_and_consume_state` says "one-time use"
  (`oauth2_manager.py:89`); GET and DEL are two round trips, so two callbacks at the
  same time both pass and only the provider refuses the second code. The run has
  one request session, where this cannot happen; two are beyond its time limit.
* A bridge whose `stop()` raises while it reconnects never consumes again
  (`kafka_event_consumer.py` 139-145): `EventuallyHandled` excuses a group of which
  no replica has a consumer.
* A 5xx on the last attempt of the SDK's client counts as a success of the
  breaker and resets it (`http.py` 207-218): with retries a host that always
  answers 5xx never opens it unless the threshold is within one call's retries.
  `docs/CONNECTOR-DEVELOPMENT.md:288` says "opens after 5 consecutive failures".
* `get_or_refresh_access_token` promises that the dispatcher "always gets a usable
  bearer token"; in a workflow the refreshed token is rolled back, and with a
  provider that rotates, the stored refresh token is then no longer accepted.
* The loser of two concurrent refreshes stores "error" or "expired" over the row
  that the winner has renewed.
* Five cycles without the cloud make a dead letter of a good row, though
  `docs/STANDARDS.md:271` says the agent "queues operations locally (SQLite) when
  cloud connection is lost, syncs when restored"; `CloudCatchesUp` holds only
  because every record of the first page is queued again in every cycle.
* `reset_state` of the WMS poller logs "next cycle will emit events for all
  entities"; the next cycle takes a baseline and emits none
  (`event_poller.py` 120-125, 196-230).

## 5. Proofs

TLAPS checks the theorems below for all values of the constants that satisfy the
named assumptions (`ConstantsAssumption`, `FlowAssumption`, `IntakeAssumption`,
`BridgeAssumption`, `ConnectorAssumption`, `LimiterAssumption`,
`MonitorAssumption`, `DispatchAssumption`, `AgentAssumption`, `GraphAssumption`,
`TokensAssumption`, which TLC evaluates in the run of the component). Two theorems
have a further hypothesis on the constants, named below with the reason.

**SyncLedgerProofs.** `LockInv` is inductive: besides the types it says that an
uncommitted row belongs to the holder of its key, that `check.ledger_id` is only
ever the id of a row this transaction has locked, that it is unset until
`should_sync` returned, and that an admitted execution has one.
`MutualExclusion` alone is not inductive: nothing in it says that the lock is
still held when the workflow runs. From `LockInvariant` follow
`ExecutionsExclude` and `RowsProtected` (an action property); two further
invariants on top give `NeverRedundant` and `SyncedIsDelivered`.
`LedgerMatches` has the hypothesis `OneWorkflowPerEvent`: no direct and no forced
execution, no crash, and keys of one workflow, as in run `sync_events`. The
property is false without it: a forced or direct execution delivers what it does
not record, and a crash or a deadlock between two workflows of an event rolls back
the record of a delivery. `TargetInv` says that the holder of a row is at one of
three places, and compares the target with the row as its holder sees it, or
with the content it has delivered and not yet recorded. A lemma shows that under
the hypothesis no session ever waits in a cycle (`NeverDeadlocked`).

**WorkflowProofs.** The state is a set of call stacks, so the proofs rest on
lemmas about what a step does to a stack: it changes only the top of the stack of
the coroutine that runs, or ends coroutines together with all they have started.
`IInv` has four parts above the types. `Frames`: no chain of workflows holds one
twice, and a frame in a child is within the limit of its node, which `ChainAcyclic`
needs when the child returns. `Modes`: a coroutine that runs has a frame, and
the main one lives exactly while the execution is running. `Family`: each
ancestor of a coroutine waits at a join or a batch and has the lineage that
comes before it, so ending a coroutine's parent ends it; `NoOrphanTasks` speaks of
the direct parent only and is not inductive, since a timeout ends a whole subtree.
`Recorded`: the exception on its way up names a node that is recorded as failed.
`FailuresHaveCauses` has the hypothesis `MergesFirst` (no merge node has incoming
edges); run `wf_merge` shows an execution that fails without a cause in a graph
that violates it, and the graphs of `wf_engine` satisfy it. Its invariant
`CauseInv` says that until a first cause, nobody raises and no except clause is at
work.

**WorkflowEffectsProofs.** `EffectsNotRepeated` has the hypothesis that each node
`n` of `OncePerRun` has a set `A` with `OneWay(n, A)`: the nodes of `A` are the only
ones that lead to `n`, each leads on by one edge or, instead, by its error handler,
they have the policies stop and ignore, and no loop body, batch item or
sub-workflow is part of the way. `MCWorkflowEngine` names the ways of the graph of
`wf_engine` and TLC evaluates `OneWayAssumption` for them; they go through a parallel
section, a failure handler and ignored errors. A *site* is a place of a call stack
from which `A` can still be entered: an entry of a list that is in `A`, or the call
of a node of `A` before its successors, or before its handler if that is the way.
`OnceInv` says that all coroutines together have at most one site, and none after
the executor of `n` was called. A caller that is still on the stack is no site,
because an exception that returns to it ends in "stop", in "ignore" or in its
handler; a node with "retry" or "continue" would be one, and so would a loop. One
lemma per action shows that the site moves along the way or disappears: inside a
stack (`Advance`), to a branch that `ParallelStart` begins, or with the coroutines
that a timeout cancels.

**OAuthProofs.** `OInv` has, beside the types, one part per concern. `Progress`
and `Copies`: where a session stands decides which locks it holds and what it has
flushed, and the credential rows in its transaction are copies of the row it
changes. `Token`: per authorization, the row is behind the provider exactly while
one session holds the newer token or it was lost; two sessions never hold it,
because the provider accepts a refresh token once. `Inserts`: a row comes into
being by one callback, which alone passed the state. `Updates`: a session other
than a manual refresh loaded an active row and never sends a status "active",
because SQLAlchemy sends what changed; this is why revocation survives a refresh
that was under way. Together they give the three invariants and the action
properties of the run, for any number of replicas, requests and authorizations.
`LossesHaveCauses` rests on `LostHeld`: what a step loses, a session held that ends
in this step without a commit, and by `Progress` a session that holds a rotated
token and ends so is an action's, in a deadlock or hit by a failure.

**WebhookProofs.** `Inv` has three parts above the types. `Holders`: a row is
locked by exactly the worker that is busy with it; a task does not run before
its request is answered; an idle session has no row. `Keys`: the key of a marked
or accepted event is present until it expires, and a request past the test did
not know its id. `Counts`: a loaded `retry_count` is at most the number of
processings begun, and strictly less for the session that has begun its own,
which is why storing `seen + 1` is safe although the value is stale. They give
`ProcessingExcludes`, `LateDuplicatesRefused` and `RetriesBacked`, for any
number of requests, sessions, ids and flows. `Accounted` adds that a worker that is
busy has each flow still to do, in execution or settled, which gives the action
property `ProcessedIsSettled`.

**KafkaProofs.** `commit()` stores positions, so `CommittedWasHandled` needs to
know what lies below them. `GivenHandled`: what a member was given since the last
rebalance has an outcome, except for the message it holds. `Holding`: it holds one
exactly while it is busy, and commits only after an outcome. `OwnerAhead`: an
owner's position is not behind the committed offset, which gives
`OffsetsOnlyAdvance`. `Serving`: the handler has not reached a tenant, has it in
its session, or has logged its failure, which gives `SavepointsIsolate`.

**DispatchProofs.** `Progress` relates a dispatch to its request: nothing acts
before the request, at most once per attempt, and one attempt less in a request
that ends in a 429, because the attempt answered with it did not act. `Spent` is
what the requests before this one may have done, `Wasted(n)` = `n * MaxRetries` for
n repetitions; a dispatch that has timed out has forgotten their number, so its
request, which goes on, is bounded with all of them. A request outlives only a
dispatch that waits or has timed out. With the types and `BreakerMatchesCount` it
is inductive and gives `RetriesAreBounded` for any number of dispatches, retries
and failures.
`BucketInv` says what the atomic bucket is in terms of the check under way:
before its read, the refilled content less one token, brought forward by the
check's age; after it, the same with the content it read. `ChecksLookAtomic`
follows for any capacity and delay.

**NexoAgentProofs.** `IInv` (the window of a flush lies in the queue, a row to be
marked was received, no pending row is exhausted) gives `QueueIsOutbox`: every
step is a step of `Outbox` or leaves it alone. For `GoesBackByRetry`, `OInv` adds
that rows of a record are queued in the order of its versions, that a batch is no
older than queue and cloud, that the cloud has nothing newer than a row that was
never tried, and that a flush leaves only charged rows behind. `RemoveAt` of the
community modules gets its own lemma.

The types of `KafkaBridge` and `NexoAgent` are proved and not part of a run.

**Only model-checked**: the liveness properties, because fairness and ENABLED are
outside the prover (`FailedIsRetried`, `ExecutionEnds`, `AcceptedIsProcessed`,
`EventuallyHandled`, `DueIsHandled`, `BreakerRecovers`, `DeadIsDisabled`,
`CloudCatchesUp`, and the fairness part of `IsOutbox`).

## 6. Not modelled

Payloads, templates, mappings, filters, signatures and hashes are data: where
they decide something, the model chooses any outcome. Time is not modelled:
delays and backoff are left out, a TTL or a timeout is an action that may happen.
Direct executions of a workflow without `sync_config` do not touch the ledger and
are left to the workflow model. `consume_batches` and `mark_stale` have no
caller.

* Actions: URLs, payload coercion, file answers and the other provisioning modes.
  The expiry of the limiter's keys is invisible, the bucket is full by then.
  Trigger loops of the SDK and its service clients. The status copy of the health
  monitor.
* OAuth2: access tokens and scopes; the connector is assumed to have an OAuth2
  configuration, answers to carry `expires_in`.
* nexo agent: a handle that an ERP outage broke stays CONNECTED and is never
  reopened (`nexo_connection.py` 276-285); the vendor's SDK is assumed to work through
  it again once the ERP is up. If it does not, `CloudCatchesUp` does not hold. The
  heartbeat only reads and counts; `sync_state` decides nothing,
  because the converters set no `updated_at` (`nexo_types.py` 113-186). Therefore
  every cycle queues every record of the first pages again, up to 201 rows, and
  sends 50: with more records the queue only grows. The model stays below the
  limit, since above it there is no bound to check.
* Crash windows without a property, because nothing in the code or its docs
  promises otherwise: executions committed before a webhook's outcome, a Kafka
  event handled again after a lost offset commit, the flush of a record without
  `ledger_id` that rolls back the other workflows of the request.
* Pollers of the connectors (the next candidate), the connectors' adapters, the
  dashboard, migrations and deployment, and `pinquark_common`'s circuit breaker
  and REST client, which nothing calls.

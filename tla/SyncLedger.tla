----------------------------- MODULE SyncLedger -----------------------------
(***************************************************************************)
(* The incremental-sync ledger: core/sync_state.py together with its two   *)
(* callers in core/workflow_engine.py, _execute_with_sync (events) and     *)
(* record_execution_sync (manual, test, call and scheduled executions),    *)
(* and the sync-retry and sync-clear endpoints of api/gateway.py.          *)
(*                                                                         *)
(* A transaction t is one request or Kafka message: it owns one database   *)
(* session, runs one workflow after the other, and commits at the end.     *)
(* PostgreSQL is modelled at READ COMMITTED: a row lock, or an uncommitted *)
(* insert, belongs to its transaction until it ends; a SELECT FOR UPDATE   *)
(* waits for the lock of a visible row, an INSERT waits for whoever holds  *)
(* its unique key, and a cycle of waiting transactions is broken by        *)
(* aborting one of them.                                                   *)
(***************************************************************************)
EXTENDS Integers, FiniteSets

CONSTANTS
    Txns,          \* database sessions that may be open at the same time
    Keys,          \* ledger keys: (workflow_id, entity_key)
    Workflows,     \* workflows whose sync_config is enabled
    WorkflowOf,    \* the workflow a key belongs to
    Contents,      \* event contents that compute_content_hash tells apart
    Mode,          \* sync_config["mode"] of each workflow
    OnDuplicate,   \* sync_config["on_duplicate"] of each workflow
    MaxRetries,    \* sync_config["max_retries"]
    Origins,       \* "event" and/or "direct": how executions are started
    AdminOps,      \* "reset" and/or "clear": ledger endpoints in use
    NoTxn,         \* no transaction
    NoKey,         \* no ledger key
    NoContent,     \* nothing delivered yet
    FailureBound,  \* bound: executions of a key may fail up to this count
    MayCrash       \* whether sessions may be lost before they commit

ASSUME ConstantsAssumption ==
    /\ WorkflowOf \in [Keys -> Workflows]
    /\ Mode \in [Workflows -> {"incremental", "full_sync", "force"}]
    /\ OnDuplicate \in [Workflows -> {"skip", "update", "force"}]
    /\ MaxRetries \in Nat
    /\ Origins \subseteq {"event", "direct"}
    /\ AdminOps \subseteq {"reset", "clear"}
    /\ NoTxn \notin Txns
    /\ NoKey \notin Keys
    /\ NoContent \notin Contents
    /\ FailureBound \in Nat
    /\ MayCrash \in BOOLEAN

VARIABLES
    ledger,     \* the committed sync_ledger row of each key
    lock,       \* the transaction holding the row (or the unique key)
    pc,         \* where each transaction is
    origin,     \* "event": process_event; "direct": execute then record
    todo,       \* matched workflows' keys still to be handled
    cur,        \* the key being handled
    hash,       \* content_hash of the event being processed
    hasId,      \* check.ledger_id is not None
    outcome,    \* execution.status of the current key
    wrote,      \* uncommitted ledger rows of each transaction
    delivered,  \* history: contents successfully executed, per key
    target      \* history: the content the target system holds

vars == <<ledger, lock, pc, origin, todo, cur, hash, hasId, outcome, wrote,
          delivered, target>>

txnVars == <<pc, origin, todo, cur, hash, hasId, outcome>>

Statuses == {"absent", "pending", "synced", "failed"}

Row == [status : Statuses, hash : Contents \cup {NoContent}, attempts : Nat]

\* "No row for this key"; in wrote, "nothing written to this key".
NoRow == [status |-> "absent", hash |-> NoContent, attempts |-> 0]

Phases == {"idle", "next", "select", "insert", "running", "record", "add"}

TypeOK ==
    /\ ledger \in [Keys -> Row]
    /\ lock \in [Keys -> Txns \cup {NoTxn}]
    /\ pc \in [Txns -> Phases]
    /\ origin \in [Txns -> {"event", "direct"}]
    /\ todo \in [Txns -> SUBSET Keys]
    /\ cur \in [Txns -> Keys \cup {NoKey}]
    /\ hash \in [Txns -> Contents \cup {NoContent}]
    /\ hasId \in [Txns -> BOOLEAN]
    /\ outcome \in [Txns -> {"none", "success", "failed"}]
    /\ wrote \in [Txns -> [Keys -> Row]]
    /\ delivered \in [Keys -> SUBSET Contents]
    /\ target \in [Keys -> Contents \cup {NoContent}]

Init ==
    /\ ledger = [k \in Keys |-> NoRow]
    /\ lock = [k \in Keys |-> NoTxn]
    /\ pc = [t \in Txns |-> "idle"]
    /\ origin = [t \in Txns |-> "event"]
    /\ todo = [t \in Txns |-> {}]
    /\ cur = [t \in Txns |-> NoKey]
    /\ hash = [t \in Txns |-> NoContent]
    /\ hasId = [t \in Txns |-> FALSE]
    /\ outcome = [t \in Txns |-> "none"]
    /\ wrote = [t \in Txns |-> [k \in Keys |-> NoRow]]
    /\ delivered = [k \in Keys |-> {}]
    /\ target = [k \in Keys |-> NoContent]

-----------------------------------------------------------------------------
(* Transactions *)

Written(t) == {k \in Keys : wrote[t][k].status # "absent"}

\* The row transaction t sees for key k.
View(t, k) == IF k \in Written(t) THEN wrote[t][k] ELSE ledger[k]

ReleaseLocks(t) == lock' = [k \in Keys |-> IF lock[k] = t THEN NoTxn ELSE lock[k]]

\* The session is closed: nothing of it stays behind but history.
EndTxn(t) ==
    /\ ReleaseLocks(t)
    /\ pc' = [pc EXCEPT ![t] = "idle"]
    /\ origin' = [origin EXCEPT ![t] = "event"]
    /\ todo' = [todo EXCEPT ![t] = {}]
    /\ hasId' = [hasId EXCEPT ![t] = FALSE]
    /\ outcome' = [outcome EXCEPT ![t] = "none"]
    /\ cur' = [cur EXCEPT ![t] = NoKey]
    /\ hash' = [hash EXCEPT ![t] = NoContent]
    /\ wrote' = [wrote EXCEPT ![t] = [k \in Keys |-> NoRow]]

RollBack(t) == EndTxn(t) /\ UNCHANGED <<ledger, delivered, target>>

\* process_event: one event matches workflows in no particular order, and
\* resolves to one ledger key in each of them.
BeginEvent(t, S, c) ==
    /\ "event" \in Origins
    /\ pc[t] = "idle"
    /\ S # {}
    /\ \A k, l \in S : WorkflowOf[k] = WorkflowOf[l] => k = l
    /\ pc' = [pc EXCEPT ![t] = "next"]
    /\ origin' = [origin EXCEPT ![t] = "event"]
    /\ todo' = [todo EXCEPT ![t] = S]
    /\ hash' = [hash EXCEPT ![t] = c]
    /\ UNCHANGED <<ledger, lock, cur, hasId, outcome, wrote, delivered,
                   target>>

\* The next workflow of the loop in process_event.
NextWorkflow(t, k) ==
    /\ pc[t] = "next"
    /\ k \in todo[t]
    /\ todo' = [todo EXCEPT ![t] = @ \ {k}]
    /\ cur' = [cur EXCEPT ![t] = k]
    /\ pc' = [pc EXCEPT ![t] = "select"]
    /\ hasId' = [hasId EXCEPT ![t] = FALSE]
    /\ outcome' = [outcome EXCEPT ![t] = "none"]
    /\ UNCHANGED <<ledger, lock, origin, hash, wrote, delivered, target>>

\* /test, /execute, /call and the scheduler run the workflow first.
BeginDirect(t, k, c) ==
    /\ "direct" \in Origins
    /\ pc[t] = "idle"
    /\ pc' = [pc EXCEPT ![t] = "running"]
    /\ origin' = [origin EXCEPT ![t] = "direct"]
    /\ cur' = [cur EXCEPT ![t] = k]
    /\ hash' = [hash EXCEPT ![t] = c]
    /\ UNCHANGED <<ledger, lock, todo, hasId, outcome, wrote, delivered,
                   target>>

Commit(t) ==
    /\ pc[t] = "next"
    /\ todo[t] = {}
    /\ ledger' = [k \in Keys |-> View(t, k)]
    /\ EndTxn(t)
    /\ UNCHANGED <<delivered, target>>

\* The process dies, the request is cancelled or the connection is lost.
Crash(t) ==
    /\ pc[t] # "idle"
    /\ MayCrash
    /\ RollBack(t)

-----------------------------------------------------------------------------
(* should_sync *)

Decision(row, c) ==
    CASE row.status = "absent" -> "sync"
      [] row.status = "pending" -> "skip"
      [] row.status = "failed" /\ row.attempts < MaxRetries -> "retry"
      [] row.status = "synced" /\ row.hash = c -> "skip"
      [] OTHER -> IF row.hash # c THEN "update" ELSE "sync"

\* Mutant: RETRY is not among the decisions that let the workflow run.
SkipsRetry(w, decision) ==
    /\ Mode[w] # "force"
    /\ \/ decision \in {"skip", "retry"}
       \/ decision = "update" /\ OnDuplicate[w] = "skip"

\* _execute_with_sync returns None instead of running the workflow.
Skips(w, decision) ==
    /\ Mode[w] # "force"
    /\ \/ decision = "skip"
       \/ decision = "update" /\ OnDuplicate[w] = "skip"

\* What follows should_sync: a direct execution has already run.
AfterCheck(t, decision) ==
    IF origin[t] = "direct" THEN "record"
    ELSE IF Skips(WorkflowOf[cur[t]], decision) THEN "next" ELSE "running"

\* SELECT ... FOR UPDATE finds no (committed) row and locks nothing.
SelectNone(t) ==
    /\ pc[t] = "select"
    /\ ledger[cur[t]].status = "absent"
    /\ pc' = [pc EXCEPT ![t] = "insert"]
    /\ UNCHANGED <<ledger, lock, origin, todo, cur, hash, hasId, outcome,
                   wrote, delivered, target>>

\* Mutant: a plain SELECT, without FOR UPDATE.
SelectUnlocked(t) ==
    LET k == cur[t] IN
    /\ pc[t] = "select"
    /\ ledger[k].status # "absent"
    /\ hasId' = [hasId EXCEPT ![t] = TRUE]
    /\ pc' = [pc EXCEPT ![t] = AfterCheck(t, Decision(ledger[k], hash[t]))]
    /\ UNCHANGED <<ledger, lock, origin, todo, cur, hash, outcome, wrote,
                   delivered, target>>

\* Mutant: FOR SHARE, which several transactions may hold.
SelectForShare(t) ==
    LET k == cur[t] IN
    /\ pc[t] = "select"
    /\ ledger[k].status # "absent"
    /\ lock' = [lock EXCEPT ![k] = t]
    /\ hasId' = [hasId EXCEPT ![t] = TRUE]
    /\ pc' = [pc EXCEPT ![t] = AfterCheck(t, Decision(ledger[k], hash[t]))]
    /\ UNCHANGED <<ledger, origin, todo, cur, hash, outcome, wrote,
                   delivered, target>>

\* SELECT ... FOR UPDATE locks the row and the decision is taken on it.
SelectForUpdate(t) ==
    LET k == cur[t] IN
    /\ pc[t] = "select"
    /\ ledger[k].status # "absent"
    /\ lock[k] = NoTxn
    /\ lock' = [lock EXCEPT ![k] = t]
    /\ hasId' = [hasId EXCEPT ![t] = TRUE]
    /\ pc' = [pc EXCEPT ![t] = AfterCheck(t, Decision(ledger[k], hash[t]))]
    /\ UNCHANGED <<ledger, origin, todo, cur, hash, outcome, wrote,
                   delivered, target>>

\* The "pending" row is inserted and flushed inside a savepoint.
InsertPending(t) ==
    LET k == cur[t] IN
    /\ pc[t] = "insert"
    /\ lock[k] = NoTxn
    /\ ledger[k].status = "absent"
    /\ lock' = [lock EXCEPT ![k] = t]
    /\ wrote' = [wrote EXCEPT ![t][k] =
                   [status |-> "pending", hash |-> hash[t], attempts |-> 0]]
    /\ hasId' = [hasId EXCEPT ![t] = TRUE]
    /\ pc' = [pc EXCEPT ![t] = AfterCheck(t, "sync")]
    /\ UNCHANGED <<ledger, origin, todo, cur, hash, outcome, delivered,
                   target>>

\* Mutant: the IntegrityError is taken for "the row is there now, go on".
InsertConflictSyncs(t) ==
    /\ pc[t] = "insert"
    /\ ledger[cur[t]].status # "absent"
    /\ pc' = [pc EXCEPT ![t] = AfterCheck(t, "sync")]
    /\ UNCHANGED <<ledger, lock, origin, todo, cur, hash, hasId, outcome,
                   wrote, delivered, target>>

\* IntegrityError: another transaction committed the row in between. The
\* savepoint is rolled back and SKIP is returned without a ledger_id.
InsertConflict(t) ==
    /\ pc[t] = "insert"
    /\ ledger[cur[t]].status # "absent"
    /\ pc' = [pc EXCEPT ![t] = AfterCheck(t, "skip")]
    /\ UNCHANGED <<ledger, lock, origin, todo, cur, hash, hasId, outcome,
                   wrote, delivered, target>>

-----------------------------------------------------------------------------
(* Execution and its record *)

\* execute_workflow ends. Only the target system sees what it did; a failed
\* execution may have got part of the way, which leaves the target unknown.
Execute(t, status) ==
    LET k == cur[t] IN
    /\ pc[t] = "running"
    /\ status = "failed" => View(t, k).attempts < FailureBound
    /\ outcome' = [outcome EXCEPT ![t] = status]
    /\ pc' = [pc EXCEPT ![t] = IF origin[t] = "direct" THEN "select" ELSE "record"]
    /\ delivered' = [delivered EXCEPT ![k] =
                       IF status = "success" THEN @ \cup {hash[t]} ELSE @]
    /\ target' = [target EXCEPT ![k] =
                    IF status = "success" THEN hash[t] ELSE NoContent]
    /\ UNCHANGED <<ledger, lock, origin, todo, cur, hash, hasId, wrote>>

\* Mutant: the status of the execution is not looked at.
RecordedAsSuccess(t, row) ==
    [status |-> "synced", hash |-> hash[t], attempts |-> row.attempts]

\* Mutant: attempt_count counts the attempts that are left.
RecordedCountdown(t, row) ==
    IF outcome[t] = "success"
    THEN [status |-> "synced", hash |-> hash[t], attempts |-> row.attempts]
    ELSE [status |-> "failed", hash |-> hash[t], attempts |-> row.attempts - 1]

\* The row record_success / record_failure produces from row.
Recorded(t, row) ==
    IF outcome[t] = "success"
    THEN [status |-> "synced", hash |-> hash[t], attempts |-> row.attempts]
    ELSE [status |-> "failed", hash |-> hash[t], attempts |-> row.attempts + 1]

\* Mutant: a failed execution is not recorded.
RecordOnlySuccess(t) ==
    /\ pc[t] = "record"
    /\ hasId[t]
    /\ wrote' = IF outcome[t] = "success"
                THEN [wrote EXCEPT ![t][cur[t]] = Recorded(t, View(t, cur[t]))]
                ELSE wrote
    /\ pc' = [pc EXCEPT ![t] = "next"]
    /\ UNCHANGED <<ledger, lock, origin, todo, cur, hash, hasId, outcome,
                   delivered, target>>

\* With a ledger_id: UPDATE of the row should_sync locked or inserted.
RecordUpdate(t) ==
    LET k == cur[t] IN
    /\ pc[t] = "record"
    /\ hasId[t]
    /\ wrote' = [wrote EXCEPT ![t][k] = Recorded(t, View(t, k))]
    /\ pc' = [pc EXCEPT ![t] = "next"]
    /\ UNCHANGED <<ledger, lock, origin, todo, cur, hash, hasId, outcome,
                   delivered, target>>

\* Without one: a new row is added to the session; the next flush inserts it.
RecordAdd(t) ==
    /\ pc[t] = "record"
    /\ ~hasId[t]
    /\ pc' = [pc EXCEPT ![t] = "add"]
    /\ UNCHANGED <<ledger, lock, origin, todo, cur, hash, hasId, outcome,
                   wrote, delivered, target>>

FlushAdd(t) ==
    LET k == cur[t] IN
    /\ pc[t] = "add"
    /\ lock[k] = NoTxn
    /\ ledger[k].status = "absent"
    /\ lock' = [lock EXCEPT ![k] = t]
    /\ wrote' = [wrote EXCEPT ![t][k] = Recorded(t, NoRow)]
    /\ pc' = [pc EXCEPT ![t] = "next"]
    /\ UNCHANGED <<ledger, origin, todo, cur, hash, hasId, outcome,
                   delivered, target>>

\* The unique constraint fails the flush, and with it the transaction.
FlushConflict(t) ==
    /\ pc[t] = "add"
    /\ ledger[cur[t]].status # "absent"
    /\ RollBack(t)

-----------------------------------------------------------------------------
(* Waiting, and the ledger endpoints *)

\* The transaction that t waits for, NoTxn when it does not wait.
BlockedBy(t) ==
    LET k == cur[t] IN
    CASE pc[t] = "select" /\ ledger[k].status # "absent" -> lock[k]
      [] pc[t] \in {"insert", "add"} /\ ledger[k].status = "absent" -> lock[k]
      [] OTHER -> NoTxn

Deadlocked(t) ==
    \E S \in SUBSET Txns : t \in S /\ \A u \in S : BlockedBy(u) \in S

\* PostgreSQL aborts a transaction of a cycle; the request fails.
DeadlockAbort(t) ==
    /\ Deadlocked(t)
    /\ RollBack(t)

\* Visible rows of a workflow; an UPDATE or DELETE waits for their locks.
RowsOf(w) == {k \in Keys : WorkflowOf[k] = w /\ ledger[k].status # "absent"}

ResetFailed(w) ==
    LET rows == {k \in RowsOf(w) : ledger[k].status = "failed"} IN
    /\ "reset" \in AdminOps
    /\ rows # {}
    /\ \A k \in rows : lock[k] = NoTxn
    /\ ledger' = [k \in Keys |->
                    IF k \in rows
                    THEN [status |-> "pending", hash |-> ledger[k].hash, attempts |-> 0]
                    ELSE ledger[k]]
    /\ UNCHANGED <<lock, txnVars, wrote, delivered, target>>

ClearLedger(w) ==
    LET rows == RowsOf(w) IN
    /\ "clear" \in AdminOps
    /\ rows # {}
    /\ \A k \in rows : lock[k] = NoTxn
    /\ ledger' = [k \in Keys |-> IF k \in rows THEN NoRow ELSE ledger[k]]
    /\ UNCHANGED <<lock, txnVars, wrote, delivered, target>>

-----------------------------------------------------------------------------

Step(t) ==
    \/ \E k \in Keys : NextWorkflow(t, k)
    \/ SelectNone(t)
    \/ SelectForUpdate(t)
    \/ InsertPending(t)
    \/ InsertConflict(t)
    \/ \E status \in {"success", "failed"} : Execute(t, status)
    \/ RecordUpdate(t)
    \/ RecordAdd(t)
    \/ FlushAdd(t)
    \/ FlushConflict(t)
    \/ DeadlockAbort(t)
    \/ Commit(t)

Next ==
    \/ \E t \in Txns :
         \/ \E S \in SUBSET Keys, c \in Contents : BeginEvent(t, S, c)
         \/ \E k \in Keys, c \in Contents : BeginDirect(t, k, c)
         \/ Step(t)
         \/ Crash(t)
    \/ \E w \in Workflows : ResetFailed(w) \/ ClearLedger(w)

Spec == Init /\ [][Next]_vars

-----------------------------------------------------------------------------
(* Properties *)

\* t runs the workflow because should_sync let it.
Admitted(t) ==
    /\ pc[t] = "running"
    /\ origin[t] = "event"
    /\ Mode[WorkflowOf[cur[t]]] # "force"

\* should_sync's docstring: SELECT ... FOR UPDATE and the eager "pending" row
\* "prevent concurrent executions for the same entity": two transactions that
\* were both let through never run the workflow for one key at the same time.
MutualExclusion ==
    \A t, u \in Txns : Admitted(t) /\ Admitted(u) /\ cur[t] = cur[u] => t = u

\* Whatever other transactions and the ledger endpoints do while a workflow
\* runs, it is never running for a content the committed ledger already
\* reports as synced: the decision cannot become stale before it is used.
NoRedundantExecution ==
    \A t \in Txns :
        Admitted(t) => ~ /\ ledger[cur[t]].status = "synced"
                         /\ ledger[cur[t]].hash = hash[t]

\* A ledger row says "synced" only for a content that some execution for that
\* key delivered successfully, whichever path recorded it and whichever
\* transactions crashed: a later SKIP never drops data nobody delivered.
SyncedWasDelivered ==
    \A k \in Keys : ledger[k].status = "synced" => ledger[k].hash \in delivered[k]

\* Between transactions a "synced" row names what the target system holds
\* (record_success under the row lock): skipping its hash is then harmless.
LedgerMatchesTarget ==
    \A k \in Keys :
        lock[k] = NoTxn /\ ledger[k].status = "synced" => target[k] = ledger[k].hash

\* A row that a transaction keeps locked is changed by nobody else: neither a
\* commit of another transaction nor sync-retry or sync-clear.
LockProtectsRow ==
    [][\A k \in Keys :
          lock[k] # NoTxn /\ lock'[k] = lock[k] => ledger'[k] = ledger[k]]_vars

\* Fairness: a session that can take a step takes one, PostgreSQL grants row
\* locks in queue order, and the sources keep emitting events for every key:
\* a changed entity is emitted again.
Fairness ==
    /\ \A t \in Txns : /\ WF_vars(Step(t))
                        /\ SF_vars(SelectForUpdate(t))
                        /\ SF_vars(InsertPending(t))
                        /\ SF_vars(FlushAdd(t))
    /\ \A k \in Keys, c \in Contents : SF_vars(\E t \in Txns : BeginEvent(t, {k}, c))

FairSpec == Spec /\ Fairness

\* "Sync failed (will be retried up to `max_retries`)" (docs/ARCHITECTURE.md:525):
\* while events arrive, also of contents that changed meanwhile, a failed entry
\* gets all the attempts it is promised or leaves the failed state before. What
\* follows the last of them is not said here.
FailedIsRetried ==
    \A k \in Keys :
        ledger[k].status = "failed" ~> \/ ledger[k].status # "failed"
                                      \/ ledger[k].attempts >= MaxRetries

\* reset_failed's docstring: "Reset all failed entries to pending so they are
\* retried": a committed pending row does not stay pending for ever.
PendingIsRetried ==
    \A k \in Keys : ledger[k].status = "pending" ~> ledger[k].status # "pending"

=============================================================================

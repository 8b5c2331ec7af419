-------------------------- MODULE SyncLedgerProofs --------------------------
(***************************************************************************)
(* Proofs about SyncLedger for any number of sessions, keys, workflows and *)
(* contents.  The inductive invariant says which transaction a ledger row  *)
(* belongs to at each point of _execute_with_sync.                         *)
(***************************************************************************)
EXTENDS SyncLedger, TLAPS

\* An open transaction knows its event, and its key once it has taken one.
SessionInv ==
    \A t \in Txns :
        /\ pc[t] # "idle" => hash[t] \in Contents
        /\ pc[t] \notin {"idle", "next"} => cur[t] \in Keys

\* Uncommitted rows belong to the holder of the key.
WrittenLocked ==
    \A t \in Txns, k \in Keys : wrote[t][k].status # "absent" => lock[k] = t

\* check.ledger_id is the id of a row this transaction has locked.
IdLocked ==
    \A t \in Txns : hasId[t] /\ pc[t] \in {"running", "record"} => lock[cur[t]] = t

\* ... and is None until should_sync has returned.
IdUnset ==
    \A t \in Txns :
        \/ pc[t] \in {"idle", "select", "insert"}
        \/ pc[t] = "running" /\ origin[t] = "direct"
        => ~hasId[t]

\* An admitted execution has a ledger_id: only a skip comes without one.
AdmittedHasId == \A t \in Txns : Admitted(t) => hasId[t]

LockInv ==
    /\ TypeOK
    /\ SessionInv
    /\ WrittenLocked
    /\ IdLocked
    /\ IdUnset
    /\ AdmittedHasId

-----------------------------------------------------------------------------

\* should_sync skips a row that is synced with the same hash.
LEMMA SkipSynced ==
    ASSUME NEW row \in Row, NEW c, row.status = "synced", row.hash = c
    PROVE  Decision(row, c) = "skip"
BY DEF Decision, Row, Statuses

\* should_sync returns to one of three places of its callers.
LEMMA AfterCheckType ==
    ASSUME NEW t, NEW d
    PROVE  AfterCheck(t, d) \in {"record", "next", "running"}
BY DEF AfterCheck

\* Recording an execution yields a row.
LEMMA RecordedType ==
    ASSUME NEW t \in Txns, NEW row \in Row, hash[t] \in Contents
    PROVE  /\ Recorded(t, row) \in Row
           /\ Recorded(t, row).status \in {"synced", "failed"}
           /\ Recorded(t, row).hash = hash[t]
           /\ Recorded(t, row).status = "synced" => outcome[t] = "success"
BY DEF Recorded, Row, Statuses

LEMMA NoRowType == NoRow \in Row /\ NoRow.status = "absent"
BY DEF NoRow, Row, Statuses

\* The initial state: no rows, no locks, no sessions.
LEMMA LockInvInit == Init => LockInv
BY NoRowType, ConstantsAssumption
   DEF Init, LockInv, TypeOK, SessionInv, WrittenLocked, IdLocked, IdUnset,
       AdmittedHasId, Admitted, Phases, NoRow, Row, Statuses

\* Closing a session keeps the invariant, whatever it leaves in the ledger.
LEMMA EndTxnKeeps ==
    ASSUME LockInv, NEW t \in Txns, EndTxn(t), ledger' \in [Keys -> Row],
           UNCHANGED <<delivered, target>>
    PROVE  LockInv'
<1> USE NoRowType, ConstantsAssumption
<1>1. TypeOK'
  BY DEF LockInv, TypeOK, EndTxn, ReleaseLocks, Phases
<1>2. SessionInv'
  BY DEF LockInv, TypeOK, EndTxn, SessionInv
<1>3. WrittenLocked'
  BY DEF LockInv, TypeOK, EndTxn, ReleaseLocks, WrittenLocked
<1>4. IdLocked'
  <2> SUFFICES ASSUME NEW u \in Txns, hasId'[u], pc'[u] \in {"running", "record"}
               PROVE  lock'[cur'[u]] = u
    BY DEF IdLocked
  <2>1. u # t
    BY DEF LockInv, TypeOK, EndTxn
  <2>2. cur'[u] = cur[u] /\ lock[cur[u]] = u /\ cur[u] \in Keys
    BY <2>1 DEF LockInv, TypeOK, EndTxn, IdLocked, SessionInv
  <2> QED  BY <2>1, <2>2 DEF EndTxn, ReleaseLocks
<1>5. IdUnset'
  BY DEF LockInv, TypeOK, EndTxn, IdUnset
<1>6. AdmittedHasId'
  BY DEF LockInv, TypeOK, EndTxn, AdmittedHasId, Admitted
<1> QED  BY <1>1, <1>2, <1>3, <1>4, <1>5, <1>6 DEF LockInv

\* Every step keeps the invariant.
LEMMA LockInvNext == LockInv /\ [Next]_vars => LockInv'
<1> SUFFICES ASSUME LockInv, [Next]_vars
             PROVE  LockInv'
  OBVIOUS
<1> USE ConstantsAssumption
<1> USE DEF LockInv, TypeOK, SessionInv, WrittenLocked, IdLocked, IdUnset,
            AdmittedHasId, Admitted
<1>1. ASSUME NEW t \in Txns, NEW S \in SUBSET Keys, NEW c \in Contents,
             BeginEvent(t, S, c)
      PROVE  LockInv'
  BY <1>1 DEF BeginEvent, Phases
<1>2. ASSUME NEW t \in Txns, NEW k \in Keys, NEW c \in Contents,
             BeginDirect(t, k, c)
      PROVE  LockInv'
  BY <1>2 DEF BeginDirect, Phases
<1>3. ASSUME NEW t \in Txns, NEW k \in Keys, NextWorkflow(t, k)
      PROVE  LockInv'
  BY <1>3 DEF NextWorkflow, Phases
<1>4. ASSUME NEW t \in Txns, SelectNone(t)
      PROVE  LockInv'
  BY <1>4 DEF SelectNone, Phases
<1>5. ASSUME NEW t \in Txns, SelectForUpdate(t)
      PROVE  LockInv'
  <2>1. AfterCheck(t, Decision(ledger[cur[t]], hash[t])) \in {"record", "next", "running"}
    BY AfterCheckType
  <2>2. cur[t] \in Keys
    BY <1>5 DEF SelectForUpdate
  <2>3. AfterCheck(t, Decision(ledger[cur[t]], hash[t])) = "running" => origin[t] # "direct"
    BY DEF AfterCheck
  <2> QED  BY <1>5, <2>1, <2>2, <2>3 DEF SelectForUpdate, Phases
<1>6. ASSUME NEW t \in Txns, InsertPending(t)
      PROVE  LockInv'
  <2>1. AfterCheck(t, "sync") \in {"record", "next", "running"}
    BY AfterCheckType
  <2>2. cur[t] \in Keys /\ hash[t] \in Contents
    BY <1>6 DEF InsertPending
  <2>3. AfterCheck(t, "sync") = "running" => origin[t] # "direct"
    BY DEF AfterCheck
  <2>4. [status |-> "pending", hash |-> hash[t], attempts |-> 0] \in Row
    BY <2>2 DEF Row, Statuses
  <2> QED  BY <1>6, <2>1, <2>2, <2>3, <2>4 DEF InsertPending, Phases
<1>7. ASSUME NEW t \in Txns, InsertConflict(t)
      PROVE  LockInv'
  <2>1. AfterCheck(t, "skip") \in {"record", "next", "running"}
    BY AfterCheckType
  <2>2. AfterCheck(t, "skip") = "running" =>
           origin[t] = "event" /\ Mode[WorkflowOf[cur[t]]] = "force"
    BY DEF AfterCheck, Skips
  <2> QED  BY <1>7, <2>1, <2>2 DEF InsertConflict, Phases
<1>8. ASSUME NEW t \in Txns, NEW status \in {"success", "failed"}, Execute(t, status)
      PROVE  LockInv'
  BY <1>8 DEF Execute, Phases
<1>9. ASSUME NEW t \in Txns, RecordUpdate(t)
      PROVE  LockInv'
  <2>1. cur[t] \in Keys /\ hash[t] \in Contents /\ lock[cur[t]] = t
    BY <1>9 DEF RecordUpdate
  <2>2. View(t, cur[t]) \in Row
    BY <2>1 DEF View
  <2>3. Recorded(t, View(t, cur[t])) \in Row
    BY <2>1, <2>2, RecordedType
  <2> QED  BY <1>9, <2>1, <2>3 DEF RecordUpdate, Phases
<1>10. ASSUME NEW t \in Txns, RecordAdd(t)
       PROVE  LockInv'
  BY <1>10 DEF RecordAdd, Phases
<1>11. ASSUME NEW t \in Txns, FlushAdd(t)
       PROVE  LockInv'
  <2>1. cur[t] \in Keys /\ hash[t] \in Contents
    BY <1>11 DEF FlushAdd
  <2>2. Recorded(t, NoRow) \in Row
    BY <2>1, RecordedType, NoRowType
  <2> QED  BY <1>11, <2>1, <2>2 DEF FlushAdd, Phases
<1>12. ASSUME NEW t \in Txns, RollBack(t)
       PROVE  LockInv'
  BY <1>12, EndTxnKeeps DEF RollBack
<1>13. ASSUME NEW t \in Txns, Commit(t)
       PROVE  LockInv'
  <2>1. \A k \in Keys : View(t, k) \in Row
    BY DEF View
  <2> QED  BY <1>13, <2>1, EndTxnKeeps DEF Commit
<1>14. ASSUME NEW w \in Workflows, ResetFailed(w)
       PROVE  LockInv'
  <2>1. \A k \in Keys :
           [status |-> "pending", hash |-> ledger[k].hash, attempts |-> 0] \in Row
    BY DEF Row, Statuses
  <2> QED  BY <1>14, <2>1 DEF ResetFailed, RowsOf, txnVars
<1>15. ASSUME NEW w \in Workflows, ClearLedger(w)
       PROVE  LockInv'
  BY <1>15, NoRowType DEF ClearLedger, RowsOf, txnVars
<1>16. CASE UNCHANGED vars
  BY <1>16 DEF vars
<1> HIDE DEF LockInv
<1> QED
  BY <1>1, <1>2, <1>3, <1>4, <1>5, <1>6, <1>7, <1>8, <1>9, <1>10, <1>11, <1>12,
     <1>13, <1>14, <1>15, <1>16
     DEF Next, Step, Crash, FlushConflict, DeadlockAbort

\* The ledger invariant holds in every reachable state.
THEOREM LockInvariant == Spec => []LockInv
BY LockInvInit, LockInvNext, PTL DEF Spec

\* Type correctness of the ledger and of every session.
THEOREM TypeCorrect == Spec => []TypeOK
<1>1. LockInv => TypeOK
  BY DEF LockInv
<1> QED  BY <1>1, LockInvariant, PTL

\* should_sync's promise, for any number of sessions: two executions it let
\* through never run for the same entity at the same time.
THEOREM ExecutionsExclude == Spec => []MutualExclusion
<1>1. LockInv => MutualExclusion
  BY DEF LockInv, MutualExclusion, IdLocked, AdmittedHasId, Admitted
<1> QED  BY <1>1, LockInvariant, PTL

-----------------------------------------------------------------------------
(* The lock protects the row, so the decision stays right *)

LEMMA LockProtectsStep ==
    ASSUME LockInv, [Next]_vars, NEW k \in Keys, lock[k] # NoTxn, lock'[k] = lock[k]
    PROVE  ledger'[k] = ledger[k]
<1>1. ASSUME NEW t \in Txns, Commit(t)
      PROVE  ledger'[k] = ledger[k]
  <2>1. lock[k] # t
    BY <1>1 DEF Commit, EndTxn, ReleaseLocks
  <2>2. k \notin Written(t)
    BY <2>1 DEF LockInv, WrittenLocked, Written
  <2> QED  BY <1>1, <2>2 DEF Commit, View
<1>2. ASSUME NEW w \in Workflows, ResetFailed(w) \/ ClearLedger(w)
      PROVE  ledger'[k] = ledger[k]
  BY <1>2 DEF ResetFailed, ClearLedger
<1>3. ASSUME NEW t \in Txns,
             \/ \E S \in SUBSET Keys, c \in Contents : BeginEvent(t, S, c)
             \/ \E l \in Keys, c \in Contents : BeginDirect(t, l, c)
             \/ Step(t) /\ ~Commit(t)
             \/ Crash(t)
      PROVE  ledger' = ledger
  BY <1>3 DEF BeginEvent, BeginDirect, Step, Crash, NextWorkflow, SelectNone,
              SelectForUpdate, InsertPending, InsertConflict, Execute, RecordUpdate,
              RecordAdd, FlushAdd, FlushConflict, DeadlockAbort, RollBack
<1>4. CASE UNCHANGED vars
  BY <1>4 DEF vars
<1> QED  BY <1>1, <1>2, <1>3, <1>4 DEF Next

\* A locked row changes only when its holder commits.
THEOREM RowsProtected == Spec => LockProtectsRow
<1>1. LockInv /\ [Next]_vars =>
        [\A k \in Keys :
            lock[k] # NoTxn /\ lock'[k] = lock[k] => ledger'[k] = ledger[k]]_vars
  BY LockProtectsStep
<1> QED  BY <1>1, LockInvariant, PTL DEF Spec, LockProtectsRow

\* A step of session t.
Acts(t) ==
    \/ \E S \in SUBSET Keys, c \in Contents : BeginEvent(t, S, c)
    \/ \E k \in Keys, c \in Contents : BeginDirect(t, k, c)
    \/ Step(t)
    \/ Crash(t)

\* A step of one session leaves every other session, and its locks, alone.
LEMMA OthersKeep ==
    ASSUME LockInv, NEW t \in Txns, NEW u \in Txns, u # t, Acts(u)
    PROVE  /\ pc'[t] = pc[t] /\ origin'[t] = origin[t]
           /\ cur'[t] = cur[t] /\ hash'[t] = hash[t]
           /\ \A k \in Keys : lock[k] = t => lock'[k] = t
<1> USE ConstantsAssumption DEF LockInv, TypeOK
<1>1. CASE Step(u) /\ ~Commit(u) /\ ~FlushConflict(u) /\ ~DeadlockAbort(u)
  BY <1>1 DEF Step, NextWorkflow, SelectNone, SelectForUpdate, InsertPending,
              InsertConflict, Execute, RecordUpdate, RecordAdd, FlushAdd
<1>2. CASE EndTxn(u)
  BY <1>2 DEF EndTxn, ReleaseLocks
<1>3. CASE Commit(u) \/ FlushConflict(u) \/ DeadlockAbort(u) \/ Crash(u)
  BY <1>2, <1>3 DEF Commit, FlushConflict, DeadlockAbort, Crash, RollBack
<1>4. CASE \/ \E S \in SUBSET Keys, c \in Contents : BeginEvent(u, S, c)
           \/ \E k \in Keys, c \in Contents : BeginDirect(u, k, c)
  BY <1>4 DEF BeginEvent, BeginDirect
<1> HIDE DEF LockInv
<1> QED  BY <1>1, <1>3, <1>4 DEF Acts

\* The only own steps after which a session runs an admitted workflow are the
\* three exits of should_sync.
LEMMA OnlyChecksAdmit ==
    ASSUME LockInv, NEW t \in Txns, Acts(t), Admitted(t)'
    PROVE  SelectForUpdate(t) \/ InsertPending(t) \/ InsertConflict(t)
<1> USE DEF LockInv, TypeOK, Admitted
<1>1. CASE EndTxn(t)
  BY <1>1 DEF EndTxn
<1>2. CASE \/ \E S \in SUBSET Keys, c \in Contents : BeginEvent(t, S, c)
           \/ \E k \in Keys, c \in Contents : BeginDirect(t, k, c)
  BY <1>2 DEF BeginEvent, BeginDirect
<1>3. CASE \/ \E k \in Keys : NextWorkflow(t, k)
           \/ SelectNone(t)
           \/ \E status \in {"success", "failed"} : Execute(t, status)
  BY <1>3 DEF NextWorkflow, SelectNone, Execute
<1>4. CASE RecordUpdate(t) \/ RecordAdd(t) \/ FlushAdd(t)
  BY <1>4 DEF RecordUpdate, RecordAdd, FlushAdd
<1>5. CASE Commit(t) \/ FlushConflict(t) \/ DeadlockAbort(t) \/ Crash(t)
  BY <1>1, <1>5 DEF Commit, FlushConflict, DeadlockAbort, Crash, RollBack
<1> HIDE DEF LockInv, Admitted
<1> QED  BY <1>2, <1>3, <1>4, <1>5 DEF Acts, Step

\* NoRedundantExecution is inductive on top of LockInv: it is established by
\* the decision and kept by the lock.
LEMMA NoRedundantNext ==
    ASSUME LockInv, NoRedundantExecution, [Next]_vars
    PROVE  NoRedundantExecution'
<1> SUFFICES ASSUME NEW t \in Txns, Admitted(t)'
             PROVE  ~(ledger'[cur'[t]].status = "synced" /\ ledger'[cur'[t]].hash = hash'[t])
  BY DEF NoRedundantExecution
<1>1. CASE Admitted(t) /\ cur'[t] = cur[t] /\ hash'[t] = hash[t]
           /\ lock'[cur[t]] = lock[cur[t]]
  <2>1. cur[t] \in Keys /\ lock[cur[t]] = t
    BY <1>1 DEF LockInv, SessionInv, IdLocked, AdmittedHasId, Admitted
  <2>2. ledger'[cur[t]] = ledger[cur[t]]
    BY <1>1, <2>1, LockProtectsStep, ConstantsAssumption
  <2> QED  BY <1>1, <2>2 DEF NoRedundantExecution
<1>2. CASE SelectForUpdate(t)
  <2>1. ledger[cur[t]] \in Row /\ ledger' = ledger /\ cur' = cur /\ hash' = hash
    BY <1>2 DEF SelectForUpdate, LockInv, TypeOK, SessionInv
  <2>2. AfterCheck(t, Decision(ledger[cur[t]], hash[t])) = "running"
    BY <1>2 DEF SelectForUpdate, Admitted, LockInv, TypeOK
  <2>3. Decision(ledger[cur[t]], hash[t]) # "skip"
    BY <1>2, <2>1, <2>2 DEF AfterCheck, Skips, Admitted, SelectForUpdate
  <2> QED  BY <2>1, <2>3, SkipSynced
<1>3. CASE InsertPending(t)
  BY <1>3 DEF InsertPending
<1>4. CASE InsertConflict(t)
  BY <1>4 DEF InsertConflict, AfterCheck, Skips, Admitted, LockInv, TypeOK
<1>5. CASE UNCHANGED vars
  BY <1>5, <1>1 DEF vars, Admitted
<1>6. ASSUME NEW u \in Txns, u # t, Acts(u)
      PROVE  Admitted(t) /\ cur'[t] = cur[t] /\ hash'[t] = hash[t]
             /\ (lock[cur[t]] = t => lock'[cur[t]] = lock[cur[t]])
  BY <1>6, OthersKeep DEF Admitted, LockInv, SessionInv
<1>7. ASSUME Acts(t), ~SelectForUpdate(t), ~InsertPending(t), ~InsertConflict(t)
      PROVE  FALSE
  BY <1>7, OnlyChecksAdmit
<1>8. ASSUME NEW w \in Workflows, ResetFailed(w) \/ ClearLedger(w)
      PROVE  Admitted(t) /\ cur'[t] = cur[t] /\ hash'[t] = hash[t] /\ lock' = lock
  BY <1>8 DEF ResetFailed, ClearLedger, txnVars, Admitted
<1>9. Admitted(t) => lock[cur[t]] = t
  BY DEF LockInv, IdLocked, AdmittedHasId, Admitted
<1> QED  BY <1>1, <1>2, <1>3, <1>4, <1>5, <1>6, <1>7, <1>8, <1>9 DEF Next, Acts

\* No admitted execution ever runs for a content the ledger reports synced.
THEOREM NeverRedundant == Spec => []NoRedundantExecution
<1>1. Init => NoRedundantExecution
  BY DEF Init, NoRedundantExecution, Admitted
<1>2. LockInv /\ NoRedundantExecution /\ [Next]_vars => NoRedundantExecution'
  BY NoRedundantNext
<1> QED  BY <1>1, <1>2, LockInvariant, PTL DEF Spec

-----------------------------------------------------------------------------
(* A synced row is backed by a delivery *)

\* The history behind a synced row: its own content, the rows on their way to
\* it, and the executions on their way to those.
DeliveryInv ==
    /\ SyncedWasDelivered
    /\ \A t \in Txns, k \in Keys :
          wrote[t][k].status = "synced" => wrote[t][k].hash \in delivered[k]
    /\ \A t \in Txns :
          pc[t] \in {"select", "insert", "record", "add"} /\ outcome[t] = "success"
          => hash[t] \in delivered[cur[t]]

LEMMA DeliveryNext ==
    ASSUME LockInv, DeliveryInv, [Next]_vars
    PROVE  DeliveryInv'
<1> USE ConstantsAssumption, NoRowType
<1> USE DEF LockInv, TypeOK, SessionInv, DeliveryInv, SyncedWasDelivered
<1>1. ASSUME NEW t \in Txns, EndTxn(t), delivered' = delivered,
             \A k \in Keys : ledger'[k] \in {ledger[k], wrote[t][k]}
      PROVE  DeliveryInv'
  <2>1. SyncedWasDelivered'
    <3> SUFFICES ASSUME NEW k \in Keys, ledger'[k].status = "synced"
                 PROVE  ledger'[k].hash \in delivered[k]
      BY <1>1
    <3> QED  BY <1>1
  <2>2. ASSUME NEW u \in Txns, NEW k \in Keys, wrote'[u][k].status = "synced"
        PROVE  wrote'[u][k].hash \in delivered'[k]
    BY <1>1, <2>2 DEF EndTxn
  <2>3. ASSUME NEW u \in Txns, pc'[u] \in {"select", "insert", "record", "add"},
               outcome'[u] = "success"
        PROVE  hash'[u] \in delivered'[cur'[u]]
    BY <1>1, <2>3 DEF EndTxn
  <2> QED  BY <2>1, <2>2, <2>3
<1>2. ASSUME NEW t \in Txns, Commit(t)
      PROVE  DeliveryInv'
  BY <1>1, <1>2 DEF Commit, View
<1>3. ASSUME NEW t \in Txns, RollBack(t)
      PROVE  DeliveryInv'
  BY <1>1, <1>3 DEF RollBack
<1>4. ASSUME NEW t \in Txns, NEW S \in SUBSET Keys, NEW c \in Contents,
             BeginEvent(t, S, c)
      PROVE  DeliveryInv'
  BY <1>4 DEF BeginEvent
<1>5. ASSUME NEW t \in Txns, NEW k \in Keys, NEW c \in Contents,
             BeginDirect(t, k, c)
      PROVE  DeliveryInv'
  BY <1>5 DEF BeginDirect
<1>6. ASSUME NEW t \in Txns, NEW k \in Keys, NextWorkflow(t, k)
      PROVE  DeliveryInv'
  BY <1>6 DEF NextWorkflow
<1>7. ASSUME NEW t \in Txns, SelectNone(t) \/ InsertConflict(t) \/ RecordAdd(t)
      PROVE  DeliveryInv'
  BY <1>7 DEF SelectNone, InsertConflict, RecordAdd
<1>8. ASSUME NEW t \in Txns, SelectForUpdate(t)
      PROVE  DeliveryInv'
  BY <1>8 DEF SelectForUpdate
<1>9. ASSUME NEW t \in Txns, InsertPending(t)
      PROVE  DeliveryInv'
  BY <1>9 DEF InsertPending
<1>10. ASSUME NEW t \in Txns, NEW status \in {"success", "failed"}, Execute(t, status)
       PROVE  DeliveryInv'
  <2>1. cur[t] \in Keys
    BY <1>10 DEF Execute
  <2>2. \A k \in Keys : delivered[k] \subseteq delivered'[k]
    BY <1>10 DEF Execute
  <2>3. status = "success" => hash[t] \in delivered'[cur[t]]
    BY <1>10, <2>1 DEF Execute
  <2> QED  BY <1>10, <2>1, <2>2, <2>3 DEF Execute
<1>11. ASSUME NEW t \in Txns, RecordUpdate(t) \/ FlushAdd(t)
       PROVE  DeliveryInv'
  <2>1. cur[t] \in Keys /\ hash[t] \in Contents
    BY <1>11 DEF RecordUpdate, FlushAdd
  <2>2. PICK row \in Row : wrote' = [wrote EXCEPT ![t][cur[t]] = Recorded(t, row)]
    <3>1. CASE RecordUpdate(t)
      <4>1. View(t, cur[t]) \in Row
        BY <2>1 DEF View
      <4> QED  BY <3>1, <4>1 DEF RecordUpdate
    <3>2. CASE FlushAdd(t)
      BY <3>2 DEF FlushAdd
    <3> QED  BY <1>11, <3>1, <3>2
  <2>3. Recorded(t, row).status = "synced" => Recorded(t, row).hash \in delivered[cur[t]]
    BY <1>11, <2>1, RecordedType DEF RecordUpdate, FlushAdd
  <2>4. UNCHANGED <<ledger, cur, hash, outcome, delivered>> /\ pc' = [pc EXCEPT ![t] = "next"]
    BY <1>11 DEF RecordUpdate, FlushAdd
  <2>5. ASSUME NEW u \in Txns, NEW k \in Keys, wrote'[u][k].status = "synced"
        PROVE  wrote'[u][k].hash \in delivered'[k]
    <3>1. CASE u = t /\ k = cur[t]
      <4>1. wrote'[u][k] = Recorded(t, row)
        BY <2>2, <3>1
      <4> QED  BY <2>3, <2>4, <2>5, <3>1, <4>1
    <3>2. CASE ~(u = t /\ k = cur[t])
      <4>1. wrote'[u][k] = wrote[u][k]
        BY <2>2, <3>2
      <4> QED  BY <2>4, <2>5, <4>1
    <3> QED  BY <3>1, <3>2
  <2> QED  BY <2>4, <2>5
<1>12. ASSUME NEW w \in Workflows, ResetFailed(w) \/ ClearLedger(w)
       PROVE  DeliveryInv'
  <2>1. UNCHANGED <<txnVars, wrote, delivered>>
    BY <1>12 DEF ResetFailed, ClearLedger
  <2>2. ASSUME NEW k \in Keys, ledger'[k].status = "synced"
        PROVE  ledger'[k] = ledger[k]
    BY <1>12, <2>2 DEF ResetFailed, ClearLedger
  <2> QED  BY <2>1, <2>2 DEF txnVars
<1>13. CASE UNCHANGED vars
  BY <1>13 DEF vars
<1> HIDE DEF LockInv, DeliveryInv
<1> QED
  BY <1>2, <1>3, <1>4, <1>5, <1>6, <1>7, <1>8, <1>9, <1>10, <1>11, <1>12, <1>13
     DEF Next, Step, Crash, FlushConflict, DeadlockAbort

\* Only contents that were delivered are ever reported as synced, through any
\* number of crashes, rollbacks, resets and clears.
THEOREM SyncedIsDelivered == Spec => []SyncedWasDelivered
<1>1. Init => DeliveryInv
  BY DEF Init, DeliveryInv, SyncedWasDelivered, NoRow
<1>2. LockInv /\ DeliveryInv /\ [Next]_vars => DeliveryInv'
  BY DeliveryNext
<1>3. DeliveryInv => SyncedWasDelivered
  BY DEF DeliveryInv
<1> QED  BY <1>1, <1>2, <1>3, LockInvariant, PTL DEF Spec

-----------------------------------------------------------------------------
(* The ledger names what the target holds *)

\* Executions come from events, of which each concerns one workflow and none is
\* forced, and no session is lost: an execution is then always recorded by the
\* transaction that holds its row. A crash, a deadlock between two workflows of
\* an event, a forced or a direct execution leaves the target ahead of the ledger.
OneWorkflowPerEvent ==
    /\ "direct" \notin Origins
    /\ ~MayCrash
    /\ \A w \in Workflows : Mode[w] # "force"
    /\ \A k, l \in Keys : WorkflowOf[k] = WorkflowOf[l]

\* A session handles one key, and has its row from the decision to the commit.
OneKey(t) ==
    /\ origin[t] = "event"
    /\ pc[t] # "add"
    /\ pc[t] \in {"running", "record"} => hasId[t]
    /\ pc[t] \in {"select", "insert", "running", "record"} => todo[t] = {}
    /\ \A k, l \in todo[t] : k = l
    /\ \A k \in Keys : lock[k] = t =>
          /\ pc[t] \in {"running", "record", "next"}
          /\ todo[t] = {}
          /\ cur[t] = k

\* The row the holder of k has in mind, unless it has just executed the workflow.
HolderMatches(t, k) ==
    lock[k] = t =>
        /\ pc[t] # "record" /\ View(t, k).status = "synced" => target[k] = View(t, k).hash
        /\ pc[t] = "record" /\ outcome[t] = "success" => target[k] = hash[t]

TargetInv ==
    /\ \A t \in Txns : OneKey(t)
    /\ \A t \in Txns, k \in Keys : HolderMatches(t, k)
    /\ LedgerMatchesTarget

\* What t does not touch: the other sessions and their rows.
OthersStay(t) ==
    /\ \A u \in Txns \ {t} :
          /\ pc'[u] = pc[u] /\ origin'[u] = origin[u] /\ todo'[u] = todo[u]
          /\ cur'[u] = cur[u] /\ hash'[u] = hash[u] /\ hasId'[u] = hasId[u]
          /\ outcome'[u] = outcome[u] /\ wrote'[u] = wrote[u]
          /\ \A k \in Keys : lock'[k] = u <=> lock[k] = u
    /\ \A k \in Keys : lock[k] # t => target'[k] = target[k]

LEMMA OthersMatch ==
    ASSUME TargetInv, NEW t \in Txns, OthersStay(t),
           \A k \in Keys : lock[k] \in Txns \ {t} => ledger'[k] = ledger[k],
           NEW u \in Txns \ {t}
    PROVE  OneKey(u)' /\ \A k \in Keys : HolderMatches(u, k)'
<1>1. OneKey(u) /\ \A k \in Keys : HolderMatches(u, k) BY DEF TargetInv
<1>2. OneKey(u)' BY <1>1 DEF OneKey, OthersStay
<1>3. ASSUME NEW k \in Keys, lock'[k] = u
      PROVE  /\ pc'[u] # "record" /\ View(u, k)'.status = "synced" =>
                    target'[k] = View(u, k)'.hash
             /\ pc'[u] = "record" /\ outcome'[u] = "success" => target'[k] = hash'[u]
      <2>1. lock[k] = u /\ target'[k] = target[k] /\ ledger'[k] = ledger[k]
            BY <1>3 DEF OthersStay
      <2>2. View(u, k)' = View(u, k) BY <2>1 DEF View, Written, OthersStay
      <2>3. HolderMatches(u, k) BY <1>1
      <2> QED BY <2>1, <2>2, <2>3 DEF HolderMatches, OthersStay
<1> QED BY <1>2, <1>3 DEF HolderMatches

\* A step of t that neither commits nor gives up.
LEMMA SessionStep ==
    ASSUME LockInv, TargetInv, NEW t \in Txns, OthersStay(t), ledger' = ledger,
           \A k \in Keys : lock[k] = t => lock'[k] = t,
           OneKey(t)', \A k \in Keys : HolderMatches(t, k)'
    PROVE  TargetInv'
<1>1. \A u \in Txns \ {t} : OneKey(u)' /\ \A k \in Keys : HolderMatches(u, k)'
      BY OthersMatch
<1>2. LedgerMatchesTarget'
      <2>1. \A k \in Keys : lock'[k] = NoTxn => lock[k] = NoTxn
            BY ConstantsAssumption DEF LockInv, TypeOK, OthersStay
      <2> QED BY <2>1, ConstantsAssumption DEF TargetInv, LedgerMatchesTarget, OthersStay
<1> QED BY <1>1, <1>2 DEF TargetInv

\* Whoever holds a row does not wait, so nobody waits for ever.
LEMMA NeverDeadlocked ==
    ASSUME LockInv, TargetInv, NEW t \in Txns
    PROVE  ~Deadlocked(t)
<1> SUFFICES ASSUME NEW S \in SUBSET Txns, t \in S, \A u \in S : BlockedBy(u) \in S
             PROVE  FALSE
    BY DEF Deadlocked
<1>1. \A u \in S : BlockedBy(u) # NoTxn BY ConstantsAssumption
<1>2. \A u \in S : pc[u] \in {"select", "insert", "add"} /\ BlockedBy(u) = lock[cur[u]]
      BY <1>1 DEF BlockedBy
<1>3. PICK v \in S : lock[cur[t]] = v /\ cur[t] \in Keys
      BY <1>2 DEF LockInv, SessionInv
<1>4. OneKey(v) BY DEF TargetInv
<1>5. pc[v] \in {"running", "record", "next"} BY <1>3, <1>4 DEF OneKey
<1> QED BY <1>2, <1>5

\* should_sync's answer, where no execution is forced or direct.
LEMMA EventCheck ==
    ASSUME OneWorkflowPerEvent, NEW t \in Txns, origin[t] = "event", cur[t] \in Keys, NEW d
    PROVE  /\ AfterCheck(t, d) \in {"next", "running"}
           /\ d = "skip" => AfterCheck(t, d) = "next"
<1>1. WorkflowOf[cur[t]] \in Workflows BY ConstantsAssumption
<1> QED BY <1>1 DEF AfterCheck, Skips, OneWorkflowPerEvent

LEMMA TargetInit == Init => TargetInv
BY ConstantsAssumption
   DEF Init, TargetInv, OneKey, HolderMatches, LedgerMatchesTarget, NoRow

LEMMA TargetNext ==
    ASSUME OneWorkflowPerEvent, LockInv, TargetInv, [Next]_vars
    PROVE  TargetInv'
<1> USE ConstantsAssumption
<1>1. TypeOK /\ LedgerMatchesTarget BY DEF LockInv, TargetInv
<1>2. \A t \in Txns : OneKey(t) BY DEF TargetInv
<1>3. \A t \in Txns, k \in Keys : HolderMatches(t, k) BY DEF TargetInv
<1>4. ASSUME NEW t \in Txns, NEW S \in SUBSET Keys, NEW c \in Contents, BeginEvent(t, S, c)
      PROVE  TargetInv'
      <2>1. OthersStay(t) /\ ledger' = ledger /\ lock' = lock
            BY <1>1, <1>4 DEF BeginEvent, OthersStay, TypeOK
      <2>2. \A k, l \in S : k = l BY <1>4 DEF BeginEvent, OneWorkflowPerEvent
      <2>3. \A k \in Keys : lock[k] # t BY <1>2, <1>4 DEF BeginEvent, OneKey
      <2>4. OneKey(t)'
            BY <1>1, <1>4, <2>1, <2>2, <2>3 DEF BeginEvent, OneKey, TypeOK
      <2>5. \A k \in Keys : HolderMatches(t, k)' BY <2>1, <2>3 DEF HolderMatches
      <2> QED BY <2>1, <2>4, <2>5, SessionStep
<1>5. ASSUME NEW t \in Txns, NEW k \in Keys, NextWorkflow(t, k) PROVE TargetInv'
      <2>1. OthersStay(t) /\ ledger' = ledger /\ lock' = lock
            BY <1>1, <1>5 DEF NextWorkflow, OthersStay, TypeOK
      <2>2. \A l \in Keys : lock[l] # t BY <1>2, <1>5 DEF NextWorkflow, OneKey
      <2>3. todo[t] \ {k} = {} BY <1>2, <1>5 DEF NextWorkflow, OneKey
      <2>4. OneKey(t)'
            BY <1>1, <1>2, <1>5, <2>1, <2>2, <2>3 DEF NextWorkflow, OneKey, TypeOK
      <2>5. \A l \in Keys : HolderMatches(t, l)' BY <2>1, <2>2 DEF HolderMatches
      <2> QED BY <2>1, <2>4, <2>5, SessionStep
<1>6. ASSUME NEW t \in Txns, SelectNone(t) PROVE TargetInv'
      <2>1. OthersStay(t) /\ ledger' = ledger /\ lock' = lock
            BY <1>1, <1>6 DEF SelectNone, OthersStay, TypeOK
      <2>2. \A l \in Keys : lock[l] # t BY <1>2, <1>6 DEF SelectNone, OneKey
      <2>3. OneKey(t)' BY <1>1, <1>2, <1>6, <2>1, <2>2 DEF SelectNone, OneKey, TypeOK
      <2>4. \A l \in Keys : HolderMatches(t, l)' BY <2>1, <2>2 DEF HolderMatches
      <2> QED BY <2>1, <2>3, <2>4, SessionStep
<1>7. ASSUME NEW t \in Txns, InsertConflict(t) PROVE TargetInv'
      <2>1. OthersStay(t) /\ ledger' = ledger /\ lock' = lock
            BY <1>1, <1>7 DEF InsertConflict, OthersStay, TypeOK
      <2>2. \A l \in Keys : lock[l] # t BY <1>2, <1>7 DEF InsertConflict, OneKey
      <2>3. cur[t] \in Keys BY <1>7 DEF InsertConflict, LockInv, SessionInv
      <2>4. AfterCheck(t, "skip") = "next" BY <1>2, <2>3, EventCheck DEF OneKey
      <2>5. OneKey(t)'
            BY <1>1, <1>2, <1>7, <2>1, <2>2, <2>4 DEF InsertConflict, OneKey, TypeOK
      <2>6. \A l \in Keys : HolderMatches(t, l)' BY <2>1, <2>2 DEF HolderMatches
      <2> QED BY <2>1, <2>5, <2>6, SessionStep
<1>8. ASSUME NEW t \in Txns, NEW k \in Keys, k = cur[t], NEW p \in {"next", "running"},
             pc[t] \in {"select", "insert"}, lock[k] = NoTxn,
             lock' = [lock EXCEPT ![k] = t], hasId' = [hasId EXCEPT ![t] = TRUE],
             pc' = [pc EXCEPT ![t] = p], View(t, k)'.status \in {ledger[k].status, "pending"},
             View(t, k)'.status = "synced" => View(t, k)'.hash = ledger[k].hash,
             \A u \in Txns \ {t} : wrote'[u] = wrote[u],
             UNCHANGED <<ledger, origin, todo, cur, hash, outcome, target>>
      PROVE  TargetInv'
      <2>1. OthersStay(t) BY <1>1, <1>8 DEF OthersStay, TypeOK
      <2>2. \A l \in Keys : lock[l] # t BY <1>2, <1>8 DEF OneKey
      <2>3. \A l \in Keys : lock'[l] = t => l = k BY <1>1, <1>8, <2>2 DEF TypeOK
      <2>4. OneKey(t)'
            BY <1>1, <1>2, <1>8, <2>3 DEF OneKey, TypeOK
      <2>5. ASSUME NEW l \in Keys PROVE HolderMatches(t, l)'
            <3>1. pc'[t] = p BY <1>1, <1>8 DEF TypeOK
            <3>2. View(t, k)'.status = "synced" => target'[k] = View(t, k)'.hash
                  BY <1>1, <1>8 DEF LedgerMatchesTarget
            <3> QED BY <2>3, <3>1, <3>2 DEF HolderMatches
      <2> QED BY <1>8, <2>1, <2>2, <2>4, <2>5, SessionStep
<1>9. ASSUME NEW t \in Txns, SelectForUpdate(t) PROVE TargetInv'
      <2>1. cur[t] \in Keys BY <1>9 DEF SelectForUpdate, LockInv, SessionInv
      <2>2. AfterCheck(t, Decision(ledger[cur[t]], hash[t])) \in {"next", "running"}
            BY <1>2, <2>1, EventCheck DEF OneKey
      <2>3. UNCHANGED <<ledger, origin, todo, cur, hash, outcome, wrote, target>>
            BY <1>9 DEF SelectForUpdate
      <2>4. wrote[t][cur[t]].status = "absent"
            BY <1>9, <2>1 DEF SelectForUpdate, LockInv, WrittenLocked
      <2>5. View(t, cur[t])' = ledger[cur[t]] BY <2>1, <2>3, <2>4 DEF View, Written
      <2>6. /\ pc[t] = "select" /\ lock[cur[t]] = NoTxn
            /\ lock' = [lock EXCEPT ![cur[t]] = t] /\ hasId' = [hasId EXCEPT ![t] = TRUE]
            /\ pc' = [pc EXCEPT ![t] = AfterCheck(t, Decision(ledger[cur[t]], hash[t]))]
            BY <1>9 DEF SelectForUpdate
      <2>7. PICK k \in Keys : k = cur[t] BY <2>1
      <2>8. PICK p \in {"next", "running"} :
               p = AfterCheck(t, Decision(ledger[cur[t]], hash[t]))
            BY <2>2
      <2>9. View(t, k)' = ledger[k] BY <2>3, <2>5, <2>7 DEF View
      <2> QED BY <1>8, <2>3, <2>6, <2>7, <2>8, <2>9
<1>10. ASSUME NEW t \in Txns, InsertPending(t) PROVE TargetInv'
      <2>1. PICK k \in Keys : k = cur[t] BY <1>10 DEF InsertPending, LockInv, SessionInv
      <2>2. PICK p \in {"next", "running"} : p = AfterCheck(t, "sync")
            BY <1>2, <2>1, EventCheck DEF OneKey
      <2>3. UNCHANGED <<ledger, origin, todo, cur, hash, outcome, target>>
            BY <1>10 DEF InsertPending
      <2>4. /\ pc[t] = "insert" /\ lock[k] = NoTxn
            /\ lock' = [lock EXCEPT ![k] = t] /\ hasId' = [hasId EXCEPT ![t] = TRUE]
            /\ pc' = [pc EXCEPT ![t] = p]
            /\ wrote' = [wrote EXCEPT ![t][k] =
                           [status |-> "pending", hash |-> hash[t], attempts |-> 0]]
            BY <1>10, <2>1, <2>2 DEF InsertPending
      <2>5. /\ wrote'[t][k].status = "pending"
            /\ \A u \in Txns \ {t} : wrote'[u] = wrote[u]
            BY <1>1, <2>4 DEF TypeOK
      <2>6. View(t, k)'.status = "pending" BY <2>5 DEF View, Written
      <2> QED BY <1>8, <2>1, <2>3, <2>4, <2>5, <2>6
<1>11. ASSUME NEW t \in Txns, NEW status \in {"success", "failed"}, Execute(t, status)
      PROVE  TargetInv'
      <2>1. PICK k \in Keys : k = cur[t] BY <1>11 DEF Execute, LockInv, SessionInv
      <2>2. pc[t] = "running" /\ origin[t] = "event" /\ hasId[t] /\ todo[t] = {}
            BY <1>2, <1>11 DEF Execute, OneKey
      <2>3. /\ pc' = [pc EXCEPT ![t] = "record"] /\ outcome' = [outcome EXCEPT ![t] = status]
            /\ target' = [target EXCEPT ![k] = IF status = "success" THEN hash[t]
                                               ELSE NoContent]
            /\ UNCHANGED <<ledger, lock, origin, todo, cur, hash, hasId, wrote>>
            BY <1>11, <2>1, <2>2 DEF Execute
      <2>4. lock[k] = t BY <2>1, <2>2 DEF LockInv, IdLocked
      <2>5. OthersStay(t) BY <1>1, <2>3, <2>4 DEF OthersStay, TypeOK
      <2>6. \A l \in Keys : lock[l] = t => l = k BY <1>2, <2>1 DEF OneKey
      <2>7. OneKey(t)' BY <1>1, <1>2, <2>1, <2>2, <2>3, <2>6 DEF OneKey, TypeOK
      <2>8. \A l \in Keys : HolderMatches(t, l)'
            <3>1. pc'[t] = "record" /\ outcome'[t] = status BY <1>1, <2>3 DEF TypeOK
            <3>2. status = "success" => target'[k] = hash'[t] BY <1>1, <2>3 DEF TypeOK
            <3> QED BY <2>3, <2>6, <3>1, <3>2 DEF HolderMatches
      <2> QED BY <2>3, <2>5, <2>7, <2>8, SessionStep
<1>12. ASSUME NEW t \in Txns, RecordUpdate(t) PROVE TargetInv'
      <2>1. PICK k \in Keys : k = cur[t] BY <1>12 DEF RecordUpdate, LockInv, SessionInv
      <2>2. pc[t] = "record" /\ hasId[t] /\ todo[t] = {} /\ hash[t] \in Contents
            BY <1>2, <1>12 DEF RecordUpdate, OneKey, LockInv, SessionInv
      <2>3. /\ pc' = [pc EXCEPT ![t] = "next"]
            /\ wrote' = [wrote EXCEPT ![t][k] = Recorded(t, View(t, k))]
            /\ UNCHANGED <<ledger, lock, origin, todo, cur, hash, hasId, outcome, target>>
            BY <1>12, <2>1 DEF RecordUpdate
      <2>4. lock[k] = t BY <2>1, <2>2 DEF LockInv, IdLocked
      <2>5. OthersStay(t) BY <1>1, <2>3 DEF OthersStay, TypeOK
      <2>6. \A l \in Keys : lock[l] = t => l = k BY <1>2, <2>1 DEF OneKey
      <2>7. OneKey(t)' BY <1>1, <1>2, <2>1, <2>2, <2>3, <2>6 DEF OneKey, TypeOK
      <2>8. View(t, k) \in Row BY <1>1 DEF View, TypeOK
      <2>9. wrote'[t][k] = Recorded(t, View(t, k)) BY <1>1, <2>3 DEF TypeOK
      <2>10. /\ wrote'[t][k].status \in {"synced", "failed"} /\ wrote'[t][k].hash = hash[t]
             /\ wrote'[t][k].status = "synced" => outcome[t] = "success"
            BY <2>2, <2>8, <2>9, RecordedType
      <2>11. View(t, k)' = wrote'[t][k] BY <2>10 DEF View, Written
      <2>12. \A l \in Keys : HolderMatches(t, l)'
            <3>1. pc'[t] = "next" BY <1>1, <2>3 DEF TypeOK
            <3>2. outcome[t] = "success" => target[k] = hash[t]
                  BY <1>3, <2>2, <2>4 DEF HolderMatches
            <3> QED BY <2>3, <2>6, <2>10, <2>11, <3>1, <3>2 DEF HolderMatches
      <2> QED BY <2>3, <2>5, <2>7, <2>12, SessionStep
<1>13. ASSUME NEW t \in Txns, Commit(t) PROVE TargetInv'
      <2>1. /\ pc[t] = "next" /\ ledger' = [k \in Keys |-> View(t, k)] /\ EndTxn(t)
            /\ target' = target
            BY <1>13 DEF Commit
      <2>2. /\ OthersStay(t) /\ pc'[t] = "idle" /\ origin'[t] = "event" /\ todo'[t] = {}
            /\ \A k \in Keys : lock'[k] # t
            BY <1>1, <2>1 DEF EndTxn, ReleaseLocks, OthersStay, TypeOK
      <2>3. \A k \in Keys : lock[k] # t => ledger'[k] = ledger[k]
            BY <2>1 DEF View, Written, LockInv, WrittenLocked
      <2>4. \A u \in Txns \ {t} : OneKey(u)' /\ \A k \in Keys : HolderMatches(u, k)'
            BY <2>2, <2>3, OthersMatch
      <2>5. OneKey(t)' /\ \A k \in Keys : HolderMatches(t, k)'
            BY <2>2 DEF OneKey, HolderMatches
      <2>6. ASSUME NEW k \in Keys, lock'[k] = NoTxn, ledger'[k].status = "synced"
            PROVE  target'[k] = ledger'[k].hash
            <3>1. CASE lock[k] = t
                  BY <1>3, <2>1, <2>6, <3>1 DEF HolderMatches
            <3>2. CASE lock[k] # t
                  <4>1. lock[k] = NoTxn BY <1>1, <2>2, <2>6, <3>2 DEF TypeOK, OthersStay
                  <4> QED BY <1>1, <2>1, <2>3, <2>6, <3>2, <4>1 DEF LedgerMatchesTarget
            <3> QED BY <3>1, <3>2
      <2> QED BY <2>4, <2>5, <2>6 DEF TargetInv, LedgerMatchesTarget
<1>14. ASSUME NEW w \in Workflows, ResetFailed(w) \/ ClearLedger(w) PROVE TargetInv'
      <2>1. UNCHANGED <<lock, pc, origin, todo, cur, hash, hasId, outcome, wrote, target>>
            BY <1>14 DEF ResetFailed, ClearLedger, txnVars
      <2>2. \A k \in Keys :
               /\ lock[k] # NoTxn => ledger'[k] = ledger[k]
               /\ ledger'[k].status = "synced" => ledger'[k] = ledger[k]
            BY <1>14, NoRowType DEF ResetFailed, ClearLedger
      <2>3. \A t \in Txns : OneKey(t)' BY <1>2, <2>1 DEF OneKey
      <2>4. ASSUME NEW t \in Txns, NEW k \in Keys PROVE HolderMatches(t, k)'
            <3>1. lock[k] = t => View(t, k)' = View(t, k)
                  BY <2>1, <2>2 DEF View, Written
            <3> QED BY <1>3, <2>1, <3>1 DEF HolderMatches
      <2>5. LedgerMatchesTarget' BY <1>1, <2>1, <2>2 DEF LedgerMatchesTarget
      <2> QED BY <2>3, <2>4, <2>5 DEF TargetInv
<1>15. CASE UNCHANGED vars
      BY <1>15 DEF vars, TargetInv, OneKey, HolderMatches, LedgerMatchesTarget, View, Written
<1>16. ASSUME NEW t \in Txns,
              \/ \E k \in Keys, c \in Contents : BeginDirect(t, k, c)
              \/ RecordAdd(t) \/ FlushAdd(t) \/ FlushConflict(t)
              \/ DeadlockAbort(t) \/ Crash(t)
      PROVE  FALSE
      <2>1. OneKey(t) BY <1>2
      <2>2. ~DeadlockAbort(t) BY NeverDeadlocked DEF DeadlockAbort
      <2> QED BY <1>16, <2>1, <2>2 DEF BeginDirect, OneWorkflowPerEvent, RecordAdd, FlushAdd,
                                      FlushConflict, Crash, OneKey
<1> QED
    BY <1>4, <1>5, <1>6, <1>7, <1>9, <1>10, <1>11, <1>12, <1>13, <1>14, <1>15, <1>16
       DEF Next, Step

\* _execute_with_sync under the row lock: where every execution is that of one
\* event for one workflow and no session is lost, a row that says "synced" and is
\* not locked names what the target holds, so skipping its hash loses nothing.
THEOREM LedgerMatches ==
    ASSUME OneWorkflowPerEvent
    PROVE  Spec => []LedgerMatchesTarget
<1>1. LockInv /\ TargetInv /\ [Next]_vars => TargetInv' BY TargetNext
<1>2. TargetInv => LedgerMatchesTarget BY DEF TargetInv
<1> QED BY <1>1, <1>2, TargetInit, LockInvariant, PTL DEF Spec

=============================================================================

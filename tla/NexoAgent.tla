------------------------------ MODULE NexoAgent ------------------------------
(***************************************************************************)
(* The on-premise agent of InsERT nexo (onpremise/nexo-agent): the sync      *)
(* engine lists the ERP's records, queues them in SQLite and sends the queue *)
(* to the cloud, over a connection to the ERP that requests open again.      *)
(*                                                                         *)
(* One process, one worker: the engine is a single task, which is cut at     *)
(* its awaits.  The converters leave updated_at unset, so the comparison     *)
(* with last_sync_at never skips a record and sync_state decides nothing;    *)
(* it is left out, with the heartbeat, which only reads.                     *)
(***************************************************************************)
EXTENDS Naturals, SequencesExt

CONSTANTS
    Records,       \* contractors, products, and the stock report
    Sources,       \* the first pages of the listings, in the engine's order
    Limit,         \* entries of one flush
    MaxAttempts,   \* max_attempts
    ChangeBound,   \* bound: changes of a record
    FaultBound     \* bound: failures of the ERP, SQLite, the cloud and the process

ASSUME AgentAssumption ==
    /\ Sources \in Seq(Seq(Records)) /\ Sources # <<>>
    /\ Limit \in Nat \ {0}
    /\ MaxAttempts \in Nat \ {0}
    /\ ChangeBound \in Nat
    /\ FaultBound \in Nat

VARIABLES
    erp,       \* version of each record in the ERP
    erpUp,     \* the ERP can be reached
    linked,    \* the connection's status is CONNECTED
    at,        \* where the engine is
    source,    \* listing the engine works on
    batch,     \* listed entries that are to be queued
    queue,     \* pending rows of outbound_queue; seen is history: it was received
    cursor,    \* row that is being sent
    left,      \* rows of get_pending that are left, from cursor on
    answer,    \* outcome of the request
    cloud,     \* version of each record the cloud received last
    faults

engine == <<at, source, batch, cursor, left, answer>>
vars == <<erp, erpUp, linked, engine, queue, cloud, faults>>

Versions == 0 .. ChangeBound
Row == [rec : Records, ver : Versions, tries : Nat, seen : BOOLEAN]
Listed == [rec : Records, ver : Versions]

TypeOK ==
    /\ erp \in [Records -> Versions]
    /\ erpUp \in BOOLEAN
    /\ linked \in BOOLEAN
    /\ at \in {"off", "sleep", "list", "enqueue", "flush", "send", "mark"}
    /\ source \in 1 .. Len(Sources)
    /\ batch \in Seq(Listed)
    /\ queue \in Seq(Row)
    /\ cursor \in Nat
    /\ left \in Nat
    /\ answer \in {"none", "ok", "rejected", "unreachable"}
    /\ cloud \in [Records -> Versions]
    /\ faults \in 0 .. FaultBound

Init ==
    /\ erp = [r \in Records |-> 0]
    /\ erpUp = TRUE
    /\ linked = TRUE
    /\ at = "sleep"
    /\ source = 1
    /\ batch = <<>>
    /\ queue = <<>>
    /\ cursor = 1
    /\ left = 0
    /\ answer = "none"
    /\ cloud = [r \in Records |-> 0]
    /\ faults = 0

Fault == faults < FaultBound /\ faults' = faults + 1

\* What the engine's task holds between two cycles.
Forget ==
    /\ source' = 1
    /\ batch' = <<>>
    /\ cursor' = 1
    /\ left' = 0
    /\ answer' = "none"

Sleep == at' = "sleep" /\ Forget

\* The cycle is skipped, the flush too, without a connection.
StartCycle ==
    /\ at = "sleep"
    /\ linked
    /\ at' = "list"
    /\ UNCHANGED <<erp, erpUp, linked, source, batch, cursor, left, answer, queue, cloud, faults>>

NextSource ==
    /\ batch' = <<>>
    /\ IF source < Len(Sources)
       THEN at' = "list" /\ source' = source + 1
       ELSE at' = "flush" /\ source' = 1
    /\ UNCHANGED <<cursor, left, answer>>

\* ensure_connected, the listing and get_sync_state; an exception skips the source.
\* External: a handle that an outage broke stays CONNECTED and is not reopened
\* (nexo_connection.py 276-285); the vendor's SDK is assumed to list through it
\* again once the ERP is up.
List ==
    /\ at = "list"
    /\ linked' = (linked \/ erpUp)
    /\ \/ /\ erpUp
          /\ at' = "enqueue"
          /\ batch' = [i \in 1 .. Len(Sources[source]) |->
                         [rec |-> Sources[source][i], ver |-> erp[Sources[source][i]]]]
          /\ UNCHANGED <<source, cursor, left, answer, faults>>
       \/ NextSource /\ IF erpUp THEN Fault ELSE UNCHANGED faults
    /\ UNCHANGED <<erp, erpUp, queue, cloud>>

\* One row is inserted, or SQLite fails and the rest of the source is skipped.
Enqueue ==
    /\ at = "enqueue"
    /\ batch # <<>>
    /\ \/ /\ queue' = Append(queue, [rec |-> batch[1].rec, ver |-> batch[1].ver,
                                     tries |-> 0, seen |-> FALSE])
          /\ batch' = Tail(batch)
          /\ UNCHANGED <<at, source, cursor, left, answer, faults>>
       \/ /\ Fault
          /\ NextSource
          /\ UNCHANGED queue
    /\ UNCHANGED <<erp, erpUp, linked, cloud>>

EndSource ==
    /\ at = "enqueue"
    /\ batch = <<>>
    /\ NextSource
    /\ UNCHANGED <<erp, erpUp, linked, queue, cloud, faults>>

Lower(a, b) == IF a < b THEN a ELSE b

\* Mutant: the newest rows are read.
GetNewest ==
    /\ at = "flush"
    /\ IF queue = <<>>
       THEN Sleep
       ELSE /\ at' = "send"
            /\ left' = Lower(Limit, Len(queue))
            /\ cursor' = Len(queue) + 1 - left'
            /\ UNCHANGED <<source, batch, answer>>
    /\ UNCHANGED <<erp, erpUp, linked, queue, cloud, faults>>

\* get_pending: the oldest rows. Only the engine changes the table, so the
\* rows it has read are still the ones from cursor on.
GetPending ==
    /\ at = "flush"
    /\ \/ /\ queue # <<>>
          /\ at' = "send"
          /\ cursor' = 1
          /\ left' = Lower(Limit, Len(queue))
          /\ UNCHANGED <<source, batch, answer, faults>>
       \/ queue = <<>> /\ Sleep /\ UNCHANGED faults
       \/ Fault /\ Sleep
    /\ UNCHANGED <<erp, erpUp, linked, queue, cloud>>

Received ==
    /\ queue' = [queue EXCEPT ![cursor].seen = TRUE]
    /\ cloud' = [cloud EXCEPT ![queue[cursor].rec] = queue[cursor].ver]

\* A request that fails may have been received.
Post ==
    /\ at = "send"
    /\ at' = "mark"
    /\ \/ answer' = "ok" /\ Received /\ UNCHANGED faults
       \/ /\ answer' \in {"rejected", "unreachable"}
          /\ Fault
          /\ Received \/ UNCHANGED <<queue, cloud>>
    /\ UNCHANGED <<erp, erpUp, linked, source, batch, cursor, left>>

\* Mutant: one attempt too many.
MarkFailedLate ==
    queue' = IF queue[cursor].tries + 1 > MaxAttempts
             THEN RemoveAt(queue, cursor)
             ELSE [queue EXCEPT ![cursor].tries = @ + 1]

MarkFailed ==
    queue' = IF queue[cursor].tries + 1 >= MaxAttempts
             THEN RemoveAt(queue, cursor)            \* dead_letter
             ELSE [queue EXCEPT ![cursor].tries = @ + 1]

NextRow ==
    IF left = 1
    THEN Sleep
    ELSE /\ at' = "send"
         /\ left' = left - 1
         /\ cursor' = IF Len(queue') < Len(queue) THEN cursor ELSE cursor + 1
         /\ answer' = "none"
         /\ UNCHANGED <<source, batch>>

\* The row is marked; the flush ends when the cloud is unreachable, or when
\* SQLite fails, which leaves the row as it was.
Mark ==
    /\ at = "mark"
    /\ \/ answer = "ok" /\ queue' = RemoveAt(queue, cursor) /\ NextRow /\ UNCHANGED faults
       \/ answer = "rejected" /\ MarkFailed /\ NextRow /\ UNCHANGED faults
       \/ answer = "unreachable" /\ MarkFailed /\ Sleep /\ UNCHANGED faults
       \/ Fault /\ Sleep /\ UNCHANGED queue
    /\ UNCHANGED <<erp, erpUp, linked, cloud>>

EngineStep == StartCycle \/ List \/ Enqueue \/ EndSource \/ GetPending \/ Post \/ Mark

\* Mutant: the health check reports the status and does not connect.
HealthCheckReads ==
    /\ at # "off"
    /\ UNCHANGED vars

\* GET /health, /readiness: the pool connects when it is not connected.
HealthCheck ==
    /\ at # "off"
    /\ ~ linked /\ erpUp
    /\ linked' = TRUE
    /\ UNCHANGED <<erp, erpUp, engine, queue, cloud, faults>>

\* POST /connection/reconnect disconnects first.
Reconnect ==
    /\ at # "off"
    /\ linked /\ ~ erpUp
    /\ linked' = FALSE
    /\ UNCHANGED <<erp, erpUp, engine, queue, cloud, faults>>

Crash ==
    /\ at # "off"
    /\ Fault
    /\ at' = "off"
    /\ linked' = FALSE
    /\ Forget
    /\ UNCHANGED <<erp, erpUp, queue, cloud>>

\* lifespan: the agent starts also without the ERP.
Restart ==
    /\ at = "off"
    /\ Sleep
    /\ linked' = erpUp
    /\ UNCHANGED <<erp, erpUp, queue, cloud, faults>>

Change(r) ==
    /\ erp[r] < ChangeBound
    /\ erp' = [erp EXCEPT ![r] = @ + 1]
    /\ UNCHANGED <<erpUp, linked, engine, queue, cloud, faults>>

ErpFails ==
    /\ erpUp
    /\ Fault
    /\ erpUp' = FALSE
    /\ UNCHANGED <<erp, linked, engine, queue, cloud>>

ErpRecovers ==
    /\ ~ erpUp
    /\ erpUp' = TRUE
    /\ UNCHANGED <<erp, linked, engine, queue, cloud, faults>>

Next ==
    \/ EngineStep
    \/ HealthCheck \/ Reconnect \/ Crash \/ Restart
    \/ ErpFails \/ ErpRecovers
    \/ \E r \in Records : Change(r)

Spec == Init /\ [][Next]_vars

\* The engine's task runs; the container's health check asks /health; Docker
\* and the service wrapper restart the agent; the ERP comes back.
Fairness ==
    /\ WF_vars(EngineStep)
    /\ WF_vars(HealthCheck)
    /\ WF_vars(Restart)
    /\ WF_vars(ErpRecovers)

FairSpec == Spec /\ Fairness

-----------------------------------------------------------------------------
(* Properties *)

\* Rows are sent, marked and sent again across crashes, SQLite failures and lost
\* answers: the queue is an outbox that an entry leaves only when the cloud has
\* received it or MaxAttempts attempts have failed, and the oldest entry leaves.
Outbox == INSTANCE Outbox WITH outbox <- queue
IsOutbox == Outbox!Spec

\* get_pending orders by id: an older version reaches the cloud after a newer
\* one only as a row that was tried before.
OnlyRetriesGoBack ==
    [][\A r \in Records : cloud'[r] < cloud[r] =>
          queue[cursor].tries > 0 \/ queue[cursor].seen]_vars

\* "queues operations locally (SQLite) when cloud connection is lost, syncs when
\* restored" (docs/STANDARDS.md:271): when the ERP's data and the failures come to
\* an end, the cloud ends with the ERP's versions, whatever was delivered late,
\* twice or given up.
CloudCatchesUp == <>[](\A i \in 1 .. Len(Sources) :
                         \A j \in 1 .. Len(Sources[i]) : cloud[Sources[i][j]] = erp[Sources[i][j]])
=============================================================================

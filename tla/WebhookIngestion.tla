-------------------------- MODULE WebhookIngestion --------------------------
(***************************************************************************)
(* Events from outside: the webhook endpoint with core/                    *)
(* webhook_ingestion.py (verify, deduplicate in Redis, persist, process in *)
(* the background), the replay endpoint, and the plain event endpoint,     *)
(* which all end in FlowEngine.process_event.                              *)
(*                                                                         *)
(* A webhook request r stores at most one row of webhook_events, also      *)
(* called r, and starts one background task, the worker r.  Sessions serve *)
(* the replay and the event endpoint, one request at a time.  A flushed    *)
(* UPDATE of a row holds its lock until the database session commits or is *)
(* lost (READ COMMITTED).                                                  *)
(***************************************************************************)
EXTENDS FlowEngine

CONSTANTS
    Requests,       \* webhook requests, redeliveries included
    Sessions,       \* requests to the replay and event endpoints at a time
    ExternalId,     \* the id the sender gave the event, NoId when it has none
    NoId,
    NoWorker,
    DeadLetterAfter, \* _MAX_RETRIES_BEFORE_DLQ
    AttemptBound,   \* bound: how often a row is processed
    Expires         \* whether dedup keys may reach their TTL

Ids == {ExternalId[r] : r \in Requests} \ {NoId}

ASSUME IntakeAssumption ==
    /\ Workers = Requests \cup Sessions
    /\ Requests \cap Sessions = {}
    /\ DOMAIN ExternalId = Requests
    /\ NoWorker \notin Workers
    /\ DeadLetterAfter \in Nat \ {0}
    /\ AttemptBound \in Nat
    /\ Expires \in BOOLEAN

VARIABLES
    req,       \* where the handler of a request is, or how it answered
    dedup,     \* dedup keys in Redis
    status,    \* processing_status of the committed rows
    retries,   \* retry_count of the committed rows
    lock,      \* the worker whose session holds the row
    work,      \* where a worker is
    row,       \* the row a worker has loaded, itself for background tasks
    seen,      \* the retry_count it loaded
    attempts,  \* history: how often processing of a row was begun
    accepted,  \* history: ids whose key has not expired since a request with
               \* the id was answered "accepted"
    earlier    \* history: those of them known when the request arrived

intakeVars == <<req, dedup, status, retries, lock, work, row, seen, attempts, accepted,
                earlier>>
vars == <<intakeVars, flowVars>>

Answers == {"accepted", "duplicate", "rejected", "error"}

TypeOK ==
    /\ FlowTypeOK
    /\ req \in [Requests -> Answers \cup {"idle", "check", "mark", "commit"}]
    /\ dedup \subseteq Ids
    /\ status \in [Requests -> {"absent", "received", "processed", "failed", "dead_letter"}]
    /\ retries \in [Requests -> Nat]
    /\ lock \in [Requests -> Workers \cup {NoWorker}]
    /\ work \in [Workers -> {"idle", "queued", "read", "busy", "done", "dead"}]
    /\ row \in [Workers -> Requests \cup {NoWorker}]
    /\ seen \in [Workers -> Nat]
    /\ attempts \in [Requests -> Nat]
    /\ accepted \subseteq Ids
    /\ earlier \in [Requests -> SUBSET Ids]

Init ==
    /\ FlowInit
    /\ req = [r \in Requests |-> "idle"]
    /\ dedup = {}
    /\ status = [r \in Requests |-> "absent"]
    /\ retries = [r \in Requests |-> 0]
    /\ lock = [r \in Requests |-> NoWorker]
    /\ work = [w \in Workers |-> "idle"]
    /\ row = [w \in Workers |-> IF w \in Requests THEN w ELSE NoWorker]
    /\ seen = [w \in Workers |-> 0]
    /\ attempts = [r \in Requests |-> 0]
    /\ accepted = {}
    /\ earlier = [r \in Requests |-> {}]

-----------------------------------------------------------------------------
(* receive_webhook and ingest_webhook *)

Goto(r, place) == req' = [req EXCEPT ![r] = place]

\* Tenant, JSON and signature are checked first; an unsigned or unparsable
\* request is rejected before anything is looked up.
Receive(r) ==
    /\ req[r] = "idle"
    /\ \/ Goto(r, "rejected")
       \/ Goto(r, IF ExternalId[r] = NoId THEN "commit" ELSE "check")
    /\ earlier' = [earlier EXCEPT ![r] = accepted]
    /\ UNCHANGED <<dedup, status, retries, lock, work, row, seen, attempts, accepted, flowVars>>

\* _check_dedup: the key has no tenant in it. The row of a new event is then
\* flushed, which nobody sees before the commit.
CheckDedup(r) ==
    /\ req[r] = "check"
    /\ Goto(r, IF ExternalId[r] \in dedup THEN "duplicate" ELSE "mark")
    /\ UNCHANGED <<dedup, status, retries, lock, work, row, seen, attempts, accepted, earlier, flowVars>>

\* Mutant: the key is not set.
MarkNothing(r) ==
    /\ req[r] = "mark"
    /\ Goto(r, "commit")
    /\ UNCHANGED <<dedup, status, retries, lock, work, row, seen, attempts, accepted, earlier, flowVars>>

\* _mark_dedup: visible to everybody at once, before the row is.
MarkDedup(r) ==
    /\ req[r] = "mark"
    /\ dedup' = dedup \cup {ExternalId[r]}
    /\ Goto(r, "commit")
    /\ UNCHANGED <<status, retries, lock, work, row, seen, attempts, accepted, earlier, flowVars>>

\* Mutant: the background task is not created.
CommitOnly(r) ==
    /\ req[r] = "commit"
    /\ status' = [status EXCEPT ![r] = "received"]
    /\ Goto(r, "accepted")
    /\ accepted' = accepted \cup ({ExternalId[r]} \ {NoId})
    /\ UNCHANGED <<dedup, retries, lock, work, row, seen, attempts, earlier, flowVars>>

\* The row is committed, the background task created and the request answered.
Commit(r) ==
    /\ req[r] = "commit"
    /\ status' = [status EXCEPT ![r] = "received"]
    /\ work' = [work EXCEPT ![r] = "queued"]
    /\ Goto(r, "accepted")
    /\ accepted' = accepted \cup ({ExternalId[r]} \ {NoId})
    /\ UNCHANGED <<dedup, retries, lock, row, seen, attempts, earlier, flowVars>>

\* Redis, the database or the process fails: what was not committed is lost.
RequestFails(r) ==
    /\ req[r] \in {"check", "mark", "commit"}
    /\ Goto(r, "error")
    /\ UNCHANGED <<dedup, status, retries, lock, work, row, seen, attempts, accepted, earlier, flowVars>>

\* The key reaches its TTL, which no request outlasts.
Expire(i) ==
    /\ Expires
    /\ \A r \in Requests : ExternalId[r] = i => req[r] # "commit"
    /\ dedup' = dedup \ {i}
    /\ accepted' = accepted \ {i}
    /\ earlier' = [r \in Requests |-> earlier[r] \ {i}]
    /\ UNCHANGED <<req, status, retries, lock, work, row, seen, attempts, flowVars>>

-----------------------------------------------------------------------------
(* process_webhook_async and replay_webhook *)

\* The event is loaded without a lock.
LoadEvent(w) ==
    /\ w \in Requests
    /\ work[w] = "queued"
    /\ work' = [work EXCEPT ![w] = "read"]
    /\ seen' = [seen EXCEPT ![w] = retries[w]]
    /\ UNCHANGED <<req, dedup, status, retries, lock, row, attempts, accepted, earlier, flowVars>>

\* Any stored event can be replayed, whatever its status.
Replay(w, r) ==
    /\ w \in Sessions
    /\ work[w] = "idle"
    /\ status[r] # "absent"
    /\ attempts[r] < AttemptBound
    /\ work' = [work EXCEPT ![w] = "read"]
    /\ row' = [row EXCEPT ![w] = r]
    /\ seen' = [seen EXCEPT ![w] = retries[r]]
    /\ UNCHANGED <<req, dedup, status, retries, lock, attempts, accepted, earlier, flowVars>>

\* Mutant: "processing" is set on the object but not flushed.
BeginUnflushed(w) ==
    /\ work[w] = "read"
    /\ work' = [work EXCEPT ![w] = "busy"]
    /\ attempts' = [attempts EXCEPT ![row[w]] = @ + 1]
    /\ FlowsBegin(w)
    /\ UNCHANGED <<req, dedup, status, retries, lock, row, seen, accepted, earlier>>

\* status = "processing" is flushed, which waits for the row lock, and
\* process_event_fn is called.
BeginProcessing(w) ==
    /\ work[w] = "read"
    /\ lock[row[w]] = NoWorker
    /\ lock' = [lock EXCEPT ![row[w]] = w]
    /\ work' = [work EXCEPT ![w] = "busy"]
    /\ attempts' = [attempts EXCEPT ![row[w]] = @ + 1]
    /\ FlowsBegin(w)
    /\ UNCHANGED <<req, dedup, status, retries, row, seen, accepted, earlier>>

\* The event endpoint processes without a stored event.
BeginEvent(w) ==
    /\ w \in Sessions
    /\ work[w] = "idle"
    /\ work' = [work EXCEPT ![w] = "busy"]
    /\ FlowsBegin(w)
    /\ UNCHANGED <<req, dedup, status, retries, lock, row, seen, attempts, accepted, earlier>>

Caller(w) ==
    IF w \in Requests THEN "webhook" ELSE IF row[w] = NoWorker THEN "event" ELSE "replay"

RunFlows(w) ==
    /\ work[w] = "busy"
    /\ (\E f \in Flows : FlowNext(w, f)) \/ FlowAttempt(w, Caller(w))
    /\ UNCHANGED intakeVars

\* Both engines keep the failures of flows and workflows to themselves:
\* process_event_fn returns when all flows have been settled, but it may also
\* raise at any time (ok = FALSE), on a database error for example.
Returned(w, ok) == work[w] = "busy" /\ (ok => FlowsDone(w))

Released(w) ==
    /\ lock' = [r \in Requests |-> IF lock[r] = w THEN NoWorker ELSE lock[r]]
    /\ row' = [row EXCEPT ![w] = IF w \in Sessions THEN NoWorker ELSE @]
    /\ seen' = [seen EXCEPT ![w] = 0]
    /\ FlowsForget(w)
    /\ UNCHANGED <<req, dedup, attempts, accepted, earlier>>

\* Mutant: the exception handler counts, and so does the way out.
StoreCountsTwice(w, ok) ==
    LET r == row[w] IN
    /\ r # NoWorker
    /\ Returned(w, ok)
    /\ status' = [status EXCEPT ![r] = IF ok THEN "processed" ELSE "failed"]
    /\ retries' = [retries EXCEPT ![r] = seen[w] + 2]
    /\ work' = [work EXCEPT ![w] = IF w \in Sessions THEN "idle" ELSE "done"]
    /\ Released(w)

\* Mutant: a failure commits the row as the exception found it.
StoreSuccessOnly(w, ok) ==
    LET r == row[w] IN
    /\ r # NoWorker
    /\ Returned(w, ok)
    /\ status' = [status EXCEPT ![r] = IF ok THEN "processed" ELSE "processing"]
    /\ work' = [work EXCEPT ![w] = IF w \in Sessions THEN "idle" ELSE "done"]
    /\ Released(w)
    /\ UNCHANGED retries

\* The outcome is committed; retry_count is computed from the loaded value.
\* Only the background task looks at the dead-letter limit, and only a replay
\* counts a success.
StoreOutcome(w, ok) ==
    LET r == row[w]
        failure == IF w \in Requests /\ seen[w] + 1 >= DeadLetterAfter
                   THEN "dead_letter" ELSE "failed" IN
    /\ r # NoWorker
    /\ Returned(w, ok)
    /\ status' = [status EXCEPT ![r] = IF ok THEN "processed" ELSE failure]
    /\ retries' = [retries EXCEPT ![r] = IF ok /\ w \in Requests THEN @ ELSE seen[w] + 1]
    /\ work' = [work EXCEPT ![w] = IF w \in Sessions THEN "idle" ELSE "done"]
    /\ Released(w)

\* The event request commits its executions and answers.
EventAnswered(w) ==
    /\ row[w] = NoWorker
    /\ Returned(w, TRUE)
    /\ work' = [work EXCEPT ![w] = "idle"]
    /\ Released(w)
    /\ UNCHANGED <<status, retries>>

\* The process dies, or the final commit fails: the session is lost and with
\* it the row lock.
WorkerDies(w) ==
    /\ work[w] \notin {"idle", "done", "dead"}
    /\ work' = [work EXCEPT ![w] = IF w \in Sessions THEN "idle" ELSE "dead"]
    /\ Released(w)
    /\ UNCHANGED <<status, retries>>

-----------------------------------------------------------------------------

Handle(r) == Receive(r) \/ CheckDedup(r) \/ MarkDedup(r) \/ Commit(r)

Run(w) ==
    \/ LoadEvent(w) \/ BeginProcessing(w) \/ RunFlows(w) \/ EventAnswered(w)
    \/ \E ok \in BOOLEAN : StoreOutcome(w, ok)

Next ==
    \/ \E r \in Requests : Handle(r) \/ RequestFails(r)
    \/ \E i \in Ids : Expire(i)
    \/ \E w \in Workers :
         \/ Run(w) \/ BeginEvent(w) \/ WorkerDies(w)
         \/ \E r \in Requests : Replay(w, r)

Spec == Init /\ [][Next]_vars

\* The event loop runs every task that can run, and PostgreSQL hands a row
\* lock to its waiters in queue order.
FairSpec ==
    /\ Spec
    /\ \A r \in Requests : WF_vars(Handle(r))
    /\ \A w \in Workers : WF_vars(Run(w)) /\ SF_vars(BeginProcessing(w))

-----------------------------------------------------------------------------
(* Properties *)

\* The background task of an event and all its replays exclude each other:
\* two sessions never run the flows of one stored event at the same time.
SingleProcessing ==
    \A v, w \in Workers :
        work[v] = "busy" /\ work[w] = "busy" /\ row[v] = row[w] /\ row[v] # NoWorker => v = w

\* A redelivery that arrives after the first delivery was accepted is not
\* stored again while the dedup key lives, whatever fails in between.
NoLateDuplicate ==
    \A r \in Requests : status[r] # "absent" => ExternalId[r] \notin earlier[r]

\* retry_count never counts a processing that did not happen, although every
\* worker computes it from a value loaded before it waited for the lock.
RetriesHappened == \A r \in Requests : retries[r] <= attempts[r]

\* An event becomes "processed" only when every flow that matched it has been
\* settled in that very processing.
ProcessedSettlesFlows ==
    [][\A r \in Requests :
          status'[r] = "processed" /\ status'[r] # status[r] =>
              \E w \in Workers :
                  /\ work[w] = "busy" /\ row[w] = r /\ work'[w] # "busy"
                  /\ \A f \in Flows : exec[w][f] \in Settled]_vars

\* An accepted event is processed to an outcome, unless the process that
\* accepted it died: nobody else ever picks up a "received" row.
AcceptedIsProcessed ==
    \A r \in Requests :
        req[r] = "accepted" ~> status[r] # "received" \/ work[r] = "dead"

\* Module docstring: the service "triggers matching flows": a flow that was
\* tried for a webhook has had its action dispatched.
WebhookFlowsDispatch ==
    \A w \in Requests : \A f \in Flows :
        attempt[w] > 0 /\ flow[w] = f => dispatches[w][f] > 0

=============================================================================

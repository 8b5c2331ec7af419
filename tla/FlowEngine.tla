----------------------------- MODULE FlowEngine -----------------------------
(***************************************************************************)
(* FlowEngine.process_event and execute_flow of core/flow_engine.py: one   *)
(* event is handed to every enabled flow of its source, one flow after the *)
(* other.  Each caller of process_event passes its own execute_action_fn;  *)
(* execute_flow calls it with keyword arguments, so what a caller named    *)
(* its parameters decides whether the action is dispatched at all.         *)
(***************************************************************************)
EXTENDS Naturals, FiniteSets

CONSTANTS
    Workers,     \* tasks and requests that process events
    Flows,       \* flows that match the event and are enabled
    OnErrorOf,   \* on_error of each flow
    RetriesOf,   \* max_retries of each flow
    NoFlow

ASSUME FlowAssumption ==
    /\ OnErrorOf \in [Flows -> {"stop", "retry"}]
    /\ RetriesOf \in [Flows -> Nat]
    /\ NoFlow \notin Flows

VARIABLES
    todo,        \* flows of the event a worker has not reached yet
    flow,        \* the flow it executes
    attempt,     \* loop variable of the attempts
    exec,        \* FlowExecution.status of the event's flows
    dispatches   \* history: actions dispatched by a worker for the event

flowVars == <<todo, flow, attempt, exec, dispatches>>

Settled == {"skipped", "success", "failed"}

FlowTypeOK ==
    /\ todo \in [Workers -> SUBSET Flows]
    /\ flow \in [Workers -> Flows \cup {NoFlow}]
    /\ attempt \in [Workers -> Nat]
    /\ exec \in [Workers -> [Flows -> Settled \cup {"none", "running"}]]
    /\ dispatches \in [Workers -> [Flows -> Nat]]

FlowInit ==
    /\ todo = [w \in Workers |-> {}]
    /\ flow = [w \in Workers |-> NoFlow]
    /\ attempt = [w \in Workers |-> 0]
    /\ exec = [w \in Workers |-> [f \in Flows |-> "none"]]
    /\ dispatches = [w \in Workers |-> [f \in Flows |-> 0]]

\* The parameter names of the caller's execute_action_fn: the webhook and the
\* replay endpoint have their own, the two event endpoints share theirs.
Parameters(caller) ==
    IF caller \in {"webhook", "replay"}
    THEN {"cn", "action", "payload", "tid", "credential_name", "connector_version"}
    ELSE {"connector_name", "action", "payload", "tenant_id", "credential_name",
          "connector_version"}

\* The keyword arguments of the call in execute_flow.
Keywords == {"connector_name", "action", "payload", "tenant_id", "connector_version"}

MaxAttempts(f) == IF OnErrorOf[f] = "retry" THEN RetriesOf[f] + 1 ELSE 1

\* get_flows_for_event
FlowsBegin(w) ==
    /\ todo' = [todo EXCEPT ![w] = Flows]
    /\ flow' = [flow EXCEPT ![w] = NoFlow]
    /\ attempt' = [attempt EXCEPT ![w] = 0]
    /\ exec' = [exec EXCEPT ![w] = [f \in Flows |-> "none"]]
    /\ dispatches' = [dispatches EXCEPT ![w] = [f \in Flows |-> 0]]

\* The session and its objects are gone.
FlowsForget(w) ==
    /\ todo' = [todo EXCEPT ![w] = {}]
    /\ flow' = [flow EXCEPT ![w] = NoFlow]
    /\ attempt' = [attempt EXCEPT ![w] = 0]
    /\ exec' = [exec EXCEPT ![w] = [f \in Flows |-> "none"]]
    /\ dispatches' = [dispatches EXCEPT ![w] = [f \in Flows |-> 0]]

FlowsDone(w) == flow[w] = NoFlow /\ todo[w] = {}

\* The execution is stored as running; a filter that does not match settles
\* it, and so does a mapping that raises.
FlowNext(w, f) ==
    /\ flow[w] = NoFlow
    /\ f \in todo[w]
    /\ todo' = [todo EXCEPT ![w] = @ \ {f}]
    /\ attempt' = [attempt EXCEPT ![w] = 0]
    /\ \/ /\ flow' = [flow EXCEPT ![w] = f]
          /\ exec' = [exec EXCEPT ![w][f] = "running"]
       \/ /\ \E s \in {"skipped", "failed"} : exec' = [exec EXCEPT ![w][f] = s]
          /\ UNCHANGED flow
    /\ UNCHANGED dispatches

FlowSettles(w, status) ==
    /\ exec' = [exec EXCEPT ![w][flow[w]] = status]
    /\ flow' = [flow EXCEPT ![w] = NoFlow]
    /\ attempt' = [attempt EXCEPT ![w] = 0]

\* Mutant: a failed attempt ends the loop and leaves the status as it is.
FlowAttemptGivesUp(w, caller) ==
    /\ flow[w] # NoFlow
    /\ \/ FlowSettles(w, "success")
       \/ FlowSettles(w, "running")
    /\ UNCHANGED <<todo, dispatches>>

\* One iteration of the attempt loop. Python binds the keywords before the
\* body runs: an unknown one raises TypeError and nothing is dispatched.
FlowAttempt(w, caller) ==
    LET f == flow[w]
        binds == Keywords \subseteq Parameters(caller) IN
    /\ f # NoFlow
    /\ dispatches' = IF binds THEN [dispatches EXCEPT ![w][f] = @ + 1] ELSE dispatches
    /\ \/ binds /\ FlowSettles(w, "success")
       \/ IF attempt[w] + 1 < MaxAttempts(f)
          THEN attempt' = [attempt EXCEPT ![w] = @ + 1] /\ UNCHANGED <<flow, exec>>
          ELSE FlowSettles(w, "failed")
    /\ UNCHANGED todo

=============================================================================

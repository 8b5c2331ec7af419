------------------------- MODULE MCWebhookIngestion -------------------------
(* Two deliveries of one event and a session for replays and events. *)
EXTENDS WebhookIngestion, TLC

CONSTANTS r1, r2, s1, f1, x1

AllWorkers == Requests \cup Sessions
SameId == [r \in Requests |-> x1]
Retrying == [f \in Flows |-> "retry"]
OneRetry == [f \in Flows |-> 1]
=============================================================================

---------------------------- MODULE MCSyncLedger ----------------------------
(* Instances of SyncLedger for TLC. *)
EXTENDS SyncLedger, TLC

CONSTANTS t1, t2, k1, k2, w1, w2, c1, c2

\* Two workflows with one entity each: w1 as given by the run, w2 forced.
TwoWorkflows == k1 :> w1 @@ k2 :> w2
IncrementalAndForce == w1 :> "incremental" @@ w2 :> "force"
UpdateAndSkip == w1 :> "update" @@ w2 :> "skip"

\* One workflow whose events resolve to either of two entities.
OneWorkflow == [k \in Keys |-> w1]
AllIncremental == [w \in Workflows |-> "incremental"]
AllUpdate == [w \in Workflows |-> "update"]

Symmetry == Permutations(Txns) \cup Permutations(Contents)
=============================================================================

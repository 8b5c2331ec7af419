-------------------------- MODULE MCWorkflowEngine --------------------------
(* Workflow graphs on which TLC runs the engine. *)
EXTENDS WorkflowEngine, TLC

CONSTANTS W1, W2, W3

\* edges[<<node, handle>>] lists the targets; other handles have no edge.
EdgeMap(edges) ==
    [n \in Nodes |-> [h \in Handles |->
        IF <<n, h>> \in DOMAIN edges THEN edges[<<n, h>>] ELSE <<>>]]

Everywhere(v) == [n \in Nodes |-> v]
TwoAtATime == Everywhere(2)
OneRetry == Everywhere(1)

\* Policies (from the trigger of W1): an ignored action, a parallel section
\* with a handler, and a choice that ends in a filter or a response.
\* Nesting (rerun from l): W1 calls W2 from a loop, W2 calls W3 from every
\* batch item and W3 calls W1 back; after the loop W1 runs a batch that stops
\* at a failed item.
\* Cycle (rerun from x): a retried action and a step that continues on error
\* follow each other for ever; m is a merge node without predecessor.
AllKinds ==
    "a" :> "action" @@ "p" :> "parallel" @@ "b" :> "action" @@ "c" :> "filter"
    @@ "d" :> "action" @@ "r" :> "choice" @@ "e" :> "filter" @@ "f" :> "response"
    @@ "h" :> "error_handler"
    @@ "l" :> "loop" @@ "s1" :> "sub_workflow" @@ "q" :> "batch"
    @@ "s2" :> "sub_workflow" @@ "s3" :> "sub_workflow" @@ "y" :> "step"
    @@ "z" :> "batch"
    @@ "x" :> "action" @@ "k" :> "step" @@ "m" :> "merge"
AllEdges == EdgeMap(
    <<"a", "default">> :> <<"p">> @@ <<"p", "branch">> :> <<"b", "c">>
    @@ <<"c", "default">> :> <<"d">> @@ <<"p", "done">> :> <<"r">>
    @@ <<"r", "true">> :> <<"e">> @@ <<"r", "false">> :> <<"f">>
    @@ <<"l", "default">> :> <<"s1">> @@ <<"l", "done">> :> <<"z">>
    @@ <<"q", "body">> :> <<"s2">> @@ <<"z", "body">> :> <<"y">>
    @@ <<"x", "default">> :> <<"k">> @@ <<"k", "default">> :> <<"x">>)
AllTriggers == W1 :> <<"a">> @@ W2 :> <<"q">> @@ W3 :> <<"s3">>
AllOnError ==
    [n \in Nodes |-> CASE n \in {"a", "s1"} -> "ignore"
                       [] n = "x" -> "retry"
                       [] n = "k" -> "continue"
                       [] OTHER -> "stop"]
AllCatch == [n \in Nodes |-> IF n = "h" THEN {"p"} ELSE {}]
AllChildren ==
    [n \in Nodes |-> CASE n = "s1" -> W2 [] n = "s2" -> W3 [] OTHER -> W1]
AllLimits == [n \in Nodes |-> IF n = "s2" THEN 3 ELSE 4]
AllItems == [n \in Nodes |-> IF n = "z" THEN "stop" ELSE "continue"]

\* The ways to the nodes whose effects must not be repeated.
Ways == "a" :> {"a"} @@ "b" :> {"a", "p", "b"} @@ "d" :> {"a", "p", "c", "d"}
        @@ "h" :> {"a", "p", "h"}

ASSUME OneWayAssumption == \A n \in OncePerRun : OneWay(n, Ways[n])

\* A diamond joined by a merge node.
DiamondKind == "a" :> "step" @@ "b" :> "step" @@ "m" :> "merge"
DiamondEdges == EdgeMap(<<"a", "default">> :> <<"m">> @@ <<"b", "default">> :> <<"m">>)
DiamondStart == [w \in Workflows |-> <<"a", "b">>]
Stop == Everywhere("stop")
CatchNothing == Everywhere({})
NoChild == Everywhere(Root)
=============================================================================

--------------------------- MODULE WorkflowEngine ---------------------------
(***************************************************************************)
(* One execution of a workflow graph: execute_workflow, rerun_from_node,   *)
(* _execute_nodes, _execute_single_node and the node executors of          *)
(* core/workflow_engine.py.                                                *)
(*                                                                         *)
(* The engine is a set of coroutines that call themselves recursively and  *)
(* throw exceptions through their callers, so the state of a coroutine is  *)
(* its call stack and how the last call ended.  A frame is a suspended     *)
(* call of _execute_nodes ("list") or of _execute_single_node, placed at   *)
(* one of its awaits.  Payloads are abstracted away: an executor succeeds  *)
(* or raises, a condition chooses any of its handles, an array has any     *)
(* length up to a bound.                                                   *)
(***************************************************************************)
EXTENDS Naturals, Sequences, FiniteSets, SequencesExt

CONSTANTS
    Nodes,        \* the nodes of all workflows (without the triggers)
    Workflows,    \* workflow ids
    Root,         \* the workflow that is executed
    Kind,         \* node type, see Kinds
    Successors,   \* Successors[n][h]: targets of the edges leaving n by handle h
    AfterTrigger, \* AfterTrigger[w]: successors of the trigger node of w
    OnError,      \* config["on_error"], defaulting to the workflow's
    MaxRetries,   \* config["max_retries"], defaulting to the workflow's
    CatchFrom,    \* config["catch_from"] of the error handlers
    Child,        \* config["workflow_id"] of the sub_workflow nodes
    NestLimit,    \* config["max_depth"] of the sub_workflow nodes
    ItemError,    \* config["on_item_error"] of the batch nodes
    Concurrency,  \* config["concurrency"] of the batch nodes
    Starts,       \* where executions start: "trigger" or, for a rerun, a node
    MaxDepth,     \* bound on the recursion depth (200 in the code)
    OncePerRun,   \* nodes reached by one path, through nodes with policies stop
                  \* and ignore only, outside loop bodies and batch items
    ItemBound,    \* bound: longest array a loop or batch node meets
    Tasks,        \* coroutines 0 .. n; bound on how many run at a time
    NoNode

Main == 0

\* "action": the executors that _execute_single_node retries (action,
\* http_request, think); "step": those it does not (transform, delay,
\* set_variable, aggregate); "choice": condition and switch.
Kinds == {"action", "step", "choice", "filter", "response", "merge", "loop",
          "parallel", "batch", "sub_workflow", "error_handler"}

Handles == {"default", "true", "false", "branch", "body", "done"}

ASSUME GraphAssumption ==
    /\ Root \in Workflows
    /\ Kind \in [Nodes -> Kinds]
    /\ Successors \in [Nodes -> [Handles -> Seq(Nodes)]]
    /\ AfterTrigger \in [Workflows -> Seq(Nodes)]
    /\ OnError \in [Nodes -> {"stop", "retry", "continue", "ignore"}]
    /\ MaxRetries \in [Nodes -> Nat]
    /\ CatchFrom \in [Nodes -> SUBSET Nodes]
    /\ Child \in [Nodes -> Workflows]
    /\ NestLimit \in [Nodes -> Nat \ {0}]
    /\ ItemError \in [Nodes -> {"continue", "stop"}]
    /\ Concurrency \in [Nodes -> Nat \ {0}]
    /\ Starts \subseteq Nodes \cup {"trigger"}
    /\ OncePerRun \subseteq Nodes
    /\ MaxDepth \in Nat /\ ItemBound \in Nat
    /\ Tasks \subseteq Nat /\ Main \in Tasks
    /\ NoNode \notin Nodes

VARIABLES
    stack,      \* call stack of each coroutine, innermost frame last
    mode,       \* "run": the innermost frame proceeds; "ret" / "raise": its
                \* callee has returned / raised; "free", "done", "broken"
    exc,        \* node_id of the exception being raised, NoNode if it has none
    lineage,    \* the coroutines that wait for this one, outermost first
    status,     \* execution.status
    errorNode,  \* execution.error_node_id
    results,    \* last status written to an entry of a node in node_results
    ran,        \* history: calls of a node's executor: 0, 1 or 2 for more than one
    faults,     \* history: nodes whose own executor raised
    incidents   \* history: "depth", "timeout"

vars == <<stack, mode, exc, lineage, status, errorNode, results, ran, faults, incidents>>

Places == {"list", "enter", "try", "succ", "retry", "retrysucc", "failed",
           "handling", "continuing", "loop", "join", "batch", "child"}

Frame == [at : Places, node : Nodes \cup {NoNode}, rest : Seq(Nodes), num : Nat,
          depth : Nat, chain : Seq(Workflows)]

TypeOK ==
    /\ stack \in [Tasks -> Seq(Frame)]
    /\ mode \in [Tasks -> {"free", "run", "ret", "raise", "done", "broken"}]
    /\ exc \in [Tasks -> Nodes \cup {NoNode}]
    /\ lineage \in [Tasks -> Seq(Tasks)]
    /\ status \in {"new", "running", "success", "failed"}
    /\ errorNode \in Nodes \cup {NoNode}
    /\ results \in [Nodes -> {"none", "success", "failed", "filtered"}]
    /\ ran \in [Nodes -> 0 .. 2]
    /\ faults \subseteq Nodes
    /\ incidents \subseteq {"depth", "timeout"}

Init ==
    /\ stack = [t \in Tasks |-> <<>>]
    /\ mode = [t \in Tasks |-> "free"]
    /\ exc = [t \in Tasks |-> NoNode]
    /\ lineage = [t \in Tasks |-> <<>>]
    /\ status = "new"
    /\ errorNode = NoNode
    /\ results = [n \in Nodes |-> "none"]
    /\ ran = [n \in Nodes |-> 0]
    /\ faults = {}
    /\ incidents = {}

-----------------------------------------------------------------------------
(* The graph *)

\* get_successors(n): without a handle, every edge is followed.
AllSuccessors(n) ==
    LET s == Successors[n] IN
    s["default"] \o s["true"] \o s["false"] \o s["branch"] \o s["body"] \o s["done"]

Incoming(n) ==
    {m \in Nodes : n \in Range(AllSuccessors(m))}
        \cup {w \in Workflows : n \in Range(AfterTrigger[w])}

Retryable(n) == Kind[n] = "action"

\* _find_error_handler: the first handler in the list of nodes, if any.
HandlersOf(n) == {h \in Nodes : Kind[h] = "error_handler" /\ n \in CatchFrom[h]}
ErrorHandler(n) == CHOOSE h \in HandlersOf(n) : TRUE

-----------------------------------------------------------------------------
(* Calls, returns and exceptions *)

Top(t) == Last(stack[t])
Below(t) == Front(stack[t])
At(t, places, modes) == stack[t] # <<>> /\ Top(t).at \in places /\ mode[t] \in modes

Continue(t, s, m) ==
    /\ stack' = [stack EXCEPT ![t] = s]
    /\ mode' = [mode EXCEPT ![t] = m]

\* The innermost call moves to another place, returns or raises e.
Goto(t, place, num) ==
    /\ Continue(t, Append(Below(t), [Top(t) EXCEPT !.at = place, !.num = num]), "run")
    /\ UNCHANGED exc

Return(t) == Continue(t, Below(t), "ret") /\ UNCHANGED exc

Raise(t, e) == Continue(t, Below(t), "raise") /\ exc' = [exc EXCEPT ![t] = e]

\* An exception inside the try block of the innermost call.
RaiseHere(t) ==
    /\ mode' = [mode EXCEPT ![t] = "raise"]
    /\ exc' = [exc EXCEPT ![t] = NoNode]
    /\ UNCHANGED stack

ListFrame(nodes, depth, chain) ==
    [at |-> "list", node |-> NoNode, rest |-> nodes, num |-> 0,
     depth |-> depth, chain |-> chain]

NodeFrame(n, depth, chain) ==
    [at |-> "enter", node |-> n, rest |-> <<>>, num |-> 0,
     depth |-> depth, chain |-> chain]

\* await self._execute_nodes(nodes, depth + 1) from the innermost call, which
\* waits at place; without successors the innermost call simply returns.
CallNodes(t, nodes, place, num) ==
    LET f == [Top(t) EXCEPT !.at = place, !.num = num] IN
    IF nodes = <<>> THEN Return(t) /\ UNCHANGED incidents
    ELSE IF f.depth + 1 > MaxDepth
    THEN /\ Continue(t, Append(Below(t), f), "raise")
         /\ exc' = [exc EXCEPT ![t] = NoNode]
         /\ incidents' = incidents \cup {"depth"}
    ELSE /\ Continue(t, Below(t) \o <<f, ListFrame(nodes, f.depth + 1, f.chain)>>, "run")
         /\ UNCHANGED <<exc, incidents>>

\* A call of _execute_single_node has one entry: a failure after the node has
\* completed overwrites its status.
Log(n, s) == results' = [results EXCEPT ![n] = s]

Called(n) == ran' = [ran EXCEPT ![n] = IF @ = 2 THEN 2 ELSE @ + 1]

\* The executor has produced its output: record it and go on to successors.
Complete(t, next) ==
    /\ Log(Top(t).node, "success")
    /\ CallNodes(t, next, "succ", 0)

\* The executor raises: the except clause of _execute_single_node takes over.
Fault(t) ==
    /\ faults' = faults \cup {Top(t).node}
    /\ RaiseHere(t)

-----------------------------------------------------------------------------
(* _execute_nodes *)

ListNext(t) ==
    LET f == Top(t) IN
    /\ At(t, {"list"}, {"run", "ret"})
    /\ IF f.rest = <<>>
       THEN Return(t)
       ELSE /\ Continue(t, Below(t) \o <<[f EXCEPT !.rest = Tail(@)],
                                         NodeFrame(Head(f.rest), f.depth, f.chain)>>, "run")
            /\ UNCHANGED exc
    /\ UNCHANGED <<lineage, status, errorNode, results, ran, faults, incidents>>

\* Calls that are not inside a try block let the exception through.
Propagate(t) ==
    /\ At(t, {"list", "handling", "continuing"}, {"raise"})
    /\ Raise(t, exc[t])
    /\ UNCHANGED <<lineage, status, errorNode, results, ran, faults, incidents>>

-----------------------------------------------------------------------------
(* _execute_single_node *)

\* The merge check runs before the try block. _incoming holds edge dicts, and
\* asking whether one is in the set _completed_nodes raises TypeError; a merge
\* node without incoming edges (a rerun can start there) is executed.
Enter(t) ==
    LET n == Top(t).node IN
    /\ At(t, {"enter"}, {"run"})
    /\ IF Kind[n] = "merge" /\ Incoming(n) # {}
       THEN Raise(t, NoNode)
       ELSE Goto(t, "try", 0)
    /\ UNCHANGED <<lineage, status, errorNode, results, ran, faults, incidents>>

\* Executors without calls back into the engine.
Perform(t, kinds) ==
    LET n == Top(t).node IN
    /\ At(t, {"try"}, {"run"})
    /\ Kind[n] \in kinds
    /\ Called(n)
    /\ \/ Complete(t, AllSuccessors(n)) /\ UNCHANGED faults
       \/ /\ Kind[n] # "merge"
          /\ Fault(t)
          /\ UNCHANGED <<results, incidents>>
    /\ UNCHANGED <<lineage, status, errorNode>>

ExecAction(t) == Perform(t, {"action"})
ExecStep(t) == Perform(t, {"step", "merge"})
ExecErrorHandler(t) == Perform(t, {"error_handler"})

\* What a condition or a switch can evaluate to.
Verdicts == {"true", "false", "default"}

\* condition and switch follow the edges of one handle.
Choose(t) ==
    LET n == Top(t).node IN
    /\ At(t, {"try"}, {"run"})
    /\ Kind[n] = "choice"
    /\ \/ /\ \E h \in Verdicts : Complete(t, Successors[n][h])
          /\ UNCHANGED faults
       \/ Fault(t) /\ UNCHANGED <<results, incidents>>
    /\ UNCHANGED <<lineage, status, errorNode, ran>>

\* Mutant: a filter that does not match raises like a failed node.
FilterAsError(t) ==
    LET n == Top(t).node IN
    /\ At(t, {"try"}, {"run"})
    /\ Kind[n] = "filter"
    /\ \/ Complete(t, AllSuccessors(n))
       \/ Log(n, "filtered") /\ Raise(t, n) /\ UNCHANGED incidents
    /\ UNCHANGED <<lineage, status, errorNode, ran, faults>>

Filter(t) ==
    LET n == Top(t).node IN
    /\ At(t, {"try"}, {"run"})
    /\ Kind[n] = "filter"
    /\ \/ Complete(t, AllSuccessors(n)) /\ UNCHANGED faults
       \/ Log(n, "filtered") /\ Return(t) /\ UNCHANGED <<faults, incidents>>
       \/ Fault(t) /\ UNCHANGED <<results, incidents>>
    /\ UNCHANGED <<lineage, status, errorNode, ran>>

\* A response node has no successors and returns at once.
Respond(t) ==
    LET n == Top(t).node IN
    /\ At(t, {"try"}, {"run"})
    /\ Kind[n] = "response"
    /\ \/ Log(n, "success") /\ Return(t) /\ UNCHANGED <<faults, incidents>>
       \/ Fault(t) /\ UNCHANGED <<results, incidents>>
    /\ UNCHANGED <<lineage, status, errorNode, ran>>

\* The awaited call returned: so does this one.
AwaitReturned(t) ==
    /\ At(t, {"succ", "retrysucc", "handling", "continuing"}, {"ret"})
    /\ Return(t)
    /\ UNCHANGED <<lineage, status, errorNode, results, ran, faults, incidents>>

\* Mutant: the except clause retries whatever on_error says.
CatchFirstAlwaysRetries(t) ==
    LET n == Top(t).node IN
    /\ At(t, {"try", "succ", "loop"}, {"raise"})
    /\ IF MaxRetries[n] > 0 /\ Retryable(n)
       THEN Goto(t, "retry", 1)
       ELSE Goto(t, "failed", 0)
    /\ UNCHANGED <<lineage, status, errorNode, results, ran, faults, incidents>>

\* except Exception: also entered for whatever the successors raised, after
\* this node has completed.
CatchFirst(t) ==
    LET n == Top(t).node IN
    /\ At(t, {"try", "succ", "loop"}, {"raise"})
    /\ IF OnError[n] = "retry" /\ MaxRetries[n] > 0 /\ Retryable(n)
       THEN Goto(t, "retry", 1)
       ELSE Goto(t, "failed", 0)
    /\ UNCHANGED <<lineage, status, errorNode, results, ran, faults, incidents>>

\* One iteration of the retry loop: the executor, then the successors.
Retry(t) ==
    LET n == Top(t).node IN
    /\ At(t, {"retry"}, {"run"})
    /\ Called(n)
    /\ \/ /\ Log(n, "success")
          /\ CallNodes(t, AllSuccessors(n), "retrysucc", Top(t).num)
          /\ UNCHANGED faults
       \/ Fault(t) /\ UNCHANGED <<results, incidents>>
    /\ UNCHANGED <<lineage, status, errorNode>>

\* Mutant: the retry loop does not count its attempts.
CatchRetryUncounted(t) ==
    LET f == Top(t) IN
    /\ At(t, {"retry", "retrysucc"}, {"raise"})
    /\ IF f.num = MaxRetries[f.node] + 1
       THEN Goto(t, "failed", 0)
       ELSE Goto(t, "retry", f.num)
    /\ UNCHANGED <<lineage, status, errorNode, results, ran, faults, incidents>>

CatchRetry(t) ==
    LET f == Top(t) IN
    /\ At(t, {"retry", "retrysucc"}, {"raise"})
    /\ IF f.num = MaxRetries[f.node]
       THEN Goto(t, "failed", 0)
       ELSE Goto(t, "retry", f.num + 1)
    /\ UNCHANGED <<lineage, status, errorNode, results, ran, faults, incidents>>

\* Mutant: the failure is raised without an entry in node_results.
HandleFailureUnlogged(t) ==
    LET n == Top(t).node
        f == [Top(t) EXCEPT !.at = "handling"] IN
    /\ At(t, {"failed"}, {"run"})
    /\ \/ /\ HandlersOf(n) # {}
          /\ Continue(t, Below(t) \o <<f, NodeFrame(ErrorHandler(n), f.depth + 1, f.chain)>>,
                      "run")
          /\ UNCHANGED <<exc, incidents>>
       \/ /\ HandlersOf(n) = {} /\ OnError[n] = "continue"
          /\ CallNodes(t, AllSuccessors(n), "continuing", 0)
       \/ /\ HandlersOf(n) = {} /\ OnError[n] = "ignore"
          /\ Return(t) /\ UNCHANGED incidents
       \/ /\ HandlersOf(n) = {} /\ OnError[n] \in {"stop", "retry"}
          /\ Raise(t, n) /\ UNCHANGED incidents
    /\ UNCHANGED <<lineage, status, errorNode, results, ran, faults>>

\* After the retries: error handler, else continue, ignore or raise.
HandleFailure(t) ==
    LET n == Top(t).node
        f == [Top(t) EXCEPT !.at = "handling"] IN
    /\ At(t, {"failed"}, {"run"})
    /\ Log(n, "failed")
    /\ \/ /\ HandlersOf(n) # {}
          /\ Continue(t, Below(t) \o <<f, NodeFrame(ErrorHandler(n), f.depth + 1, f.chain)>>,
                      "run")
          /\ UNCHANGED <<exc, incidents>>
       \/ /\ HandlersOf(n) = {} /\ OnError[n] = "continue"
          /\ CallNodes(t, AllSuccessors(n), "continuing", 0)
       \/ /\ HandlersOf(n) = {} /\ OnError[n] = "ignore"
          /\ Return(t) /\ UNCHANGED incidents
       \/ /\ HandlersOf(n) = {} /\ OnError[n] \in {"stop", "retry"}
          /\ Raise(t, n) /\ UNCHANGED incidents
    /\ UNCHANGED <<lineage, status, errorNode, ran, faults>>

-----------------------------------------------------------------------------
(* Loops and sub-workflows: executors that call back in the same coroutine *)

\* _exec_loop: the array has any length; num counts the iterations left.
LoopStart(t) ==
    /\ At(t, {"try"}, {"run"})
    /\ Kind[Top(t).node] = "loop"
    /\ \E k \in 0 .. ItemBound :
         Continue(t, Append(Below(t), [Top(t) EXCEPT !.at = "loop", !.num = k]), "ret")
    /\ UNCHANGED <<exc, lineage, status, errorNode, results, ran, faults, incidents>>

\* Mutant: the loop does not stop at the end of the array.
LoopNextUnbounded(t) ==
    LET f == Top(t)
        body == Successors[f.node]["default"] IN
    /\ At(t, {"loop"}, {"ret"})
    /\ IF body = <<>>
       THEN Complete(t, Successors[f.node]["done"])
       ELSE CallNodes(t, body, "loop", f.num - 1) /\ UNCHANGED results
    /\ UNCHANGED <<lineage, status, errorNode, ran, faults>>

LoopNext(t) ==
    LET f == Top(t)
        body == Successors[f.node]["default"] IN
    /\ At(t, {"loop"}, {"ret"})
    /\ IF f.num = 0 \/ body = <<>>
       THEN Complete(t, Successors[f.node]["done"])
       ELSE CallNodes(t, body, "loop", f.num - 1) /\ UNCHANGED results
    /\ UNCHANGED <<lineage, status, errorNode, ran, faults>>

\* Mutant: only the depth of the chain is checked.
ChildRejectedByDepth(f) == Len(f.chain) >= NestLimit[f.node]

\* _exec_sub_workflow rejects a workflow that is already in the chain, and a
\* chain of max_depth workflows; otherwise it runs the child's graph.
ChildRejected(f) ==
    \/ Child[f.node] \in Range(f.chain)
    \/ Len(f.chain) >= NestLimit[f.node]

ChildStart(t) ==
    LET f == Top(t)
        w == Child[f.node] IN
    /\ At(t, {"try"}, {"run"})
    /\ Kind[f.node] = "sub_workflow"
    /\ \/ Fault(t)                                \* also when w does not exist
       \/ /\ ~ChildRejected(f)
          /\ Continue(t, Below(t) \o <<[f EXCEPT !.at = "child"],
                          ListFrame(AfterTrigger[w], 0, Append(f.chain, w))>>, "run")
          /\ UNCHANGED <<exc, faults>>
    /\ UNCHANGED <<lineage, status, errorNode, results, ran, incidents>>

\* The child's execute_workflow catches everything and reports its status; its
\* own timeout ends it like the one of the node, see ChildTimeout.
ChildEnd(t) ==
    LET n == Top(t).node IN
    /\ At(t, {"child"}, {"ret", "raise"})
    /\ IF mode[t] = "ret"
       THEN Complete(t, AllSuccessors(n)) /\ UNCHANGED faults
       ELSE /\ Continue(t, Append(Below(t), [Top(t) EXCEPT !.at = "try"]), "raise")
            /\ exc' = [exc EXCEPT ![t] = NoNode]
            /\ faults' = faults \cup {n}
            /\ UNCHANGED <<results, incidents>>
    /\ UNCHANGED <<lineage, status, errorNode, ran>>

-----------------------------------------------------------------------------
(* Parallel and batch nodes: executors that start coroutines *)

Free == {c \in Tasks : mode[c] = "free" /\ c # Main}

Children(t) == {c \in Tasks : lineage[c] # <<>> /\ Last(lineage[c]) = t}

Descendants(t) == {c \in Tasks : t \in Range(lineage[c])}

\* Any k free coroutines, in order; there is none if fewer are free.
Available(k) == {f \in [1 .. k -> Free] : \A i, j \in 1 .. k : i < j => f[i] < f[j]}
Fresh(k) == CHOOSE f \in Available(k) : TRUE

\* Coroutines ids[1], ids[2], ... start with the given frames, in mode m, while
\* t waits.
Spawn(t, waiting, ids, frames, m) ==
    LET started == Range(ids)
        Index(c) == CHOOSE i \in DOMAIN ids : ids[i] = c IN
    /\ stack' = [c \in Tasks |-> IF c = t THEN Append(Below(t), waiting)
                                 ELSE IF c \in started THEN <<frames[Index(c)]>>
                                 ELSE stack[c]]
    /\ mode' = [c \in Tasks |-> IF c \in started THEN m ELSE mode[c]]
    /\ lineage' = [c \in Tasks |-> IF c \in started THEN Append(lineage[t], t)
                                   ELSE lineage[c]]

\* Coroutines that ended or were cancelled; m is how t itself goes on.
Reap(t, ended, s, m) ==
    /\ stack' = [c \in Tasks |-> IF c = t THEN s ELSE IF c \in ended THEN <<>> ELSE stack[c]]
    /\ mode' = [c \in Tasks |-> IF c = t THEN m ELSE IF c \in ended THEN "free" ELSE mode[c]]
    /\ lineage' = [c \in Tasks |-> IF c \in ended THEN <<>> ELSE lineage[c]]

\* A branch or an item ends; its exceptions go no further.
BranchEnd(c) ==
    /\ c # Main
    /\ stack[c] = <<>>
    /\ mode[c] \in {"ret", "raise"}
    /\ mode' = [mode EXCEPT ![c] = IF mode[c] = "ret" THEN "done" ELSE "broken"]
    /\ UNCHANGED <<stack, exc, lineage, status, errorNode, results, ran, faults, incidents>>

Ended(c) == mode[c] \in {"done", "broken"}

ParallelStart(t) ==
    LET f == Top(t)
        branches == Successors[f.node]["branch"]
        ids == Fresh(Len(branches)) IN
    /\ At(t, {"try"}, {"run"})
    /\ Kind[f.node] = "parallel"
    /\ Available(Len(branches)) # {}
    /\ Spawn(t, [f EXCEPT !.at = "join"], ids,
             [i \in DOMAIN branches |-> NodeFrame(branches[i], f.depth + 1, f.chain)],
             "run")
    /\ UNCHANGED <<exc, status, errorNode, results, ran, faults, incidents>>

\* asyncio.gather: every branch has ended. Complete follows at "batch" 0.
Join(t) ==
    /\ At(t, {"join"}, {"run"})
    /\ \A c \in Children(t) : Ended(c)
    /\ Reap(t, Children(t), Append(Below(t), [Top(t) EXCEPT !.at = "batch", !.num = 0]), "run")
    /\ UNCHANGED <<exc, status, errorNode, results, ran, faults, incidents>>

\* Mutant: the branches go on after the timeout.
JoinTimeoutLeaks(t) ==
    /\ At(t, {"join"}, {"run"})
    /\ Reap(t, {}, Append(Below(t), [Top(t) EXCEPT !.at = "try"]), "raise")
    /\ exc' = [exc EXCEPT ![t] = NoNode]
    /\ faults' = faults \cup {Top(t).node}
    /\ UNCHANGED <<status, errorNode, results, ran, incidents>>

\* wait_for expires: the branches are cancelled and the node raises.
JoinTimeout(t) ==
    /\ At(t, {"join"}, {"run"})
    /\ Reap(t, Descendants(t), Append(Below(t), [Top(t) EXCEPT !.at = "try"]), "raise")
    /\ exc' = [exc EXCEPT ![t] = NoNode]
    /\ faults' = faults \cup {Top(t).node}
    /\ UNCHANGED <<status, errorNode, results, ran, incidents>>

\* _exec_batch: num counts the items not yet started.
BatchStart(t) ==
    /\ At(t, {"try"}, {"run"})
    /\ Kind[Top(t).node] = "batch"
    /\ \E k \in 0 .. ItemBound : Goto(t, "batch", k)
    /\ UNCHANGED <<lineage, status, errorNode, results, ran, faults, incidents>>

\* The semaphore admits an item; with on_item_error "stop" one at a time.
BatchItem(t) ==
    LET f == Top(t)
        slots == IF ItemError[f.node] = "stop" THEN 1 ELSE Concurrency[f.node]
        body == Successors[f.node]["body"]
        tooDeep == body # <<>> /\ f.depth + 1 > MaxDepth IN
    /\ At(t, {"batch"}, {"run"})
    /\ f.num > 0
    /\ Cardinality(Children(t)) < slots
    /\ Available(1) # {}
    /\ Spawn(t, [f EXCEPT !.num = @ - 1], Fresh(1),
             <<ListFrame(body, f.depth + 1, f.chain)>>, IF tooDeep THEN "raise" ELSE "run")
    /\ incidents' = IF tooDeep THEN incidents \cup {"depth"} ELSE incidents
    /\ UNCHANGED <<exc, status, errorNode, results, ran, faults>>

\* An item has ended; after a failed one "stop" breaks out of the loop.
BatchItemEnd(t, c) ==
    LET f == Top(t)
        left == IF ItemError[f.node] = "stop" /\ mode[c] = "broken" THEN 0 ELSE f.num IN
    /\ At(t, {"batch"}, {"run"})
    /\ c \in Children(t)
    /\ Ended(c)
    /\ Reap(t, {c}, Append(Below(t), [f EXCEPT !.num = left]), "run")
    /\ UNCHANGED <<exc, status, errorNode, results, ran, faults, incidents>>

\* All branches or items are in: the node completes and goes on with "done".
GatherDone(t) ==
    /\ At(t, {"batch"}, {"run"})
    /\ Top(t).num = 0
    /\ Children(t) = {}
    /\ Complete(t, Successors[Top(t).node]["done"])
    /\ UNCHANGED <<lineage, status, errorNode, ran, faults>>

-----------------------------------------------------------------------------
(* execute_workflow and rerun_from_node *)

Start ==
    /\ status = "new"
    /\ status' = "running"
    /\ \E s \in Starts :
         stack' = [stack EXCEPT ![Main] =
                     <<IF s = "trigger" THEN ListFrame(AfterTrigger[Root], 0, <<Root>>)
                       ELSE NodeFrame(s, 0, <<Root>>)>>]
    /\ mode' = [mode EXCEPT ![Main] = "run"]
    /\ UNCHANGED <<exc, lineage, errorNode, results, ran, faults, incidents>>

Finish ==
    /\ status = "running"
    /\ stack[Main] = <<>>
    /\ status' = IF mode[Main] = "ret" THEN "success" ELSE "failed"
    /\ errorNode' = IF mode[Main] = "ret" THEN NoNode ELSE exc[Main]
    /\ mode' = [mode EXCEPT ![Main] = "done"]
    /\ UNCHANGED <<stack, exc, lineage, results, ran, faults, incidents>>

\* The timeout of a sub_workflow node cancels the child and what it started.
ChildTimeout(t) ==
    \E i \in DOMAIN stack[t] :
        /\ stack[t][i].at = "child"
        /\ mode[t] \in {"run", "ret", "raise"}
        /\ Reap(t, Descendants(t),
                SubSeq(stack[t], 1, i - 1) \o <<[stack[t][i] EXCEPT !.at = "try"]>>, "raise")
        /\ exc' = [exc EXCEPT ![t] = NoNode]
        /\ faults' = faults \cup {stack[t][i].node}
        /\ UNCHANGED <<status, errorNode, results, ran, incidents>>

\* timeout_seconds of the workflow: everything is cancelled.
GlobalTimeout ==
    /\ status = "running"
    /\ status' = "failed"
    /\ incidents' = incidents \cup {"timeout"}
    /\ Reap(Main, Descendants(Main), <<>>, "done")
    /\ UNCHANGED <<exc, errorNode, results, ran, faults>>

Step(t) ==
    \/ ListNext(t) \/ Propagate(t)
    \/ Enter(t) \/ ExecAction(t) \/ ExecStep(t) \/ ExecErrorHandler(t) \/ Choose(t) \/ Filter(t) \/ Respond(t)
    \/ AwaitReturned(t) \/ CatchFirst(t) \/ Retry(t) \/ CatchRetry(t) \/ HandleFailure(t)
    \/ LoopStart(t) \/ LoopNext(t) \/ ChildStart(t) \/ ChildEnd(t)
    \/ ParallelStart(t) \/ Join(t) \/ BatchStart(t) \/ BatchItem(t) \/ GatherDone(t)
    \/ \E c \in Tasks : BatchItemEnd(t, c)
    \/ BranchEnd(t)

Done == status \in {"success", "failed"} /\ UNCHANGED vars

Next ==
    \/ Start
    \/ Finish
    \/ GlobalTimeout
    \/ \E t \in Tasks : Step(t) \/ JoinTimeout(t) \/ ChildTimeout(t)
    \/ Done

Spec == Init /\ [][Next]_vars

\* The event loop runs every coroutine that can run; timeouts are not relied on.
FairSpec == Spec /\ WF_vars(Start) /\ WF_vars(Finish) /\ \A t \in Tasks : WF_vars(Step(t))

-----------------------------------------------------------------------------
(* Properties *)

\* Every execution ends, without the help of the timeouts, also when the graph
\* has a cycle: the recursion limit breaks it through retry and continue.
ExecutionEnds == status = "running" ~> status \in {"success", "failed"}

\* A coroutine lives only as long as somebody waits for it: branches and items
\* never outlive the node that started them, whatever times out or raises.
NoOrphanTasks ==
    \A c \in Tasks \ {Main} :
        mode[c] # "free" =>
            LET p == Last(lineage[c]) IN
            /\ lineage[c] # <<>>
            /\ mode[p] = "run"
            /\ stack[p] # <<>>
            /\ Top(p).at \in {"join", "batch"}

\* No workflow is ever executed inside itself, and nesting respects max_depth
\* of the node that nests, also across branches and items.
ChainAcyclic ==
    \A t \in Tasks : \A i \in DOMAIN stack[t] :
        LET f == stack[t][i] IN
        /\ IsInjective(f.chain)
        /\ f.at = "child" => Len(f.chain) < NestLimit[f.node]

\* What of s is in A, and whether m leads into A by an edge or its handler.
Meets(s, A) == \E i \in DOMAIN s : s[i] \in A
Sole(s, A) == \A i, j \in DOMAIN s : s[i] \in A /\ s[j] \in A => i = j
Caught(m, A) == HandlersOf(m) # {} /\ ErrorHandler(m) \in A
Leads(m, A) == Caught(m, A) \/ \E h \in Handles : Meets(Successors[m][h], A)

\* The nodes of A lead to n, each by a single edge or by its handler, and not
\* through loop bodies, batch items, sub-workflows, retries or "continue".
OneWay(n, A) ==
    /\ n \in A /\ ~Leads(n, A)
    /\ \A m \in Nodes : Leads(m, A) => m \in A
    /\ \A m \in A : OnError[m] \in {"stop", "ignore"}
    /\ \A m \in Nodes, h \in Handles :
          /\ Sole(Successors[m][h], A)
          /\ Meets(Successors[m][h], A) =>
                /\ ~Caught(m, A)
                /\ \A k \in Handles : Meets(Successors[m][k], A) => k = h
                /\ <<Kind[m], h>> \notin {<<"loop", "default">>, <<"batch", "body">>}
    /\ \A w \in Workflows :
          Sole(AfterTrigger[w], A) /\ (Meets(AfterTrigger[w], A) => w = Root)

\* With policies stop and ignore a node reached by one path has its executor
\* called at most once, whatever fails around it: no side effect is repeated.
NoRepeatedEffects == \A n \in OncePerRun : ran[n] <= 1

\* An execution fails only for a reason: some executor raised, the recursion
\* limit was hit, or a timeout expired.
FailureHasCause ==
    status = "failed" => faults # {} \/ incidents # {}

\* The operation log shows the failed execution at error_node_id: whatever the
\* ancestors, handlers and retries did, the last entry of that node says
\* "failed", and a successful execution names no node.
ErrorNodeRecorded ==
    /\ errorNode # NoNode => status = "failed" /\ results[errorNode] = "failed"
    /\ status = "success" => errorNode = NoNode

=============================================================================

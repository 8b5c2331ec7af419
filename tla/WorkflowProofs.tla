--------------------------- MODULE WorkflowProofs ---------------------------
(***************************************************************************)
(* Proofs about WorkflowEngine for any graph, policies and limits, and any  *)
(* number of coroutines.                                                    *)
(***************************************************************************)
EXTENDS WorkflowEngine, SequenceTheorems, TLAPS

-----------------------------------------------------------------------------
(* Call stacks *)

\* The innermost frame of a stack that is not empty.
LEMMA LastOfSeq ==
    ASSUME NEW S, NEW s \in Seq(S), s # <<>>
    PROVE  /\ Len(s) \in Nat \ {0}
           /\ DOMAIN s = 1 .. Len(s)
           /\ Last(s) = s[Len(s)]
           /\ Last(s) \in S
           /\ Last(s) \in Range(s)
<1>1. Len(s) \in Nat \ {0} /\ DOMAIN s = 1 .. Len(s)
      BY EmptySeq, LenProperties
<1>2. s[Len(s)] \in S
      BY <1>1, ElementOfSeq
<1> QED BY <1>1, <1>2 DEF Last, Range

\* Return and Raise: the innermost frame is gone, the others stay.
LEMMA PopFrame ==
    ASSUME NEW S, NEW s \in Seq(S), s # <<>>
    PROVE  /\ Front(s) \in Seq(S)
           /\ Len(Front(s)) = Len(s) - 1
           /\ \A i \in 1 .. Len(s) - 1 : Front(s)[i] = s[i]
<1>1. Len(s) \in Nat \ {0} /\ \A i \in 1 .. Len(s) - 1 : s[i] \in S
      BY LastOfSeq, ElementOfSeq
<1>2. /\ SubSeq(s, 1, Len(s) - 1) \in Seq(S)
      /\ Len(SubSeq(s, 1, Len(s) - 1)) =
            IF 1 <= Len(s) - 1 THEN Len(s) - 1 - 1 + 1 ELSE 0
      /\ \A i \in 1 .. (Len(s) - 1) - 1 + 1 :
            SubSeq(s, 1, Len(s) - 1)[i] = s[1 + i - 1]
      BY <1>1, SubSeqProperties
<1>3. /\ Front(s) \in Seq(S)
      /\ Len(Front(s)) = IF 1 <= Len(s) - 1 THEN Len(s) - 1 - 1 + 1 ELSE 0
      /\ \A i \in 1 .. (Len(s) - 1) - 1 + 1 : Front(s)[i] = s[1 + i - 1]
      BY <1>2, Zenon DEF Front
<1>4. \A i \in 1 .. Len(s) - 1 : i \in 1 .. (Len(s) - 1) - 1 + 1 /\ 1 + i - 1 = i
      BY <1>1
<1>5. Len(Front(s)) = Len(s) - 1
      <2>1. CASE 1 <= Len(s) - 1
            <3>1. Len(s) - 1 - 1 + 1 = Len(s) - 1
                  BY <1>1
            <3> QED BY <2>1, <3>1, <1>3
      <2>2. CASE ~(1 <= Len(s) - 1)
            <3>1. \A n \in Nat \ {0} : ~(1 <= n - 1) => n - 1 = 0
                  OBVIOUS
            <3>2. Len(s) - 1 = 0
                  BY <1>1, <2>2, <3>1
            <3> QED BY <2>2, <3>2, <1>3
      <2> QED BY <2>1, <2>2
<1>6. \A i \in 1 .. Len(s) - 1 : Front(s)[i] = s[i]
      BY <1>3, <1>4
<1> QED BY <1>3, <1>5, <1>6

\* Goto: the innermost frame is replaced.
LEMMA ReplaceFrame ==
    ASSUME NEW S, NEW s \in Seq(S), s # <<>>, NEW x \in S
    PROVE  /\ Append(Front(s), x) \in Seq(S)
           /\ Append(Front(s), x) # <<>>
           /\ Last(Append(Front(s), x)) = x
<1>1. Front(s) \in Seq(S)
      BY PopFrame
<1>2. /\ Append(Front(s), x) \in Seq(S)
      /\ Append(Front(s), x) # <<>>
      /\ Len(Append(Front(s), x)) = Len(Front(s)) + 1
      /\ Append(Front(s), x)[Len(Front(s)) + 1] = x
      BY <1>1, AppendProperties
<1> QED BY <1>2 DEF Last

\* A call: the innermost frame is replaced and a frame is put on top of it.
LEMMA PushFrame ==
    ASSUME NEW S, NEW s \in Seq(S), s # <<>>, NEW x \in S, NEW y \in S
    PROVE  /\ Front(s) \o <<x, y>> \in Seq(S)
           /\ Front(s) \o <<x, y>> # <<>>
<1>1. Front(s) \in Seq(S) /\ Len(Front(s)) \in Nat
      BY PopFrame, LenProperties
<1>2. <<x, y>> \in Seq(S) /\ Len(<<x, y>>) = 2
      OBVIOUS
<1>3. /\ Front(s) \o <<x, y>> \in Seq(S)
      /\ Len(Front(s) \o <<x, y>>) = Len(Front(s)) + Len(<<x, y>>)
      BY <1>1, <1>2, ConcatProperties
<1>4. Len(Front(s) \o <<x, y>>) # 0
      BY <1>1, <1>2, <1>3
<1>5. Front(s) \o <<x, y>> # <<>>
      BY <1>4, EmptySeq
<1> QED BY <1>3, <1>5

-----------------------------------------------------------------------------
(* The inductive invariant *)

Live == {"run", "ret", "raise"}

\* t awaits its branches or items.
Waiting(t) == mode[t] = "run" /\ stack[t] # <<>> /\ Top(t).at \in {"join", "batch"}

\* A frame of _execute_single_node has a node; no workflow is twice in a chain,
\* and a child runs only within max_depth.
GoodFrame ==
    {f \in Frame : /\ f.at # "list" => f.node \in Nodes
                   /\ IsInjective(f.chain)
                   /\ f.at = "child" => Len(f.chain) < NestLimit[f.node]}

Frames == stack \in [Tasks -> Seq(GoodFrame)]

Modes ==
    /\ \A t \in Tasks : mode[t] = "run" => stack[t] # <<>>
    /\ mode[Main] \in Live <=> status = "running"

\* A coroutine that has been started knows who waits for it; all of them do, and
\* those that wait for one of them are the ones before it.
Family ==
    /\ \A c \in Tasks : lineage[c] # <<>> <=> c # Main /\ mode[c] # "free"
    /\ \A c \in Tasks : \A i \in 1 .. Len(lineage[c]) :
          /\ Waiting(lineage[c][i])
          /\ lineage[lineage[c][i]] = SubSeq(lineage[c], 1, i - 1)

\* The exception on its way to execute_workflow names a node that failed last.
Recorded ==
    /\ mode[Main] = "raise" /\ exc[Main] # NoNode => results[exc[Main]] = "failed"
    /\ status \in {"new", "running"} => errorNode = NoNode
    /\ ErrorNodeRecorded

IInv == TypeOK /\ Frames /\ Modes /\ Family /\ Recorded

LEMMA InitInv == Init => IInv
<1> SUFFICES ASSUME Init PROVE IInv
    OBVIOUS
<1> USE GraphAssumption
<1>1. TypeOK
      BY DEF Init, TypeOK
<1>2. Frames
      BY DEF Init, Frames
<1>3. Modes
      BY DEF Init, Modes, Live
<1>4. Family
      <2>1. \A c \in Tasks : lineage[c] = <<>> /\ mode[c] = "free"
            BY DEF Init
      <2> QED BY <2>1 DEF Family
<1>5. Recorded
      BY DEF Init, Recorded, ErrorNodeRecorded
<1> QED BY <1>1, <1>2, <1>3, <1>4, <1>5 DEF IInv

-----------------------------------------------------------------------------
(* Steps inside one coroutine *)

\* What a step does to the call stack of t and to its exception.
Moves(t) ==
    \E s \in Seq(GoodFrame), m \in Live, e \in Nodes \cup {NoNode} :
        /\ stack' = [stack EXCEPT ![t] = s]
        /\ mode' = [mode EXCEPT ![t] = m]
        /\ exc' = [exc EXCEPT ![t] = e]
        /\ m = "run" => s # <<>>
        /\ m = "raise" /\ e # NoNode =>
              \/ results' = [results EXCEPT ![e] = "failed"]
              \/ mode[t] = "raise" /\ e = exc[t] /\ results' = results

\* t is not suspended in a gather with coroutines of its own.
Ready(t) ==
    /\ t \in Tasks
    /\ stack[t] # <<>>
    /\ mode[t] \in Live
    /\ Waiting(t) => Children(t) = {}

\* A step of one coroutine that starts and ends no other.
Local(t) ==
    /\ Ready(t)
    /\ Moves(t)
    /\ UNCHANGED <<lineage, status, errorNode>>
    /\ results' \in [Nodes -> {"none", "success", "failed", "filtered"}]
    /\ ran' \in [Nodes -> 0 .. 2]
    /\ faults' \subseteq Nodes
    /\ incidents' \subseteq {"depth", "timeout"}

\* The innermost frame.
LEMMA TopFrame ==
    ASSUME IInv, NEW t \in Tasks, stack[t] # <<>>
    PROVE  /\ stack[t] \in Seq(GoodFrame)
           /\ Top(t) \in GoodFrame
           /\ Below(t) \in Seq(GoodFrame)
           /\ Top(t) \in Frame
           /\ Top(t).at # "list" => Top(t).node \in Nodes
<1>1. stack[t] \in Seq(GoodFrame)
      BY DEF IInv, Frames
<1>2. Top(t) \in GoodFrame
      BY <1>1, LastOfSeq DEF Top
<1>3. Below(t) \in Seq(GoodFrame)
      BY <1>1, PopFrame DEF Below
<1> QED BY <1>1, <1>2, <1>3 DEF GoodFrame

\* A frame at another place, with another counter, is a frame.
LEMMA MovedFrame ==
    ASSUME NEW f \in GoodFrame, f.node \in Nodes,
           NEW place \in Places \ {"child"}, NEW num \in Nat
    PROVE  [f EXCEPT !.at = place, !.num = num] \in GoodFrame
<1> DEFINE g == [f EXCEPT !.at = place, !.num = num]
<1>1. f \in Frame /\ IsInjective(f.chain)
      BY DEF GoodFrame
<1>2. g \in Frame /\ g.at = place /\ g.node = f.node /\ g.chain = f.chain
      BY <1>1 DEF Frame, Places
<1> QED BY <1>1, <1>2, Zenon DEF GoodFrame

\* The frames of new calls.
LEMMA NewFrames ==
    ASSUME NEW chain \in Seq(Workflows), IsInjective(chain), NEW depth \in Nat
    PROVE  /\ \A nodes \in Seq(Nodes) : ListFrame(nodes, depth, chain) \in GoodFrame
           /\ \A n \in Nodes : NodeFrame(n, depth, chain) \in GoodFrame
<1>1. ASSUME NEW nodes \in Seq(Nodes)
      PROVE  ListFrame(nodes, depth, chain) \in GoodFrame
      <2> DEFINE f == ListFrame(nodes, depth, chain)
      <2>1. f \in Frame /\ f.at = "list" /\ f.chain = chain
            BY DEF ListFrame, Frame, Places
      <2> HIDE DEF f
      <2> QED BY <2>1 DEF GoodFrame, f
<1>2. ASSUME NEW n \in Nodes
      PROVE  NodeFrame(n, depth, chain) \in GoodFrame
      <2> DEFINE f == NodeFrame(n, depth, chain)
      <2>1. f \in Frame /\ f.at = "enter" /\ f.chain = chain /\ f.node = n
            BY EmptySeq DEF NodeFrame, Frame, Places
      <2> HIDE DEF f
      <2> QED BY <2>1 DEF GoodFrame, f
<1> QED BY <1>1, <1>2

LEMMA SuccessorsType ==
    ASSUME NEW n \in Nodes
    PROVE  /\ \A h \in Handles : Successors[n][h] \in Seq(Nodes)
           /\ AllSuccessors(n) \in Seq(Nodes)
<1>1. \A h \in Handles : Successors[n][h] \in Seq(Nodes)
      BY GraphAssumption
<1> DEFINE s == Successors[n]
<1>2. /\ s["default"] \in Seq(Nodes) /\ s["true"] \in Seq(Nodes)
      /\ s["false"] \in Seq(Nodes) /\ s["branch"] \in Seq(Nodes)
      /\ s["body"] \in Seq(Nodes) /\ s["done"] \in Seq(Nodes)
      BY <1>1 DEF Handles
<1> HIDE DEF s
<1>3. \A a, b \in Seq(Nodes) : a \o b \in Seq(Nodes)
      BY ConcatProperties
<1>4. s["default"] \o s["true"] \o s["false"] \o s["branch"] \o s["body"] \o s["done"]
         \in Seq(Nodes)
      <2>1. s["default"] \o s["true"] \in Seq(Nodes)
            BY <1>2, <1>3
      <2>2. s["default"] \o s["true"] \o s["false"] \in Seq(Nodes)
            BY <1>2, <1>3, <2>1
      <2>3. s["default"] \o s["true"] \o s["false"] \o s["branch"] \in Seq(Nodes)
            BY <1>2, <1>3, <2>2
      <2>4. s["default"] \o s["true"] \o s["false"] \o s["branch"] \o s["body"]
               \in Seq(Nodes)
            BY <1>2, <1>3, <2>3
      <2> QED BY <1>2, <1>3, <2>4
<1> QED BY <1>1, <1>4 DEF AllSuccessors, s

\* Goto, Return, Raise, RaiseHere and CallNodes move t.
LEMMA GotoMoves ==
    ASSUME IInv, NEW t, Ready(t), Top(t).node \in Nodes,
           NEW place \in Places \ {"child"}, NEW num \in Nat, Goto(t, place, num)
    PROVE  Moves(t)
<1> DEFINE f == [Top(t) EXCEPT !.at = place, !.num = num]
           s == Append(Below(t), f)
<1>1. t \in Tasks /\ stack[t] # <<>> BY DEF Ready
<1>2. f \in GoodFrame
      BY <1>1, TopFrame, MovedFrame
<1>3. s \in Seq(GoodFrame) /\ s # <<>>
      BY <1>1, <1>2, TopFrame, ReplaceFrame DEF Below
<1>4. stack' = [stack EXCEPT ![t] = s] /\ mode' = [mode EXCEPT ![t] = "run"] /\ exc' = exc
      BY DEF Goto, Continue
<1>5. exc[t] \in Nodes \cup {NoNode} /\ exc' = [exc EXCEPT ![t] = exc[t]]
      BY <1>1, <1>4 DEF IInv, TypeOK
<1> HIDE DEF f, s
<1> QED BY <1>3, <1>4, <1>5 DEF Moves, Live

LEMMA ReturnMoves ==
    ASSUME IInv, NEW t, Ready(t), Return(t)
    PROVE  Moves(t)
<1>1. t \in Tasks /\ stack[t] # <<>> BY DEF Ready
<1>2. Below(t) \in Seq(GoodFrame) BY <1>1, TopFrame
<1>3. /\ stack' = [stack EXCEPT ![t] = Below(t)]
      /\ mode' = [mode EXCEPT ![t] = "ret"] /\ exc' = exc
      BY DEF Return, Continue
<1>4. exc[t] \in Nodes \cup {NoNode} /\ exc' = [exc EXCEPT ![t] = exc[t]]
      BY <1>1, <1>3 DEF IInv, TypeOK
<1> QED BY <1>2, <1>3, <1>4 DEF Moves, Live

LEMMA RaiseMoves ==
    ASSUME IInv, NEW t, Ready(t), NEW e \in Nodes \cup {NoNode}, Raise(t, e),
           \/ e = NoNode
           \/ results' = [results EXCEPT ![e] = "failed"]
           \/ mode[t] = "raise" /\ e = exc[t] /\ results' = results
    PROVE  Moves(t)
<1>1. t \in Tasks /\ stack[t] # <<>> BY DEF Ready
<1>2. Below(t) \in Seq(GoodFrame) BY <1>1, TopFrame
<1>3. /\ stack' = [stack EXCEPT ![t] = Below(t)]
      /\ mode' = [mode EXCEPT ![t] = "raise"] /\ exc' = [exc EXCEPT ![t] = e]
      BY DEF Raise, Continue
<1> QED BY <1>2, <1>3 DEF Moves, Live

\* An exception without a node, with the stack s.
LEMMA AnonymousMoves ==
    ASSUME IInv, NEW t, Ready(t), NEW s \in Seq(GoodFrame),
           Continue(t, s, "raise"), exc' = [exc EXCEPT ![t] = NoNode]
    PROVE  Moves(t)
BY DEF Moves, Live, Continue

LEMMA RaiseHereMoves ==
    ASSUME IInv, NEW t, Ready(t), RaiseHere(t)
    PROVE  Moves(t)
<1>1. t \in Tasks /\ stack[t] # <<>> BY DEF Ready
<1>2. stack[t] \in Seq(GoodFrame) BY <1>1, TopFrame
<1>3. stack' = [stack EXCEPT ![t] = stack[t]]
      BY <1>1 DEF RaiseHere, IInv, Frames
<1>4. Continue(t, stack[t], "raise") /\ exc' = [exc EXCEPT ![t] = NoNode]
      BY <1>3 DEF RaiseHere, Continue
<1> QED BY <1>2, <1>4, AnonymousMoves

LEMMA CallNodesMoves ==
    ASSUME IInv, NEW t, Ready(t), Top(t).node \in Nodes, NEW nodes \in Seq(Nodes),
           NEW place \in Places \ {"child"}, NEW num \in Nat,
           CallNodes(t, nodes, place, num)
    PROVE  Moves(t) /\ incidents' \subseteq {"depth", "timeout"}
<1> DEFINE f == [Top(t) EXCEPT !.at = place, !.num = num]
<1>1. t \in Tasks /\ stack[t] # <<>> BY DEF Ready
<1>2. f \in GoodFrame
      BY <1>1, TopFrame, MovedFrame
<1>3. incidents \subseteq {"depth", "timeout"} BY DEF IInv, TypeOK
<1> HIDE DEF f
<1>4. CASE nodes = <<>>
      BY <1>3, <1>4, ReturnMoves DEF CallNodes
<1>5. CASE nodes # <<>> /\ f.depth + 1 > MaxDepth
      <2>1. /\ Continue(t, Append(Below(t), f), "raise")
            /\ exc' = [exc EXCEPT ![t] = NoNode]
            /\ incidents' = incidents \cup {"depth"}
            BY <1>5 DEF CallNodes, f
      <2>2. Append(Below(t), f) \in Seq(GoodFrame)
            BY <1>1, <1>2, TopFrame, ReplaceFrame DEF Below
      <2> QED BY <2>1, <2>2, <1>3, AnonymousMoves
<1>6. CASE nodes # <<>> /\ ~(f.depth + 1 > MaxDepth)
      <2> DEFINE g == ListFrame(nodes, f.depth + 1, f.chain)
                 s == Below(t) \o <<f, g>>
      <2>1. /\ stack' = [stack EXCEPT ![t] = s]
            /\ mode' = [mode EXCEPT ![t] = "run"]
            /\ exc' = exc /\ incidents' = incidents
            BY <1>6 DEF CallNodes, Continue, f
      <2>2. g \in GoodFrame
            <3>1. f \in Frame /\ IsInjective(f.chain) BY <1>2 DEF GoodFrame
            <3>2. f.depth + 1 \in Nat /\ f.chain \in Seq(Workflows)
                  BY <3>1 DEF Frame
            <3> QED BY <3>1, <3>2, NewFrames
      <2> HIDE DEF g
      <2>3. s \in Seq(GoodFrame) /\ s # <<>>
            BY <1>1, <1>2, <2>2, TopFrame, PushFrame DEF Below
      <2>4. exc[t] \in Nodes \cup {NoNode} /\ exc' = [exc EXCEPT ![t] = exc[t]]
            BY <1>1, <2>1 DEF IInv, TypeOK
      <2> HIDE DEF s
      <2>5. Moves(t)
            BY <2>1, <2>3, <2>4 DEF Moves, Live
      <2> QED BY <2>1, <2>5, <1>3
<1> QED BY <1>4, <1>5, <1>6

\* A coroutine at a place where it is not suspended in a gather.
LEMMA AtReady ==
    ASSUME IInv, NEW t \in Tasks, NEW places, NEW modes, At(t, places, modes),
           modes \subseteq Live, places \cap {"join", "batch"} = {} \/ Children(t) = {}
    PROVE  /\ Ready(t)
           /\ "list" \notin places => Top(t).node \in Nodes
<1>1. stack[t] # <<>> /\ Top(t).at \in places /\ mode[t] \in Live
      BY DEF At
<1> QED BY <1>1, TopFrame DEF Ready, Waiting

\* Log, Called and Fault keep the types of what they write.
LEMMA Writes ==
    ASSUME IInv, NEW n \in Nodes
    PROVE  /\ \A s \in {"success", "failed", "filtered"} :
                 Log(n, s) => results' \in [Nodes -> {"none", "success", "failed", "filtered"}]
           /\ Called(n) => ran' \in [Nodes -> 0 .. 2]
           /\ results \in [Nodes -> {"none", "success", "failed", "filtered"}]
           /\ ran \in [Nodes -> 0 .. 2]
           /\ faults \subseteq Nodes
           /\ incidents \subseteq {"depth", "timeout"}
<1>1. /\ results \in [Nodes -> {"none", "success", "failed", "filtered"}]
      /\ ran \in [Nodes -> 0 .. 2]
      /\ faults \subseteq Nodes
      /\ incidents \subseteq {"depth", "timeout"}
      BY DEF IInv, TypeOK
<1>2. Called(n) => ran' \in [Nodes -> 0 .. 2]
      <2>1. ran[n] \in 0 .. 2 /\ (IF ran[n] = 2 THEN 2 ELSE ran[n] + 1) \in 0 .. 2
            BY <1>1
      <2> QED BY <1>1, <2>1 DEF Called
<1> QED BY <1>1, <1>2 DEF Log

\* Complete and Fault.
LEMMA CompleteMoves ==
    ASSUME IInv, NEW t, Ready(t), Top(t).node \in Nodes, NEW nodes \in Seq(Nodes),
           Complete(t, nodes)
    PROVE  /\ Moves(t) /\ incidents' \subseteq {"depth", "timeout"}
           /\ results' \in [Nodes -> {"none", "success", "failed", "filtered"}]
<1>1. CallNodes(t, nodes, "succ", 0) /\ Log(Top(t).node, "success")
      BY DEF Complete
<1>2. "succ" \in Places \ {"child"} BY DEF Places
<1> QED BY <1>1, <1>2, CallNodesMoves, Writes

LEMMA FaultMoves ==
    ASSUME IInv, NEW t, Ready(t), Top(t).node \in Nodes, Fault(t)
    PROVE  Moves(t) /\ faults' \subseteq Nodes
BY RaiseHereMoves, Writes DEF Fault

LEMMA ListNextLocal ==
    ASSUME IInv, NEW t \in Tasks, ListNext(t)
    PROVE  Local(t)
<1> DEFINE f == Top(t)
<1>1. Ready(t) /\ Top(t).at = "list"
      BY AtReady DEF ListNext, At, Live
<1>2. f \in GoodFrame BY <1>1, TopFrame DEF Ready
<1>3. Moves(t)
      <2>1. CASE f.rest = <<>>
            BY <1>1, <2>1, ReturnMoves DEF ListNext
      <2>2. CASE f.rest # <<>>
            <3> DEFINE g == [f EXCEPT !.rest = Tail(@)]
                       h == NodeFrame(Head(f.rest), f.depth, f.chain)
                       s == Below(t) \o <<g, h>>
            <3>1. /\ f \in Frame /\ IsInjective(f.chain)
                  /\ f.rest \in Seq(Nodes) /\ f.depth \in Nat /\ f.chain \in Seq(Workflows)
                  BY <1>2 DEF GoodFrame, Frame
            <3>2. Head(f.rest) \in Nodes /\ Tail(f.rest) \in Seq(Nodes)
                  BY <2>2, <3>1, HeadTailProperties
            <3>3. h \in GoodFrame
                  BY <3>1, <3>2, NewFrames
            <3>4. g \in GoodFrame
                  <4>1. g \in Frame /\ g.at = f.at /\ g.chain = f.chain
                        BY <3>1, <3>2 DEF Frame
                  <4>2. g.at = "list" BY <1>1, <4>1
                  <4> HIDE DEF g
                  <4> QED BY <4>1, <4>2, <3>1 DEF GoodFrame
            <3>5. /\ stack' = [stack EXCEPT ![t] = s]
                  /\ mode' = [mode EXCEPT ![t] = "run"] /\ exc' = exc
                  BY <2>2 DEF ListNext, Continue
            <3> HIDE DEF g, h
            <3>6. s \in Seq(GoodFrame) /\ s # <<>>
                  BY <1>1, <3>3, <3>4, TopFrame, PushFrame DEF Below, Ready
            <3>7. exc[t] \in Nodes \cup {NoNode} /\ exc' = [exc EXCEPT ![t] = exc[t]]
                  BY <3>5 DEF IInv, TypeOK
            <3> HIDE DEF s
            <3> QED BY <3>5, <3>6, <3>7 DEF Moves, Live
      <2> QED BY <2>1, <2>2
<1> QED BY <1>1, <1>3 DEF Local, ListNext, IInv, TypeOK

LEMMA PropagateLocal ==
    ASSUME IInv, NEW t \in Tasks, Propagate(t)
    PROVE  Local(t)
<1>1. Ready(t) /\ mode[t] = "raise"
      BY AtReady DEF Propagate, At, Live
<1>2. exc[t] \in Nodes \cup {NoNode} BY DEF IInv, TypeOK
<1>3. Moves(t)
      BY <1>1, <1>2, RaiseMoves DEF Propagate
<1> QED BY <1>1, <1>3 DEF Local, Propagate, IInv, TypeOK

LEMMA EnterLocal ==
    ASSUME IInv, NEW t \in Tasks, Enter(t)
    PROVE  Local(t)
<1>1. Ready(t) /\ Top(t).node \in Nodes
      BY AtReady DEF Enter, Live
<1>2. Moves(t)
      BY <1>1, RaiseMoves, GotoMoves DEF Enter, Places
<1> QED BY <1>1, <1>2 DEF Local, Enter, IInv, TypeOK

\* Executors without calls back into the engine.
LEMMA PerformLocal ==
    ASSUME IInv, NEW t \in Tasks, NEW kinds, Perform(t, kinds)
    PROVE  Local(t)
<1> DEFINE n == Top(t).node
<1>1. Ready(t) /\ n \in Nodes
      BY AtReady DEF Perform, Live
<1>2. AllSuccessors(n) \in Seq(Nodes)
      BY <1>1, SuccessorsType
<1>3. ran' \in [Nodes -> 0 .. 2] /\ UNCHANGED <<lineage, status, errorNode>>
      BY <1>1, Writes DEF Perform
<1>4. CASE Complete(t, AllSuccessors(n)) /\ UNCHANGED faults
      BY <1>1, <1>2, <1>3, <1>4, CompleteMoves, Writes DEF Local
<1>5. CASE Fault(t) /\ UNCHANGED <<results, incidents>>
      BY <1>1, <1>3, <1>5, FaultMoves, Writes DEF Local
<1> QED BY <1>4, <1>5 DEF Perform

LEMMA ChooseLocal ==
    ASSUME IInv, NEW t \in Tasks, Choose(t)
    PROVE  Local(t)
<1> DEFINE n == Top(t).node
<1>1. Ready(t) /\ n \in Nodes
      BY AtReady DEF Choose, Live
<1>2. UNCHANGED <<lineage, status, errorNode, ran>>
      BY DEF Choose
<1>3. ASSUME NEW h \in Verdicts, Complete(t, Successors[n][h]), UNCHANGED faults
      PROVE  Local(t)
      <2>1. Successors[n][h] \in Seq(Nodes)
            BY <1>1, SuccessorsType DEF Verdicts, Handles
      <2> QED BY <1>1, <1>2, <1>3, <2>1, CompleteMoves, Writes DEF Local
<1>4. CASE Fault(t) /\ UNCHANGED <<results, incidents>>
      BY <1>1, <1>2, <1>4, FaultMoves, Writes DEF Local
<1> QED BY <1>3, <1>4 DEF Choose

LEMMA FilterLocal ==
    ASSUME IInv, NEW t \in Tasks, Filter(t)
    PROVE  Local(t)
<1> DEFINE n == Top(t).node
<1>1. Ready(t) /\ n \in Nodes
      BY AtReady DEF Filter, Live
<1>2. AllSuccessors(n) \in Seq(Nodes)
      BY <1>1, SuccessorsType
<1>3. UNCHANGED <<lineage, status, errorNode, ran>>
      BY DEF Filter
<1>4. CASE Complete(t, AllSuccessors(n)) /\ UNCHANGED faults
      BY <1>1, <1>2, <1>3, <1>4, CompleteMoves, Writes DEF Local
<1>5. CASE Log(n, "filtered") /\ Return(t) /\ UNCHANGED <<faults, incidents>>
      BY <1>1, <1>3, <1>5, ReturnMoves, Writes DEF Local
<1>6. CASE Fault(t) /\ UNCHANGED <<results, incidents>>
      BY <1>1, <1>3, <1>6, FaultMoves, Writes DEF Local
<1> QED BY <1>4, <1>5, <1>6 DEF Filter

LEMMA RespondLocal ==
    ASSUME IInv, NEW t \in Tasks, Respond(t)
    PROVE  Local(t)
<1>1. Ready(t) /\ Top(t).node \in Nodes
      BY AtReady DEF Respond, Live
<1>2. UNCHANGED <<lineage, status, errorNode, ran>>
      BY DEF Respond
<1>3. CASE Log(Top(t).node, "success") /\ Return(t) /\ UNCHANGED <<faults, incidents>>
      BY <1>1, <1>2, <1>3, ReturnMoves, Writes DEF Local
<1>4. CASE Fault(t) /\ UNCHANGED <<results, incidents>>
      BY <1>1, <1>2, <1>4, FaultMoves, Writes DEF Local
<1> QED BY <1>3, <1>4 DEF Respond

LEMMA AwaitReturnedLocal ==
    ASSUME IInv, NEW t \in Tasks, AwaitReturned(t)
    PROVE  Local(t)
<1>1. Ready(t) /\ Top(t).node \in Nodes
      BY AtReady DEF AwaitReturned, Live
<1> QED BY <1>1, ReturnMoves, Writes DEF Local, AwaitReturned

LEMMA CatchFirstLocal ==
    ASSUME IInv, NEW t \in Tasks, CatchFirst(t)
    PROVE  Local(t)
<1>1. Ready(t) /\ Top(t).node \in Nodes
      BY AtReady DEF CatchFirst, Live
<1>2. Moves(t)
      BY <1>1, GotoMoves DEF CatchFirst, Places
<1> QED BY <1>1, <1>2, Writes DEF Local, CatchFirst

LEMMA RetryLocal ==
    ASSUME IInv, NEW t \in Tasks, Retry(t)
    PROVE  Local(t)
<1> DEFINE n == Top(t).node
<1>1. Ready(t) /\ n \in Nodes
      BY AtReady DEF Retry, Live
<1>2. AllSuccessors(n) \in Seq(Nodes) /\ Top(t).num \in Nat
      BY <1>1, SuccessorsType, TopFrame DEF Ready, Frame
<1>3. ran' \in [Nodes -> 0 .. 2] /\ UNCHANGED <<lineage, status, errorNode>>
      BY <1>1, Writes DEF Retry
<1>4. CASE /\ Log(n, "success")
           /\ CallNodes(t, AllSuccessors(n), "retrysucc", Top(t).num)
           /\ UNCHANGED faults
      <2>1. "retrysucc" \in Places \ {"child"} BY DEF Places
      <2>2. Moves(t) /\ incidents' \subseteq {"depth", "timeout"}
            BY <1>1, <1>2, <1>4, <2>1, CallNodesMoves
      <2> QED BY <1>1, <1>3, <1>4, <2>2, Writes DEF Local
<1>5. CASE Fault(t) /\ UNCHANGED <<results, incidents>>
      BY <1>1, <1>3, <1>5, FaultMoves, Writes DEF Local
<1> QED BY <1>4, <1>5 DEF Retry

LEMMA CatchRetryLocal ==
    ASSUME IInv, NEW t \in Tasks, CatchRetry(t)
    PROVE  Local(t)
<1>1. Ready(t) /\ Top(t).node \in Nodes
      BY AtReady DEF CatchRetry, Live
<1>2. Top(t).num \in Nat
      BY <1>1, TopFrame DEF Ready, Frame
<1>3. Moves(t)
      <2>1. CASE Goto(t, "failed", 0)
            BY <1>1, <2>1, GotoMoves DEF Places
      <2>2. CASE Goto(t, "retry", Top(t).num + 1)
            <3>1. Top(t).num + 1 \in Nat BY <1>2
            <3> QED BY <1>1, <2>2, <3>1, GotoMoves DEF Places
      <2> QED BY <2>1, <2>2 DEF CatchRetry
<1> QED BY <1>1, <1>3, Writes DEF Local, CatchRetry

LEMMA HandleFailureLocal ==
    ASSUME IInv, NEW t \in Tasks, HandleFailure(t)
    PROVE  Local(t)
<1> DEFINE n == Top(t).node
           f == [Top(t) EXCEPT !.at = "handling"]
<1>1. Ready(t) /\ n \in Nodes
      BY AtReady DEF HandleFailure, Live
<1>2. /\ results' \in [Nodes -> {"none", "success", "failed", "filtered"}]
      /\ results' = [results EXCEPT ![n] = "failed"]
      BY <1>1, Writes DEF HandleFailure, Log
<1>3. UNCHANGED <<lineage, status, errorNode, ran, faults>>
      BY DEF HandleFailure
<1>4. Top(t) \in GoodFrame /\ Top(t) \in Frame
      BY <1>1, TopFrame DEF Ready
<1>5. CASE /\ HandlersOf(n) # {}
           /\ Continue(t, Below(t) \o <<f, NodeFrame(ErrorHandler(n), f.depth + 1, f.chain)>>,
                       "run")
           /\ UNCHANGED <<exc, incidents>>
      <2> DEFINE h == NodeFrame(ErrorHandler(n), f.depth + 1, f.chain)
                 s == Below(t) \o <<f, h>>
      <2>1. ErrorHandler(n) \in Nodes
            BY <1>5 DEF ErrorHandler, HandlersOf
      <2>2. f \in Frame /\ f.at = "handling" /\ f.node = n /\ f.chain = Top(t).chain
            BY <1>4 DEF Frame, Places
      <2>3. f \in GoodFrame
            <3>1. IsInjective(f.chain) BY <1>4, <2>2 DEF GoodFrame
            <3> HIDE DEF f
            <3> QED BY <1>1, <2>2, <3>1 DEF GoodFrame
      <2> HIDE DEF f
      <2>4. h \in GoodFrame
            <3>1. f.depth + 1 \in Nat /\ f.chain \in Seq(Workflows)
                  BY <2>2 DEF Frame
            <3> QED BY <2>1, <2>3, <3>1, NewFrames DEF GoodFrame
      <2>5. /\ stack' = [stack EXCEPT ![t] = s]
            /\ mode' = [mode EXCEPT ![t] = "run"] /\ exc' = exc
            BY <1>5 DEF Continue, f
      <2> HIDE DEF h
      <2>6. s \in Seq(GoodFrame) /\ s # <<>>
            BY <1>1, <2>3, <2>4, TopFrame, PushFrame DEF Below, Ready
      <2>7. exc[t] \in Nodes \cup {NoNode} /\ exc' = [exc EXCEPT ![t] = exc[t]]
            BY <2>5 DEF IInv, TypeOK
      <2> HIDE DEF s
      <2>8. Moves(t)
            BY <2>5, <2>6, <2>7 DEF Moves, Live
      <2> QED BY <1>1, <1>2, <1>3, <1>5, <2>8, Writes DEF Local
<1>6. CASE CallNodes(t, AllSuccessors(n), "continuing", 0)
      <2>1. "continuing" \in Places \ {"child"} BY DEF Places
      <2>2. Moves(t) /\ incidents' \subseteq {"depth", "timeout"}
            BY <1>1, <1>6, <2>1, SuccessorsType, CallNodesMoves
      <2> QED BY <1>1, <1>2, <1>3, <2>2, Writes DEF Local
<1>7. CASE Return(t) /\ UNCHANGED incidents
      BY <1>1, <1>2, <1>3, <1>7, ReturnMoves, Writes DEF Local
<1>8. CASE Raise(t, n) /\ UNCHANGED incidents
      BY <1>1, <1>2, <1>3, <1>8, RaiseMoves, Writes DEF Local
<1> QED BY <1>5, <1>6, <1>7, <1>8 DEF HandleFailure

LEMMA LoopStartLocal ==
    ASSUME IInv, NEW t \in Tasks, LoopStart(t)
    PROVE  Local(t)
<1>1. Ready(t) /\ Top(t).node \in Nodes
      BY AtReady DEF LoopStart, Live
<1>2. PICK k \in 0 .. ItemBound :
         Continue(t, Append(Below(t), [Top(t) EXCEPT !.at = "loop", !.num = k]), "ret")
      BY DEF LoopStart
<1> DEFINE f == [Top(t) EXCEPT !.at = "loop", !.num = k]
           s == Append(Below(t), f)
<1>3. f \in GoodFrame
      <2>1. k \in Nat /\ "loop" \in Places \ {"child"}
            BY GraphAssumption DEF Places
      <2> QED BY <1>1, <2>1, TopFrame, MovedFrame DEF Ready
<1>4. s \in Seq(GoodFrame)
      BY <1>1, <1>3, TopFrame, ReplaceFrame DEF Below, Ready
<1>5. stack' = [stack EXCEPT ![t] = s] /\ mode' = [mode EXCEPT ![t] = "ret"] /\ exc' = exc
      BY <1>2 DEF Continue, LoopStart
<1>6. exc[t] \in Nodes \cup {NoNode} /\ exc' = [exc EXCEPT ![t] = exc[t]]
      BY <1>5 DEF IInv, TypeOK
<1> HIDE DEF s
<1>7. Moves(t)
      BY <1>4, <1>5, <1>6 DEF Moves, Live
<1> QED BY <1>1, <1>7, Writes DEF Local, LoopStart

LEMMA LoopNextLocal ==
    ASSUME IInv, NEW t \in Tasks, LoopNext(t)
    PROVE  Local(t)
<1> DEFINE f == Top(t)
           body == Successors[f.node]["default"]
<1>1. Ready(t) /\ f.node \in Nodes
      BY AtReady DEF LoopNext, Live
<1>2. UNCHANGED <<lineage, status, errorNode, ran, faults>>
      BY DEF LoopNext
<1>3. body \in Seq(Nodes) /\ Successors[f.node]["done"] \in Seq(Nodes) /\ f.num \in Nat
      BY <1>1, SuccessorsType, TopFrame DEF Handles, Ready, Frame
<1>4. CASE f.num = 0 \/ body = <<>>
      <2>1. Complete(t, Successors[f.node]["done"]) BY <1>4 DEF LoopNext
      <2> QED BY <1>1, <1>2, <1>3, <2>1, CompleteMoves, Writes DEF Local
<1>5. CASE ~(f.num = 0 \/ body = <<>>)
      <2>1. CallNodes(t, body, "loop", f.num - 1) /\ UNCHANGED results
            BY <1>5 DEF LoopNext
      <2>2. f.num - 1 \in Nat /\ "loop" \in Places \ {"child"}
            BY <1>3, <1>5 DEF Places
      <2>3. Moves(t) /\ incidents' \subseteq {"depth", "timeout"}
            BY <1>1, <1>3, <2>1, <2>2, CallNodesMoves
      <2> QED BY <1>1, <1>2, <2>1, <2>3, Writes DEF Local
<1> QED BY <1>4, <1>5

\* _exec_sub_workflow extends the chain by a workflow that is not in it.
LEMMA LongerChain ==
    ASSUME NEW chain \in Seq(Workflows), IsInjective(chain),
           NEW w \in Workflows, w \notin Range(chain)
    PROVE  Append(chain, w) \in Seq(Workflows) /\ IsInjective(Append(chain, w))
<1> DEFINE r == Append(chain, w)
           k == Len(chain)
<1>1. /\ r \in Seq(Workflows)
      /\ Len(r) = k + 1
      /\ \A i \in 1 .. k : r[i] = chain[i]
      /\ r[k + 1] = w
      BY AppendProperties
<1>2. k \in Nat /\ DOMAIN chain = 1 .. k BY LenProperties
<1>3. DOMAIN r = 1 .. k + 1 BY <1>1, LenProperties
<1> HIDE DEF r
<1>4. \A i \in 1 .. k : r[i] # w
      BY <1>1, <1>2 DEF Range
<1>5. ASSUME NEW a \in 1 .. k + 1, NEW b \in 1 .. k + 1, r[a] = r[b]
      PROVE  a = b
      <2>1. CASE a = k + 1 \/ b = k + 1
            BY <1>1, <1>2, <1>4, <1>5, <2>1
      <2>2. CASE a \in 1 .. k /\ b \in 1 .. k
            BY <1>1, <1>2, <1>5, <2>2 DEF IsInjective
      <2> QED BY <1>2, <2>1, <2>2
<1>6. IsInjective(r)
      BY <1>3, <1>5 DEF IsInjective
<1> QED BY <1>1, <1>6 DEF r

LEMMA ChildStartLocal ==
    ASSUME IInv, NEW t \in Tasks, ChildStart(t)
    PROVE  Local(t)
<1> DEFINE f == Top(t)
           w == Child[f.node]
<1>1. Ready(t) /\ f.node \in Nodes
      BY AtReady DEF ChildStart, Live
<1>2. UNCHANGED <<lineage, status, errorNode, results, ran, incidents>>
      BY DEF ChildStart
<1>3. CASE Fault(t)
      BY <1>1, <1>2, <1>3, FaultMoves, Writes DEF Local
<1>4. CASE /\ ~ChildRejected(f)
           /\ Continue(t, Below(t) \o <<[f EXCEPT !.at = "child"],
                           ListFrame(AfterTrigger[w], 0, Append(f.chain, w))>>, "run")
           /\ UNCHANGED <<exc, faults>>
      <2> DEFINE g == [f EXCEPT !.at = "child"]
                 h == ListFrame(AfterTrigger[w], 0, Append(f.chain, w))
                 s == Below(t) \o <<g, h>>
      <2>1. f \in GoodFrame /\ f \in Frame /\ IsInjective(f.chain)
            BY <1>1, TopFrame DEF Ready, GoodFrame
      <2>2. f.chain \in Seq(Workflows) /\ w \in Workflows /\ AfterTrigger[w] \in Seq(Nodes)
            BY <1>1, <2>1, GraphAssumption DEF Frame
      <2>3. w \notin Range(f.chain) /\ ~(Len(f.chain) >= NestLimit[f.node])
            BY <1>4 DEF ChildRejected
      <2>4. h \in GoodFrame
            BY <2>1, <2>2, <2>3, LongerChain, NewFrames
      <2>5. Len(f.chain) < NestLimit[f.node]
            <3>1. Len(f.chain) \in Nat /\ NestLimit[f.node] \in Nat
                  BY <1>1, <2>2, LenProperties, GraphAssumption
            <3> QED BY <2>3, <3>1
      <2>6. g \in GoodFrame
            <3>1. g \in Frame /\ g.node = f.node /\ g.chain = f.chain
                  BY <2>1 DEF Frame, Places
            <3> HIDE DEF g
            <3> QED BY <1>1, <2>1, <2>5, <3>1 DEF GoodFrame
      <2>7. /\ stack' = [stack EXCEPT ![t] = s]
            /\ mode' = [mode EXCEPT ![t] = "run"] /\ exc' = exc
            BY <1>4 DEF Continue
      <2> HIDE DEF g, h
      <2>8. s \in Seq(GoodFrame) /\ s # <<>>
            BY <1>1, <2>4, <2>6, TopFrame, PushFrame DEF Below, Ready
      <2>9. exc[t] \in Nodes \cup {NoNode} /\ exc' = [exc EXCEPT ![t] = exc[t]]
            BY <2>7 DEF IInv, TypeOK
      <2> HIDE DEF s
      <2>10. Moves(t)
            BY <2>7, <2>8, <2>9 DEF Moves, Live
      <2> QED BY <1>1, <1>2, <1>4, <2>10, Writes DEF Local
<1> QED BY <1>3, <1>4 DEF ChildStart

\* The innermost frame goes back into its try block.
LEMMA TryFrame ==
    ASSUME NEW f \in GoodFrame, f.node \in Nodes,
           NEW place \in Places \ {"child"}
    PROVE  [f EXCEPT !.at = place] \in GoodFrame
<1> DEFINE g == [f EXCEPT !.at = place]
<1>1. f \in Frame /\ IsInjective(f.chain)
      BY DEF GoodFrame
<1>2. g \in Frame /\ g.at = place /\ g.node = f.node /\ g.chain = f.chain
      BY <1>1 DEF Frame, Places
<1> QED BY <1>1, <1>2, Zenon DEF GoodFrame

LEMMA ChildEndLocal ==
    ASSUME IInv, NEW t \in Tasks, ChildEnd(t)
    PROVE  Local(t)
<1> DEFINE n == Top(t).node
           f == [Top(t) EXCEPT !.at = "try"]
<1>1. Ready(t) /\ n \in Nodes
      BY AtReady DEF ChildEnd, Live
<1>2. UNCHANGED <<lineage, status, errorNode, ran>>
      BY DEF ChildEnd
<1>3. CASE mode[t] = "ret"
      <2>1. Complete(t, AllSuccessors(n)) /\ UNCHANGED faults
            BY <1>3 DEF ChildEnd
      <2> QED BY <1>1, <1>2, <2>1, SuccessorsType, CompleteMoves, Writes DEF Local
<1>4. CASE mode[t] # "ret"
      <2>1. /\ Continue(t, Append(Below(t), f), "raise")
            /\ exc' = [exc EXCEPT ![t] = NoNode]
            /\ faults' = faults \cup {n}
            /\ UNCHANGED <<results, incidents>>
            BY <1>4 DEF ChildEnd
      <2>2. f \in GoodFrame
            BY <1>1, TopFrame, TryFrame DEF Ready, Places
      <2> HIDE DEF f
      <2>3. Append(Below(t), f) \in Seq(GoodFrame)
            BY <1>1, <2>2, TopFrame, ReplaceFrame DEF Below, Ready
      <2>4. Moves(t)
            BY <1>1, <2>1, <2>3, AnonymousMoves
      <2> QED BY <1>1, <1>2, <2>1, <2>4, Writes DEF Local
<1> QED BY <1>3, <1>4

LEMMA BatchStartLocal ==
    ASSUME IInv, NEW t \in Tasks, BatchStart(t)
    PROVE  Local(t)
<1>1. Ready(t) /\ Top(t).node \in Nodes
      BY AtReady DEF BatchStart, Live
<1>2. PICK k \in 0 .. ItemBound : Goto(t, "batch", k)
      BY DEF BatchStart
<1>3. k \in Nat /\ "batch" \in Places \ {"child"}
      BY GraphAssumption DEF Places
<1>4. Moves(t)
      BY <1>1, <1>2, <1>3, GotoMoves
<1> QED BY <1>1, <1>4, Writes DEF Local, BatchStart

LEMMA GatherDoneLocal ==
    ASSUME IInv, NEW t \in Tasks, GatherDone(t)
    PROVE  Local(t)
<1>1. Ready(t) /\ Top(t).node \in Nodes
      BY AtReady DEF GatherDone, Live
<1>2. Successors[Top(t).node]["done"] \in Seq(Nodes)
      BY <1>1, SuccessorsType DEF Handles
<1> QED BY <1>1, <1>2, CompleteMoves, Writes DEF Local, GatherDone

-----------------------------------------------------------------------------
(* Who waits for whom *)

LEMMA LineageType ==
    ASSUME IInv, NEW c \in Tasks
    PROVE  /\ lineage[c] \in Seq(Tasks)
           /\ Len(lineage[c]) \in Nat
           /\ DOMAIN lineage[c] = 1 .. Len(lineage[c])
           /\ lineage[c] # <<>> => Len(lineage[c]) \in Nat \ {0}
           /\ \A i \in 1 .. Len(lineage[c]) : lineage[c][i] \in Tasks
<1>1. lineage[c] \in Seq(Tasks) BY DEF IInv, TypeOK
<1> QED BY <1>1, LenProperties, EmptySeq, ElementOfSeq

\* The coroutines before position i wait for the one at i.
LEMMA PrefixType ==
    ASSUME IInv, NEW c \in Tasks, NEW i \in 1 .. Len(lineage[c])
    PROVE  /\ SubSeq(lineage[c], 1, i - 1) \in Seq(Tasks)
           /\ Len(SubSeq(lineage[c], 1, i - 1)) = i - 1
           /\ \A j \in 1 .. i - 1 : SubSeq(lineage[c], 1, i - 1)[j] = lineage[c][j]
<1> DEFINE s == lineage[c]
<1>1. Len(s) \in Nat /\ \A j \in 1 .. Len(s) : s[j] \in Tasks
      BY LineageType
<1> HIDE DEF s
<1>2. \A j \in 1 .. i - 1 : s[j] \in Tasks
      BY <1>1 DEF s
<1> DEFINE r == SubSeq(s, 1, i - 1)
<1>3. /\ r \in Seq(Tasks)
      /\ Len(r) = IF 1 <= i - 1 THEN (i - 1) - 1 + 1 ELSE 0
      /\ \A j \in 1 .. (i - 1) - 1 + 1 : r[j] = s[1 + j - 1]
      BY <1>2, SubSeqProperties
<1> HIDE DEF r
<1>4. i \in Nat \ {0} BY <1>1 DEF s
<1>5. Len(r) = i - 1
      <2>1. \A n \in Nat \ {0} : (IF 1 <= n - 1 THEN (n - 1) - 1 + 1 ELSE 0) = n - 1
            OBVIOUS
      <2> QED BY <1>3, <1>4, <2>1
<1>6. ASSUME NEW j \in 1 .. i - 1 PROVE r[j] = s[j]
      <2>1. j \in 1 .. (i - 1) - 1 + 1 /\ 1 + j - 1 = j BY <1>4
      <2> QED BY <1>3, <2>1
<1> QED BY <1>3, <1>5, <1>6 DEF r, s

\* Whoever is in a lineage waits, and nobody waits for itself.
LEMMA Ancestors ==
    ASSUME IInv, NEW c \in Tasks, NEW i \in 1 .. Len(lineage[c])
    PROVE  /\ lineage[c][i] \in Tasks
           /\ Waiting(lineage[c][i])
           /\ lineage[lineage[c][i]] = SubSeq(lineage[c], 1, i - 1)
           /\ lineage[c][i] # c
<1>1. /\ Waiting(lineage[c][i])
      /\ lineage[lineage[c][i]] = SubSeq(lineage[c], 1, i - 1)
      BY DEF IInv, Family
<1>2. lineage[c][i] \in Tasks /\ Len(lineage[c]) \in Nat
      BY LineageType
<1>3. Len(SubSeq(lineage[c], 1, i - 1)) = i - 1
      BY PrefixType
<1>4. ASSUME lineage[c][i] = c PROVE FALSE
      <2>1. Len(lineage[c]) = i - 1 BY <1>1, <1>3, <1>4
      <2> QED BY <1>2, <2>1
<1> QED BY <1>1, <1>2, <1>4

\* As long as any other coroutine lives, execute_workflow's own one waits.
LEMMA MainWaits ==
    ASSUME IInv, NEW c \in Tasks, c # Main, mode[c] # "free"
    PROVE  Waiting(Main) /\ 1 \in 1 .. Len(lineage[c]) /\ lineage[c][1] = Main
<1>1. lineage[c] # <<>> BY DEF IInv, Family
<1>2. Len(lineage[c]) \in Nat \ {0} BY <1>1, LineageType
<1>3. 1 \in 1 .. Len(lineage[c]) BY <1>2
<1> DEFINE p == lineage[c][1]
<1>4. p \in Tasks /\ Waiting(p) /\ lineage[p] = SubSeq(lineage[c], 1, 1 - 1)
      BY <1>3, Ancestors
<1>5. lineage[p] = <<>>
      BY <1>4, SubSeqEmpty
<1>6. mode[p] = "run" BY <1>4 DEF Waiting
<1>7. p = Main
      BY <1>4, <1>5, <1>6 DEF IInv, Family
<1> QED BY <1>3, <1>4, <1>7

\* The next one after t in a lineage is a child of t.
LEMMA NoDescendants ==
    ASSUME IInv, NEW t, Ready(t)
    PROVE  \A c \in Tasks : \A i \in 1 .. Len(lineage[c]) : lineage[c][i] # t
<1> SUFFICES ASSUME NEW c \in Tasks, NEW i \in 1 .. Len(lineage[c]), lineage[c][i] = t
             PROVE  FALSE
    OBVIOUS
<1>1. Waiting(t) BY Ancestors
<1>2. Children(t) = {} BY <1>1 DEF Ready
<1>3. Len(lineage[c]) \in Nat BY LineageType
<1>4. CASE i = Len(lineage[c])
      <2>1. lineage[c] # <<>> BY <1>3, <1>4, EmptySeq
      <2>2. Last(lineage[c]) = t BY <1>4 DEF Last
      <2> QED BY <1>2, <2>1, <2>2 DEF Children
<1>5. CASE i # Len(lineage[c])
      <2>1. i + 1 \in 1 .. Len(lineage[c]) /\ i \in 1 .. (i + 1) - 1 /\ (i + 1) - 1 = i
            BY <1>3, <1>5
      <2> DEFINE d == lineage[c][i + 1]
      <2>2. d \in Tasks /\ lineage[d] = SubSeq(lineage[c], 1, (i + 1) - 1)
            BY <2>1, Ancestors
      <2>3. Len(lineage[d]) = i /\ lineage[d][i] = lineage[c][i]
            BY <2>1, <2>2, PrefixType
      <2>4. lineage[d] # <<>> BY <2>1, <2>3, EmptySeq
      <2>5. Last(lineage[d]) = t BY <2>3 DEF Last
      <2> QED BY <1>2, <2>2, <2>4, <2>5 DEF Children
<1> QED BY <1>4, <1>5

\* A step of one coroutine that nobody was started by.
LEMMA LocalKeeps ==
    ASSUME IInv, NEW t, Local(t)
    PROVE  IInv'
<1>1. Ready(t) /\ t \in Tasks /\ mode[t] \in Live BY DEF Local, Ready
<1>2. PICK s \in Seq(GoodFrame), m \in Live, e \in Nodes \cup {NoNode} :
        /\ stack' = [stack EXCEPT ![t] = s]
        /\ mode' = [mode EXCEPT ![t] = m]
        /\ exc' = [exc EXCEPT ![t] = e]
        /\ m = "run" => s # <<>>
        /\ m = "raise" /\ e # NoNode =>
              \/ results' = [results EXCEPT ![e] = "failed"]
              \/ mode[t] = "raise" /\ e = exc[t] /\ results' = results
      BY DEF Local, Moves
<1>3. UNCHANGED <<lineage, status, errorNode>> BY DEF Local
<1>4. Frames' BY <1>2 DEF IInv, Frames
<1>5. TypeOK'
      <2>1. stack' \in [Tasks -> Seq(Frame)]
            <3>1. s \in Seq(Frame)
                  BY SeqMonotonic DEF GoodFrame
            <3> QED BY <1>2, <3>1 DEF IInv, TypeOK
      <2> QED BY <1>2, <1>3, <2>1 DEF IInv, TypeOK, Local, Live
<1>6. Modes'
      BY <1>1, <1>2, <1>3 DEF IInv, TypeOK, Frames, Modes, Live
<1>7. Family'
      <2>1. ASSUME NEW c \in Tasks
            PROVE  lineage'[c] # <<>> <=> c # Main /\ mode'[c] # "free"
            BY <1>1, <1>2, <1>3 DEF IInv, TypeOK, Family, Live
      <2>2. ASSUME NEW c \in Tasks, NEW i \in 1 .. Len(lineage'[c])
            PROVE  /\ Waiting(lineage[c][i])'
                   /\ lineage'[lineage'[c][i]] = SubSeq(lineage'[c], 1, i - 1)
            <3> DEFINE p == lineage[c][i]
            <3>1. p \in Tasks /\ Waiting(p) /\ lineage[p] = SubSeq(lineage[c], 1, i - 1)
                  BY <1>3, <2>2, Ancestors
            <3>2. p # t BY <1>1, <1>3, <2>2, NoDescendants
            <3>3. stack'[p] = stack[p] /\ mode'[p] = mode[p] /\ lineage' = lineage
                  BY <1>2, <1>3, <3>1, <3>2 DEF IInv, TypeOK
            <3> QED BY <3>1, <3>3 DEF Waiting, Top
      <2> QED BY <2>1, <2>2 DEF Family
<1>8. Recorded'
      <2>1. status' \in {"new", "running"} => errorNode' = NoNode
            BY <1>3 DEF IInv, Recorded
      <2>2. CASE t = Main
            <3>1. status = "running" BY <1>1, <2>2 DEF IInv, Modes
            <3>2. ErrorNodeRecorded'
                  BY <1>3, <3>1 DEF IInv, Recorded, ErrorNodeRecorded
            <3>3. mode'[Main] = m /\ exc'[Main] = e
                  BY <1>1, <1>2, <2>2 DEF IInv, TypeOK
            <3>4. m = "raise" /\ e # NoNode => results'[e] = "failed"
                  BY <1>2, <2>2 DEF IInv, TypeOK, Recorded
            <3> QED BY <2>1, <3>2, <3>3, <3>4 DEF Recorded
      <2>3. CASE t # Main
            <3>1. mode[Main] = "run"
                  BY <1>1, <2>3, MainWaits DEF Waiting, Live
            <3>2. mode'[Main] = "run"
                  BY <1>2, <2>3, <3>1, GraphAssumption DEF IInv, TypeOK
            <3>3. status = "running"
                  BY <3>1 DEF IInv, Modes, Live
            <3>4. ErrorNodeRecorded'
                  BY <1>3, <3>3 DEF IInv, Recorded, ErrorNodeRecorded
            <3> QED BY <2>1, <3>2, <3>4 DEF Recorded
      <2> QED BY <2>2, <2>3
<1> QED BY <1>4, <1>5, <1>6, <1>7, <1>8 DEF IInv

-----------------------------------------------------------------------------
(* Coroutines that start *)

\* A step of the execution, not of its end.
LEMMA RecordedKept ==
    ASSUME IInv, UNCHANGED <<status, errorNode, results>>,
           \/ mode'[Main] = mode[Main] /\ exc'[Main] = exc[Main]
           \/ mode'[Main] = "raise" /\ exc'[Main] = NoNode
           \/ mode'[Main] = "run"
    PROVE  Recorded'
BY DEF IInv, Recorded, ErrorNodeRecorded

\* A lineage that is one longer has the old one as its prefixes.
LEMMA LongerLineage ==
    ASSUME IInv, NEW t \in Tasks
    PROVE  LET r == Append(lineage[t], t)
               k == Len(lineage[t])
           IN  /\ r \in Seq(Tasks) /\ r # <<>> /\ Len(r) = k + 1 /\ k \in Nat
               /\ \A i \in 1 .. k : r[i] = lineage[t][i]
               /\ r[k + 1] = t
               /\ \A i \in 1 .. k : SubSeq(r, 1, i - 1) = SubSeq(lineage[t], 1, i - 1)
               /\ SubSeq(r, 1, k) = lineage[t]
<1> DEFINE r == Append(lineage[t], t)
           k == Len(lineage[t])
<1>1. /\ lineage[t] \in Seq(Tasks) /\ k \in Nat
      BY LineageType
<1>2. /\ r \in Seq(Tasks) /\ r # <<>> /\ Len(r) = k + 1
      /\ \A i \in 1 .. k : r[i] = lineage[t][i]
      /\ r[k + 1] = t
      BY <1>1, AppendProperties
<1>3. ASSUME NEW n \in 0 .. k
      PROVE  SubSeq(r, 1, n) = SubSeq(lineage[t], 1, n)
      <2>1. \A i \in 1 .. n : r[i] = lineage[t][i] /\ lineage[t][i] \in Tasks
            BY <1>1, <1>2, LineageType
      <2> HIDE DEF r
      <2>2. /\ SubSeq(r, 1, n) \in Seq(Tasks)
            /\ Len(SubSeq(r, 1, n)) = IF 1 <= n THEN n - 1 + 1 ELSE 0
            /\ \A i \in 1 .. n - 1 + 1 : SubSeq(r, 1, n)[i] = r[1 + i - 1]
            BY <2>1, SubSeqProperties
      <2>3. /\ SubSeq(lineage[t], 1, n) \in Seq(Tasks)
            /\ Len(SubSeq(lineage[t], 1, n)) = IF 1 <= n THEN n - 1 + 1 ELSE 0
            /\ \A i \in 1 .. n - 1 + 1 : SubSeq(lineage[t], 1, n)[i] = lineage[t][1 + i - 1]
            BY <2>1, SubSeqProperties
      <2>4. n \in Nat /\ (IF 1 <= n THEN n - 1 + 1 ELSE 0) = n
            BY <1>1
      <2>5. \A i \in 1 .. n : i \in 1 .. n - 1 + 1 /\ 1 + i - 1 = i
            BY <2>4
      <2>6. /\ Len(SubSeq(r, 1, n)) = n /\ Len(SubSeq(lineage[t], 1, n)) = n
            /\ \A i \in 1 .. n : SubSeq(r, 1, n)[i] = SubSeq(lineage[t], 1, n)[i]
            BY <2>1, <2>2, <2>3, <2>4, <2>5
      <2> QED BY <2>2, <2>3, <2>6, SeqEqual
<1>4. \A i \in 1 .. k : SubSeq(r, 1, i - 1) = SubSeq(lineage[t], 1, i - 1)
      <2> TAKE i \in 1 .. k
      <2>1. i - 1 \in 0 .. k BY <1>1
      <2> QED BY <1>3, <2>1
<1>5. SubSeq(r, 1, k) = lineage[t]
      <2>1. k \in 0 .. k BY <1>1
      <2>2. SubSeq(lineage[t], 1, k) = lineage[t] BY <1>1, SubSeqFull
      <2> QED BY <1>3, <2>1, <2>2
<1> QED BY <1>1, <1>2, <1>4, <1>5

LEMMA SpawnKeeps ==
    ASSUME IInv, NEW t \in Tasks, mode[t] = "run", stack[t] # <<>>,
           NEW waiting \in GoodFrame, waiting.at \in {"join", "batch"},
           NEW k \in Nat, NEW ids \in [1 .. k -> Free],
           NEW frames, \A i \in 1 .. k : frames[i] \in GoodFrame,
           NEW m \in {"run", "raise"}, Spawn(t, waiting, ids, frames, m),
           UNCHANGED <<exc, status, errorNode, results, ran, faults>>,
           incidents' \subseteq {"depth", "timeout"}
    PROVE  IInv'
<1> DEFINE started == Range(ids)
           Index(c) == CHOOSE i \in DOMAIN ids : ids[i] = c
           top == Append(Below(t), waiting)
           line == Append(lineage[t], t)
<1>1. /\ stack' = [c \in Tasks |-> IF c = t THEN top
                                   ELSE IF c \in started THEN <<frames[Index(c)]>>
                                   ELSE stack[c]]
      /\ mode' = [c \in Tasks |-> IF c \in started THEN m ELSE mode[c]]
      /\ lineage' = [c \in Tasks |-> IF c \in started THEN line ELSE lineage[c]]
      BY DEF Spawn
<1>2. /\ started \subseteq Free
      /\ \A c \in started : Index(c) \in 1 .. k
      <2>1. DOMAIN ids = 1 .. k OBVIOUS
      <2> QED BY <2>1 DEF Range
<1>3. /\ started \subseteq Tasks /\ t \notin started /\ Main \notin started
      /\ \A c \in started : mode[c] = "free"
      BY <1>2 DEF Free
<1>4. top \in Seq(GoodFrame) /\ top # <<>> /\ Last(top) = waiting
      BY TopFrame, ReplaceFrame DEF Below
<1>5. \A c \in started : <<frames[Index(c)]>> \in Seq(GoodFrame) /\ <<frames[Index(c)]>> # <<>>
      BY <1>2
<1>6. /\ line \in Seq(Tasks) /\ line # <<>> /\ Len(line) = Len(lineage[t]) + 1
      /\ Len(lineage[t]) \in Nat
      /\ \A i \in 1 .. Len(lineage[t]) :
            line[i] = lineage[t][i] /\ SubSeq(line, 1, i - 1) = SubSeq(lineage[t], 1, i - 1)
      /\ line[Len(lineage[t]) + 1] = t
      /\ SubSeq(line, 1, Len(lineage[t])) = lineage[t]
      BY LongerLineage
<1> HIDE DEF started, Index, top, line
<1>7. Frames'
      BY <1>1, <1>4, <1>5 DEF IInv, Frames
<1>8. TypeOK'
      <2>1. stack' \in [Tasks -> Seq(Frame)]
            <3>1. ASSUME NEW c \in Tasks PROVE stack'[c] \in Seq(Frame)
                  <4>1. stack'[c] \in Seq(GoodFrame) BY <1>7 DEF Frames
                  <4> QED BY <4>1, SeqMonotonic DEF GoodFrame
            <3> QED BY <1>1, <3>1
      <2>2. mode' \in [Tasks -> {"free", "run", "ret", "raise", "done", "broken"}]
            BY <1>1 DEF IInv, TypeOK
      <2>3. lineage' \in [Tasks -> Seq(Tasks)]
            BY <1>1, <1>6 DEF IInv, TypeOK
      <2> QED BY <2>1, <2>2, <2>3 DEF IInv, TypeOK
<1>9. Modes'
      BY <1>1, <1>3, <1>4, <1>5, GraphAssumption DEF IInv, Modes
<1>10. ASSUME NEW p \in Tasks, Waiting(p) \/ p = t
       PROVE  /\ mode'[p] = "run" /\ stack'[p] # <<>>
              /\ Last(stack'[p]).at \in {"join", "batch"}
              /\ lineage'[p] = lineage[p]
      <2>1. mode[p] = "run" BY <1>10 DEF Waiting
      <2>2. p \notin started BY <1>3, <2>1
      <2>3. mode'[p] = "run" /\ lineage'[p] = lineage[p]
            BY <1>1, <2>1, <2>2
      <2>4. CASE p = t
            <3>1. stack'[p] = top BY <1>1, <2>4
            <3> QED BY <1>4, <2>3, <3>1 DEF Waiting, Top
      <2>5. CASE p # t
            <3>1. stack'[p] = stack[p] BY <1>1, <2>2, <2>5
            <3> QED BY <1>10, <2>3, <2>5, <3>1 DEF Waiting, Top
      <2> QED BY <2>4, <2>5
<1>11. Family'
      <2>1. ASSUME NEW c \in Tasks
            PROVE  lineage'[c] # <<>> <=> c # Main /\ mode'[c] # "free"
            <3>1. CASE c \in started BY <1>1, <1>3, <1>6, <3>1
            <3>2. CASE c \notin started BY <1>1, <3>2 DEF IInv, Family
            <3> QED BY <3>1, <3>2
      <2>2. ASSUME NEW c \in Tasks, NEW i \in 1 .. Len(lineage'[c])
            PROVE  /\ Waiting(lineage[c][i])'
                   /\ lineage'[lineage'[c][i]] = SubSeq(lineage'[c], 1, i - 1)
            <3>1. CASE c \notin started
                  <4>1. lineage'[c] = lineage[c] BY <1>1, <3>1
                  <4> DEFINE p == lineage[c][i]
                  <4>2. p \in Tasks /\ Waiting(p) /\ lineage[p] = SubSeq(lineage[c], 1, i - 1)
                        BY <2>2, <4>1, Ancestors
                  <4>3. /\ mode'[p] = "run" /\ stack'[p] # <<>>
                        /\ Last(stack'[p]).at \in {"join", "batch"}
                        /\ lineage'[p] = lineage[p]
                        BY <1>10, <4>2
                  <4> QED BY <4>1, <4>2, <4>3 DEF Waiting, Top
            <3>2. CASE c \in started
                  <4>1. lineage'[c] = line BY <1>1, <3>2
                  <4>2. CASE i \in 1 .. Len(lineage[t])
                        <5> DEFINE p == lineage[t][i]
                        <5>1. p \in Tasks /\ Waiting(p)
                              /\ lineage[p] = SubSeq(lineage[t], 1, i - 1)
                              BY <4>2, Ancestors
                        <5>2. /\ mode'[p] = "run" /\ stack'[p] # <<>>
                              /\ Last(stack'[p]).at \in {"join", "batch"}
                              /\ lineage'[p] = lineage[p]
                              BY <1>10, <5>1
                        <5>3. lineage'[c][i] = p /\ SubSeq(lineage'[c], 1, i - 1) = lineage[p]
                              BY <1>6, <4>1, <4>2, <5>1
                        <5> QED BY <5>2, <5>3 DEF Waiting, Top
                  <4>3. CASE i = Len(lineage[t]) + 1
                        <5>1. i - 1 = Len(lineage[t]) BY <1>6, <4>3
                        <5>2. lineage'[c][i] = t /\ SubSeq(lineage'[c], 1, i - 1) = lineage[t]
                              BY <1>6, <4>1, <4>3, <5>1
                        <5>3. /\ mode'[t] = "run" /\ stack'[t] # <<>>
                              /\ Last(stack'[t]).at \in {"join", "batch"}
                              /\ lineage'[t] = lineage[t]
                              BY <1>10
                        <5> QED BY <5>2, <5>3 DEF Waiting, Top
                  <4>4. i \in 1 .. Len(lineage[t]) \/ i = Len(lineage[t]) + 1
                        BY <1>6, <2>2, <4>1
                  <4> QED BY <4>2, <4>3, <4>4
            <3> QED BY <3>1, <3>2
      <2> QED BY <2>1, <2>2 DEF Family
<1>12. Recorded'
      <2>1. mode'[Main] = mode[Main]
            BY <1>1, <1>3, GraphAssumption
      <2> QED BY <2>1, RecordedKept
<1> QED BY <1>7, <1>8, <1>9, <1>11, <1>12 DEF IInv

\* The coroutines that Fresh gives to a parallel section or an item are free.
LEMMA FreshType ==
    ASSUME NEW k \in Nat, Available(k) # {}
    PROVE  Fresh(k) \in [1 .. k -> Free]
BY DEF Fresh, Available

LEMMA ParallelStartKeeps ==
    ASSUME IInv, NEW t \in Tasks, ParallelStart(t)
    PROVE  IInv'
<1> DEFINE f == Top(t)
           branches == Successors[f.node]["branch"]
           ids == Fresh(Len(branches))
           frames == [i \in DOMAIN branches |-> NodeFrame(branches[i], f.depth + 1, f.chain)]
<1>1. stack[t] # <<>> /\ f.at = "try" /\ mode[t] = "run"
      BY DEF ParallelStart, At
<1>2. f \in GoodFrame /\ f \in Frame /\ f.node \in Nodes
      BY <1>1, TopFrame
<1>3. /\ branches \in Seq(Nodes) /\ Len(branches) \in Nat
      /\ DOMAIN branches = 1 .. Len(branches)
      /\ \A i \in 1 .. Len(branches) : branches[i] \in Nodes
      <2>1. branches \in Seq(Nodes) BY <1>2, SuccessorsType DEF Handles
      <2> QED BY <2>1, LenProperties, ElementOfSeq
<1>4. \A i \in 1 .. Len(branches) : frames[i] \in GoodFrame
      <2>1. f.depth + 1 \in Nat /\ f.chain \in Seq(Workflows) /\ IsInjective(f.chain)
            BY <1>2 DEF Frame, GoodFrame
      <2> QED BY <1>3, <2>1, NewFrames
<1>5. ids \in [1 .. Len(branches) -> Free]
      BY <1>3, FreshType DEF ParallelStart
<1>6. [f EXCEPT !.at = "join"] \in GoodFrame /\ [f EXCEPT !.at = "join"].at = "join"
      <2>1. [f EXCEPT !.at = "join"] \in GoodFrame
            BY <1>2, TryFrame DEF Places
      <2> QED BY <1>2, <2>1 DEF Frame
<1>7. /\ Spawn(t, [f EXCEPT !.at = "join"], ids, frames, "run")
      /\ UNCHANGED <<exc, status, errorNode, results, ran, faults, incidents>>
      BY DEF ParallelStart
<1>8. incidents' \subseteq {"depth", "timeout"}
      BY <1>7 DEF IInv, TypeOK
<1> HIDE DEF ids, frames, f, branches
<1> QED BY <1>1, <1>3, <1>4, <1>5, <1>6, <1>7, <1>8, SpawnKeeps

LEMMA BatchItemKeeps ==
    ASSUME IInv, NEW t \in Tasks, BatchItem(t)
    PROVE  IInv'
<1> DEFINE f == Top(t)
           body == Successors[f.node]["body"]
           tooDeep == body # <<>> /\ f.depth + 1 > MaxDepth
           w == [f EXCEPT !.num = @ - 1]
           g == ListFrame(body, f.depth + 1, f.chain)
           m == IF tooDeep THEN "raise" ELSE "run"
<1>1. stack[t] # <<>> /\ f.at = "batch" /\ mode[t] = "run" /\ f.num > 0
      BY DEF BatchItem, At
<1>2. f \in GoodFrame /\ f \in Frame /\ f.node \in Nodes
      BY <1>1, TopFrame
<1>3. w \in GoodFrame /\ w.at = "batch"
      <2>1. f.num - 1 \in Nat BY <1>1, <1>2 DEF Frame
      <2>2. w \in Frame /\ w.at = f.at /\ w.node = f.node /\ w.chain = f.chain
            BY <1>2, <2>1 DEF Frame
      <2>3. IsInjective(w.chain) BY <1>2, <2>2 DEF GoodFrame
      <2> HIDE DEF w
      <2> QED BY <1>1, <1>2, <2>2, <2>3 DEF GoodFrame
<1>4. g \in GoodFrame
      <2>1. f.depth + 1 \in Nat /\ f.chain \in Seq(Workflows) /\ IsInjective(f.chain)
            BY <1>2 DEF Frame, GoodFrame
      <2>2. body \in Seq(Nodes) BY <1>2, SuccessorsType DEF Handles
      <2> QED BY <2>1, <2>2, NewFrames
<1>5. Fresh(1) \in [1 .. 1 -> Free]
      BY FreshType DEF BatchItem
<1>6. /\ Spawn(t, w, Fresh(1), <<g>>, m)
      /\ UNCHANGED <<exc, status, errorNode, results, ran, faults>>
      /\ incidents' = IF tooDeep THEN incidents \cup {"depth"} ELSE incidents
      BY DEF BatchItem
<1>7. incidents' \subseteq {"depth", "timeout"}
      BY <1>6 DEF IInv, TypeOK
<1>8. m \in {"run", "raise"} OBVIOUS
<1> HIDE DEF w, g, m
<1>9. \A i \in 1 .. 1 : <<g>>[i] \in GoodFrame
      BY <1>4
<1> QED BY <1>1, <1>3, <1>5, <1>6, <1>7, <1>8, <1>9, SpawnKeeps

-----------------------------------------------------------------------------
(* Coroutines that end *)

\* The coroutines that are reaped leave nobody behind: neither somebody they
\* waited for nor, unless t keeps waiting, somebody t waited for.
LEMMA ReapFamily ==
    ASSUME IInv, NEW t \in Tasks, mode[t] # "free",
           NEW ended \in SUBSET (Tasks \ {t, Main}), NEW s \in Seq(GoodFrame),
           NEW m \in Live \cup {"done"}, m = "run" => s # <<>>, Reap(t, ended, s, m),
           \A c \in Tasks \ ended : \A i \in 1 .. Len(lineage[c]) :
              lineage[c][i] \notin ended,
           \/ Waiting(t)'
           \/ \A c \in Tasks \ ended : \A i \in 1 .. Len(lineage[c]) : lineage[c][i] # t
    PROVE  /\ stack' \in [Tasks -> Seq(Frame)]
           /\ mode' \in [Tasks -> {"free", "run", "ret", "raise", "done", "broken"}]
           /\ lineage' \in [Tasks -> Seq(Tasks)]
           /\ Frames' /\ Family'
           /\ \A c \in Tasks : mode'[c] = "run" => stack'[c] # <<>>
           /\ mode'[t] = m
           /\ t # Main => mode'[Main] = mode[Main]
<1>1. /\ stack' = [c \in Tasks |-> IF c = t THEN s ELSE IF c \in ended THEN <<>> ELSE stack[c]]
      /\ mode' = [c \in Tasks |-> IF c = t THEN m ELSE IF c \in ended THEN "free" ELSE mode[c]]
      /\ lineage' = [c \in Tasks |-> IF c \in ended THEN <<>> ELSE lineage[c]]
      BY DEF Reap
<1>2. <<>> \in Seq(GoodFrame) /\ <<>> \in Seq(Tasks) BY EmptySeq
<1>3. Frames' BY <1>1, <1>2 DEF IInv, Frames
<1>4. stack' \in [Tasks -> Seq(Frame)]
      <2>1. ASSUME NEW c \in Tasks PROVE stack'[c] \in Seq(Frame)
            <3>1. stack'[c] \in Seq(GoodFrame) BY <1>3 DEF Frames
            <3> QED BY <3>1, SeqMonotonic DEF GoodFrame
      <2> QED BY <1>1, <2>1
<1>5. mode' \in [Tasks -> {"free", "run", "ret", "raise", "done", "broken"}]
      BY <1>1 DEF IInv, TypeOK, Live
<1>6. lineage' \in [Tasks -> Seq(Tasks)]
      BY <1>1, <1>2 DEF IInv, TypeOK
<1>7. \A c \in Tasks : mode'[c] = "run" => stack'[c] # <<>>
      BY <1>1 DEF IInv, Modes
<1>8. Family'
      <2>1. ASSUME NEW c \in Tasks
            PROVE  lineage'[c] # <<>> <=> c # Main /\ mode'[c] # "free"
            <3>1. CASE c \in ended BY <1>1, <3>1
            <3>2. CASE c \notin ended /\ c # t BY <1>1, <3>2 DEF IInv, Family
            <3>3. CASE c = t BY <1>1, <3>3 DEF IInv, Family, Live
            <3> QED BY <3>1, <3>2, <3>3
      <2>2. ASSUME NEW c \in Tasks, NEW i \in 1 .. Len(lineage'[c])
            PROVE  /\ Waiting(lineage[c][i])'
                   /\ lineage'[lineage'[c][i]] = SubSeq(lineage'[c], 1, i - 1)
            <3>1. c \notin ended
                  <4>1. ASSUME c \in ended PROVE FALSE
                        <5>1. Len(lineage'[c]) = 0 BY <1>1, <4>1, EmptySeq
                        <5> QED BY <2>2, <5>1
                  <4> QED BY <4>1
            <3>2. lineage'[c] = lineage[c] BY <1>1, <3>1
            <3> DEFINE p == lineage[c][i]
            <3>3. p \in Tasks /\ Waiting(p) /\ lineage[p] = SubSeq(lineage[c], 1, i - 1)
                  BY <2>2, <3>2, Ancestors
            <3>4. p \notin ended /\ (p = t => Waiting(t)')
                  BY <2>2, <3>1, <3>2
            <3>5. lineage'[p] = lineage[p] BY <1>1, <3>3, <3>4
            <3>6. /\ mode'[p] = "run" /\ stack'[p] # <<>>
                  /\ Last(stack'[p]).at \in {"join", "batch"}
                  <4>1. CASE p = t
                        BY <3>4, <4>1 DEF Waiting, Top
                  <4>2. CASE p # t
                        <5>1. mode'[p] = mode[p] /\ stack'[p] = stack[p]
                              BY <1>1, <3>3, <3>4, <4>2
                        <5> QED BY <3>3, <5>1 DEF Waiting, Top
                  <4> QED BY <4>1, <4>2
            <3> QED BY <3>2, <3>3, <3>5, <3>6 DEF Waiting, Top
      <2> QED BY <2>1, <2>2 DEF Family
<1>9. mode'[t] = m /\ (t # Main => mode'[Main] = mode[Main])
      BY <1>1, GraphAssumption
<1> QED BY <1>3, <1>4, <1>5, <1>6, <1>7, <1>8, <1>9

\* A timeout reaps everybody who has t in its lineage.
LEMMA ReapDescendants ==
    ASSUME IInv, NEW t \in Tasks
    PROVE  /\ Descendants(t) \in SUBSET (Tasks \ {t, Main})
           /\ \A c \in Tasks \ Descendants(t) : \A i \in 1 .. Len(lineage[c]) :
                 lineage[c][i] \notin Descendants(t) /\ lineage[c][i] # t
<1>1. ASSUME NEW c \in Tasks
      PROVE  c \in Descendants(t) <=> \E i \in 1 .. Len(lineage[c]) : lineage[c][i] = t
      BY LineageType DEF Descendants, Range
<1>2. t \notin Descendants(t)
      BY <1>1, Ancestors
<1>3. Main \notin Descendants(t)
      <2>1. Main \in Tasks /\ lineage[Main] = <<>>
            BY GraphAssumption DEF IInv, Family
      <2>2. Len(lineage[Main]) = 0 BY <2>1, EmptySeq
      <2> QED BY <1>1, <2>1, <2>2
<1>4. ASSUME NEW c \in Tasks \ Descendants(t), NEW i \in 1 .. Len(lineage[c])
      PROVE  lineage[c][i] \notin Descendants(t) /\ lineage[c][i] # t
      <2> DEFINE p == lineage[c][i]
      <2>1. p \in Tasks /\ lineage[p] = SubSeq(lineage[c], 1, i - 1)
            BY Ancestors
      <2>2. p # t BY <1>1, <1>4
      <2>3. ASSUME p \in Descendants(t) PROVE FALSE
            <3>1. PICK j \in 1 .. Len(lineage[p]) : lineage[p][j] = t
                  BY <1>1, <2>1, <2>3
            <3>2. Len(lineage[p]) = i - 1 /\ \A h \in 1 .. i - 1 : lineage[p][h] = lineage[c][h]
                  BY <2>1, PrefixType
            <3>3. lineage[c][j] = t BY <3>1, <3>2
            <3>4. j \in 1 .. Len(lineage[c]) BY <3>1, <3>2, LineageType
            <3> QED BY <1>1, <3>3, <3>4
      <2> QED BY <2>2, <2>3
<1> QED BY <1>2, <1>3, <1>4 DEF Descendants

LEMMA ReapAll ==
    ASSUME IInv, NEW t \in Tasks, mode[t] # "free", NEW s \in Seq(GoodFrame),
           NEW m \in {"raise", "done"}, Reap(t, Descendants(t), s, m)
    PROVE  /\ stack' \in [Tasks -> Seq(Frame)]
           /\ mode' \in [Tasks -> {"free", "run", "ret", "raise", "done", "broken"}]
           /\ lineage' \in [Tasks -> Seq(Tasks)]
           /\ Frames' /\ Family'
           /\ \A c \in Tasks : mode'[c] = "run" => stack'[c] # <<>>
           /\ mode'[t] = m
           /\ t # Main => mode'[Main] = mode[Main]
<1>0. PICK D : D = Descendants(t) OBVIOUS
<1>1. /\ D \in SUBSET (Tasks \ {t, Main})
      /\ \A c \in Tasks \ D : \A i \in 1 .. Len(lineage[c]) :
            lineage[c][i] \notin D /\ lineage[c][i] # t
      BY <1>0, ReapDescendants
<1>2. m \in Live \cup {"done"} /\ (m = "run" => s # <<>>)
      BY DEF Live
<1>3. Reap(t, D, s, m) BY <1>0
<1>4. \A c \in Tasks \ D : \A i \in 1 .. Len(lineage[c]) : lineage[c][i] \notin D
      BY <1>1
<1>5. \A c \in Tasks \ D : \A i \in 1 .. Len(lineage[c]) : lineage[c][i] # t
      BY <1>1
<1>6. D \in SUBSET (Tasks \ {t, Main})
      BY <1>1
<1> QED BY <1>2, <1>3, <1>4, <1>5, <1>6, ReapFamily

\* Joining branches or collecting an item: t keeps waiting.
LEMMA CollectKeeps ==
    ASSUME IInv, NEW t \in Tasks, Waiting(t),
           NEW ended \in SUBSET Children(t), \A c \in ended : Ended(c),
           NEW f \in GoodFrame, f.at = "batch",
           Reap(t, ended, Append(Below(t), f), "run"),
           UNCHANGED <<exc, status, errorNode, results, ran, faults, incidents>>
    PROVE  IInv'
<1> DEFINE s == Append(Below(t), f)
<1>1. mode[t] = "run" /\ stack[t] # <<>> BY DEF Waiting
<1>2. s \in Seq(GoodFrame) /\ s # <<>> /\ Last(s) = f
      BY <1>1, TopFrame, ReplaceFrame DEF Below
<1>3. ended \in SUBSET (Tasks \ {t, Main})
      <2>1. \A c \in ended : c \in Tasks /\ lineage[c] # <<>> /\ mode[c] # "run"
            BY DEF Children, Ended
      <2>2. \A c \in ended : c # Main
            BY <2>1 DEF IInv, Family
      <2> QED BY <1>1, <2>1, <2>2
<1>4. ASSUME NEW c \in Tasks \ ended, NEW i \in 1 .. Len(lineage[c])
      PROVE  lineage[c][i] \notin ended
      <2>1. mode[lineage[c][i]] = "run" BY Ancestors DEF Waiting
      <2> QED BY <2>1 DEF Ended
<1>5. Reap(t, ended, s, "run") OBVIOUS
<1> HIDE DEF s
<1>11. Waiting(t)'
      <2>1. stack'[t] = s /\ mode'[t] = "run" BY <1>5 DEF Reap
      <2> QED BY <1>2, <2>1 DEF Waiting, Top
<1>6. /\ stack' \in [Tasks -> Seq(Frame)]
      /\ mode' \in [Tasks -> {"free", "run", "ret", "raise", "done", "broken"}]
      /\ lineage' \in [Tasks -> Seq(Tasks)]
      /\ Frames' /\ Family'
      /\ \A c \in Tasks : mode'[c] = "run" => stack'[c] # <<>>
      /\ mode'[t] = "run"
      /\ t # Main => mode'[Main] = mode[Main]
      BY <1>1, <1>2, <1>3, <1>4, <1>5, <1>11, ReapFamily DEF Live
<1>7. TypeOK' BY <1>6 DEF IInv, TypeOK
<1>8. mode'[Main] = mode[Main]
      BY <1>1, <1>6
<1>9. Modes' BY <1>6, <1>8 DEF IInv, Modes
<1>10. Recorded' BY <1>8, RecordedKept
<1> QED BY <1>6, <1>7, <1>9, <1>10 DEF IInv

LEMMA JoinKeeps ==
    ASSUME IInv, NEW t \in Tasks, Join(t)
    PROVE  IInv'
<1> DEFINE f == [Top(t) EXCEPT !.at = "batch", !.num = 0]
<1>1. stack[t] # <<>> /\ Top(t).at = "join" /\ mode[t] = "run"
      BY DEF Join, At
<1>2. Top(t) \in GoodFrame /\ Top(t) \in Frame /\ Top(t).node \in Nodes
      BY <1>1, TopFrame
<1>3. f \in GoodFrame BY <1>2, MovedFrame DEF Places
<1>4. f.at = "batch" BY <1>2 DEF Frame
<1>5. Waiting(t) BY <1>1 DEF Waiting
<1>6. /\ Reap(t, Children(t), Append(Below(t), f), "run")
      /\ UNCHANGED <<exc, status, errorNode, results, ran, faults, incidents>>
      /\ \A c \in Children(t) : Ended(c)
      BY DEF Join
<1> HIDE DEF f
<1> QED BY <1>3, <1>4, <1>5, <1>6, CollectKeeps

LEMMA BatchItemEndKeeps ==
    ASSUME IInv, NEW t \in Tasks, NEW c \in Tasks, BatchItemEnd(t, c)
    PROVE  IInv'
<1> DEFINE left == IF ItemError[Top(t).node] = "stop" /\ mode[c] = "broken"
                   THEN 0 ELSE Top(t).num
           f == [Top(t) EXCEPT !.num = left]
<1>1. stack[t] # <<>> /\ Top(t).at = "batch" /\ mode[t] = "run"
      BY DEF BatchItemEnd, At
<1>2. Top(t) \in GoodFrame /\ Top(t) \in Frame /\ Top(t).node \in Nodes
      BY <1>1, TopFrame
<1>3. f \in GoodFrame /\ f.at = "batch"
      <2>1. left \in Nat BY <1>2 DEF Frame
      <2> HIDE DEF left
      <2>2. /\ f \in Frame /\ f.at = Top(t).at /\ f.node = Top(t).node
            /\ f.chain = Top(t).chain
            BY <1>2, <2>1 DEF Frame
      <2>3. IsInjective(f.chain) BY <1>2, <2>2 DEF GoodFrame
      <2> HIDE DEF f
      <2> QED BY <1>1, <1>2, <2>2, <2>3 DEF GoodFrame
<1>4. Waiting(t) BY <1>1 DEF Waiting
<1>5. /\ Reap(t, {c}, Append(Below(t), f), "run")
      /\ UNCHANGED <<exc, status, errorNode, results, ran, faults, incidents>>
      /\ c \in Children(t) /\ Ended(c)
      BY DEF BatchItemEnd
<1> HIDE DEF f
<1> QED BY <1>3, <1>4, <1>5, CollectKeeps

\* A timeout inside the execution: t goes on with an exception in its try block.
LEMMA CancelKeeps ==
    ASSUME IInv, NEW t \in Tasks, mode[t] \in Live, NEW s \in Seq(GoodFrame),
           NEW n \in Nodes, Reap(t, Descendants(t), s, "raise"),
           exc' = [exc EXCEPT ![t] = NoNode], faults' = faults \cup {n},
           UNCHANGED <<status, errorNode, results, ran, incidents>>
    PROVE  IInv'
<1>1. /\ stack' \in [Tasks -> Seq(Frame)]
      /\ mode' \in [Tasks -> {"free", "run", "ret", "raise", "done", "broken"}]
      /\ lineage' \in [Tasks -> Seq(Tasks)]
      /\ Frames' /\ Family'
      /\ \A c \in Tasks : mode'[c] = "run" => stack'[c] # <<>>
      /\ mode'[t] = "raise"
      /\ t # Main => mode'[Main] = mode[Main]
      <2>1. mode[t] # "free" BY DEF Live
      <2> QED BY <2>1, ReapAll
<1>2. TypeOK' BY <1>1 DEF IInv, TypeOK
<1>3. Modes'
      BY <1>1 DEF IInv, Modes, Live
<1>4. Recorded'
      <2>1. CASE t = Main
            <3>1. exc'[Main] = NoNode BY <2>1 DEF IInv, TypeOK
            <3> QED BY <1>1, <2>1, <3>1, RecordedKept
      <2>2. CASE t # Main
            <3>1. exc'[Main] = exc[Main] BY <2>2, GraphAssumption DEF IInv, TypeOK
            <3> QED BY <1>1, <2>2, <3>1, RecordedKept
      <2> QED BY <2>1, <2>2
<1> QED BY <1>1, <1>2, <1>3, <1>4 DEF IInv

LEMMA JoinTimeoutKeeps ==
    ASSUME IInv, NEW t \in Tasks, JoinTimeout(t)
    PROVE  IInv'
<1> DEFINE f == [Top(t) EXCEPT !.at = "try"]
<1>1. stack[t] # <<>> /\ Top(t).at = "join" /\ mode[t] \in Live
      BY DEF JoinTimeout, At, Live
<1>2. Top(t) \in GoodFrame /\ Top(t).node \in Nodes
      BY <1>1, TopFrame
<1>3. f \in GoodFrame BY <1>2, TryFrame DEF Places
<1>4. /\ Reap(t, Descendants(t), Append(Below(t), f), "raise")
      /\ exc' = [exc EXCEPT ![t] = NoNode] /\ faults' = faults \cup {Top(t).node}
      /\ UNCHANGED <<status, errorNode, results, ran, incidents>>
      BY DEF JoinTimeout
<1> HIDE DEF f
<1>5. Append(Below(t), f) \in Seq(GoodFrame)
      BY <1>1, <1>3, TopFrame, ReplaceFrame DEF Below
<1> QED BY <1>1, <1>2, <1>4, <1>5, CancelKeeps

LEMMA ChildTimeoutKeeps ==
    ASSUME IInv, NEW t \in Tasks, ChildTimeout(t)
    PROVE  IInv'
<1>1. PICK i \in DOMAIN stack[t] :
        /\ stack[t][i].at = "child"
        /\ mode[t] \in {"run", "ret", "raise"}
        /\ Reap(t, Descendants(t),
                SubSeq(stack[t], 1, i - 1) \o <<[stack[t][i] EXCEPT !.at = "try"]>>, "raise")
        /\ exc' = [exc EXCEPT ![t] = NoNode]
        /\ faults' = faults \cup {stack[t][i].node}
        /\ UNCHANGED <<status, errorNode, results, ran, incidents>>
      BY DEF ChildTimeout
<1> DEFINE f == [stack[t][i] EXCEPT !.at = "try"]
           a == SubSeq(stack[t], 1, i - 1)
<1>2. /\ stack[t] \in Seq(GoodFrame) /\ DOMAIN stack[t] = 1 .. Len(stack[t])
      /\ Len(stack[t]) \in Nat
      /\ \A j \in 1 .. Len(stack[t]) : stack[t][j] \in GoodFrame
      <2>1. stack[t] \in Seq(GoodFrame) BY DEF IInv, Frames
      <2> QED BY <2>1, LenProperties, ElementOfSeq
<1>3. stack[t][i] \in GoodFrame /\ stack[t][i].node \in Nodes
      BY <1>1, <1>2 DEF GoodFrame
<1>4. f \in GoodFrame BY <1>3, TryFrame DEF Places
<1>5. a \in Seq(GoodFrame)
      <2>1. i \in Int /\ \A j \in 1 .. i - 1 : stack[t][j] \in GoodFrame
            BY <1>2
      <2> QED BY <2>1, SubSeqProperties
<1> HIDE DEF f, a
<1>6. a \o <<f>> \in Seq(GoodFrame)
      BY <1>4, <1>5, ConcatProperties
<1>7. Reap(t, Descendants(t), a \o <<f>>, "raise")
      BY <1>1 DEF a, f
<1>8. mode[t] \in Live BY <1>1 DEF Live
<1> QED BY <1>1, <1>3, <1>6, <1>7, <1>8, CancelKeeps

LEMMA BranchEndKeeps ==
    ASSUME IInv, NEW t \in Tasks, BranchEnd(t)
    PROVE  IInv'
<1>1. /\ t # Main /\ stack[t] = <<>> /\ mode[t] \in {"ret", "raise"}
      /\ mode' = [mode EXCEPT ![t] = IF mode[t] = "ret" THEN "done" ELSE "broken"]
      /\ UNCHANGED <<stack, exc, lineage, status, errorNode, results, ran, faults, incidents>>
      BY DEF BranchEnd
<1>2. /\ mode' \in [Tasks -> {"free", "run", "ret", "raise", "done", "broken"}]
      /\ mode'[t] \in {"done", "broken"}
      /\ \A c \in Tasks \ {t} : mode'[c] = mode[c]
      BY <1>1 DEF IInv, TypeOK
<1>3. TypeOK' BY <1>1, <1>2 DEF IInv, TypeOK
<1>4. Frames' BY <1>1 DEF IInv, Frames
<1>5. mode'[Main] = mode[Main] BY <1>1, <1>2, GraphAssumption
<1>6. Modes' BY <1>1, <1>2, <1>5 DEF IInv, Modes
<1>7. Family'
      <2>1. ASSUME NEW c \in Tasks
            PROVE  lineage'[c] # <<>> <=> c # Main /\ mode'[c] # "free"
            BY <1>1, <1>2 DEF IInv, Family
      <2>2. ASSUME NEW c \in Tasks, NEW i \in 1 .. Len(lineage'[c])
            PROVE  /\ Waiting(lineage[c][i])'
                   /\ lineage'[lineage'[c][i]] = SubSeq(lineage'[c], 1, i - 1)
            <3> DEFINE p == lineage[c][i]
            <3>1. p \in Tasks /\ Waiting(p) /\ lineage[p] = SubSeq(lineage[c], 1, i - 1)
                  BY <1>1, <2>2, Ancestors
            <3>2. p # t BY <1>1, <3>1 DEF Waiting
            <3>3. mode'[p] = mode[p] /\ stack' = stack /\ lineage' = lineage
                  BY <1>1, <1>2, <3>1, <3>2
            <3> QED BY <3>1, <3>3 DEF Waiting, Top
      <2> QED BY <2>1, <2>2 DEF Family
<1>8. Recorded' BY <1>1, <1>5, RecordedKept
<1> QED BY <1>3, <1>4, <1>6, <1>7, <1>8 DEF IInv

-----------------------------------------------------------------------------
(* The execution begins and ends *)

\* Without execute_workflow's own coroutine waiting, there is no other one.
LEMMA Alone ==
    ASSUME IInv, ~Waiting(Main)
    PROVE  \A c \in Tasks : (c # Main => mode[c] = "free") /\ lineage[c] = <<>>
BY MainWaits DEF IInv, Family

LEMMA StartKeeps ==
    ASSUME IInv, Start
    PROVE  IInv'
<1>1. PICK s \in Starts :
         stack' = [stack EXCEPT ![Main] =
                     <<IF s = "trigger" THEN ListFrame(AfterTrigger[Root], 0, <<Root>>)
                       ELSE NodeFrame(s, 0, <<Root>>)>>]
      BY DEF Start
<1> DEFINE f == IF s = "trigger" THEN ListFrame(AfterTrigger[Root], 0, <<Root>>)
                ELSE NodeFrame(s, 0, <<Root>>)
<1>2. /\ status = "new" /\ status' = "running" /\ mode' = [mode EXCEPT ![Main] = "run"]
      /\ UNCHANGED <<exc, lineage, errorNode, results, ran, faults, incidents>>
      BY DEF Start
<1>3. f \in GoodFrame
      <2>1. <<Root>> \in Seq(Workflows) /\ IsInjective(<<Root>>)
            BY GraphAssumption DEF IsInjective
      <2>2. AfterTrigger[Root] \in Seq(Nodes) /\ (s # "trigger" => s \in Nodes)
            BY GraphAssumption
      <2> QED BY <2>1, <2>2, NewFrames
<1>4. stack' = [stack EXCEPT ![Main] = <<f>>] BY <1>1
<1> HIDE DEF f
<1>5. <<f>> \in Seq(GoodFrame) /\ <<f>> # <<>> BY <1>3
<1>6. Main \in Tasks /\ ~(mode[Main] \in Live)
      BY <1>2, GraphAssumption DEF IInv, Modes
<1>7. ~Waiting(Main) BY <1>6 DEF Waiting, Live
<1>8. \A c \in Tasks : (c # Main => mode[c] = "free") /\ lineage[c] = <<>>
      BY <1>7, Alone
<1>9. Frames' BY <1>4, <1>5 DEF IInv, Frames
<1>10. TypeOK'
      <2>1. <<f>> \in Seq(Frame) BY <1>3 DEF GoodFrame
      <2> QED BY <1>2, <1>4, <2>1 DEF IInv, TypeOK
<1>11. Modes'
      BY <1>2, <1>4, <1>5, <1>6 DEF IInv, TypeOK, Modes, Live
<1>12. Family'
      <2>1. \A c \in Tasks : lineage'[c] = <<>> /\ (c # Main => mode'[c] = "free")
            BY <1>2, <1>8 DEF IInv, TypeOK
      <2> QED BY <2>1, EmptySeq DEF Family
<1>13. Recorded'
      <2>1. mode'[Main] = "run" BY <1>2, <1>6 DEF IInv, TypeOK
      <2> QED BY <1>2, <2>1 DEF IInv, Recorded, ErrorNodeRecorded
<1> QED BY <1>9, <1>10, <1>11, <1>12, <1>13 DEF IInv

LEMMA FinishKeeps ==
    ASSUME IInv, Finish
    PROVE  IInv'
<1>1. /\ status = "running" /\ stack[Main] = <<>>
      /\ status' = (IF mode[Main] = "ret" THEN "success" ELSE "failed")
      /\ errorNode' = (IF mode[Main] = "ret" THEN NoNode ELSE exc[Main])
      /\ mode' = [mode EXCEPT ![Main] = "done"]
      /\ UNCHANGED <<stack, exc, lineage, results, ran, faults, incidents>>
      BY DEF Finish
<1>2. Main \in Tasks /\ mode[Main] \in {"ret", "raise"}
      BY <1>1, GraphAssumption DEF IInv, Modes, Live
<1>3. \A c \in Tasks : (c # Main => mode[c] = "free") /\ lineage[c] = <<>>
      BY <1>1, Alone DEF Waiting
<1>4. mode'[Main] = "done" /\ \A c \in Tasks \ {Main} : mode'[c] = mode[c]
      BY <1>1, <1>2 DEF IInv, TypeOK
<1>5. TypeOK' BY <1>1, <1>2 DEF IInv, TypeOK
<1>6. Frames' BY <1>1 DEF IInv, Frames
<1>7. Modes' BY <1>1, <1>4 DEF IInv, Modes, Live
<1>8. Family'
      BY <1>1, <1>3, <1>4, EmptySeq DEF Family
<1>9. Recorded'
      <2>1. CASE mode[Main] = "ret"
            BY <1>1, <1>4, <2>1 DEF Recorded, ErrorNodeRecorded
      <2>2. CASE mode[Main] = "raise"
            <3>1. exc[Main] # NoNode => results[exc[Main]] = "failed"
                  BY <2>2 DEF IInv, Recorded
            <3> QED BY <1>1, <1>4, <2>2, <3>1 DEF Recorded, ErrorNodeRecorded
      <2> QED BY <1>2, <2>1, <2>2
<1> QED BY <1>5, <1>6, <1>7, <1>8, <1>9 DEF IInv

LEMMA GlobalTimeoutKeeps ==
    ASSUME IInv, GlobalTimeout
    PROVE  IInv'
<1>1. /\ status = "running" /\ status' = "failed"
      /\ incidents' = incidents \cup {"timeout"}
      /\ Reap(Main, Descendants(Main), <<>>, "done")
      /\ UNCHANGED <<exc, errorNode, results, ran, faults>>
      BY DEF GlobalTimeout
<1>2. Main \in Tasks /\ mode[Main] \in Live
      BY <1>1, GraphAssumption DEF IInv, Modes
<1>3. /\ stack' \in [Tasks -> Seq(Frame)]
      /\ mode' \in [Tasks -> {"free", "run", "ret", "raise", "done", "broken"}]
      /\ lineage' \in [Tasks -> Seq(Tasks)]
      /\ Frames' /\ Family'
      /\ \A c \in Tasks : mode'[c] = "run" => stack'[c] # <<>>
      /\ mode'[Main] = "done"
      <2>1. mode[Main] # "free" /\ <<>> \in Seq(GoodFrame)
            BY <1>2, EmptySeq DEF Live
      <2> QED BY <1>1, <1>2, <2>1, ReapAll
<1>4. TypeOK' BY <1>1, <1>3 DEF IInv, TypeOK
<1>5. Modes' BY <1>1, <1>3 DEF Modes, Live
<1>6. Recorded'
      BY <1>1, <1>3 DEF IInv, Recorded, ErrorNodeRecorded
<1> QED BY <1>3, <1>4, <1>5, <1>6 DEF IInv

-----------------------------------------------------------------------------
(* The theorems *)

\* The coroutine steps that start and end no other coroutine.
LEMMA StepKeeps ==
    ASSUME IInv, NEW t \in Tasks, Step(t)
    PROVE  IInv'
<1>1. CASE ListNext(t) BY <1>1, ListNextLocal, LocalKeeps
<1>2. CASE Propagate(t) BY <1>2, PropagateLocal, LocalKeeps
<1>3. CASE Enter(t) BY <1>3, EnterLocal, LocalKeeps
<1>4. CASE ExecAction(t) BY <1>4, PerformLocal, LocalKeeps DEF ExecAction
<1>5. CASE ExecStep(t) BY <1>5, PerformLocal, LocalKeeps DEF ExecStep
<1>6. CASE ExecErrorHandler(t) BY <1>6, PerformLocal, LocalKeeps DEF ExecErrorHandler
<1>7. CASE Choose(t) BY <1>7, ChooseLocal, LocalKeeps
<1>8. CASE Filter(t) BY <1>8, FilterLocal, LocalKeeps
<1>9. CASE Respond(t) BY <1>9, RespondLocal, LocalKeeps
<1>10. CASE AwaitReturned(t) BY <1>10, AwaitReturnedLocal, LocalKeeps
<1>11. CASE CatchFirst(t) BY <1>11, CatchFirstLocal, LocalKeeps
<1>12. CASE Retry(t) BY <1>12, RetryLocal, LocalKeeps
<1>13. CASE CatchRetry(t) BY <1>13, CatchRetryLocal, LocalKeeps
<1>14. CASE HandleFailure(t) BY <1>14, HandleFailureLocal, LocalKeeps
<1>15. CASE LoopStart(t) BY <1>15, LoopStartLocal, LocalKeeps
<1>16. CASE LoopNext(t) BY <1>16, LoopNextLocal, LocalKeeps
<1>17. CASE ChildStart(t) BY <1>17, ChildStartLocal, LocalKeeps
<1>18. CASE ChildEnd(t) BY <1>18, ChildEndLocal, LocalKeeps
<1>19. CASE ParallelStart(t) BY <1>19, ParallelStartKeeps
<1>20. CASE Join(t) BY <1>20, JoinKeeps
<1>21. CASE BatchStart(t) BY <1>21, BatchStartLocal, LocalKeeps
<1>22. CASE BatchItem(t) BY <1>22, BatchItemKeeps
<1>23. CASE GatherDone(t) BY <1>23, GatherDoneLocal, LocalKeeps
<1>24. CASE \E c \in Tasks : BatchItemEnd(t, c) BY <1>24, BatchItemEndKeeps
<1>25. CASE BranchEnd(t) BY <1>25, BranchEndKeeps
<1> QED BY <1>1, <1>2, <1>3, <1>4, <1>5, <1>6, <1>7, <1>8, <1>9, <1>10, <1>11, <1>12,
           <1>13, <1>14, <1>15, <1>16, <1>17, <1>18, <1>19, <1>20, <1>21, <1>22, <1>23,
           <1>24, <1>25 DEF Step

\* Nothing happens: the invariant is about the variables only.
LEMMA StutterKeeps == IInv /\ UNCHANGED vars => IInv'
BY DEF IInv, vars, TypeOK, Frames, Modes, Family, Recorded, ErrorNodeRecorded, Waiting, Top

\* The invariant that all the results below follow from.
THEOREM Invariant == Spec => []IInv
<1>1. Init => IInv BY InitInv
<1>2. IInv /\ [Next]_vars => IInv'
      <2> SUFFICES ASSUME IInv, [Next]_vars PROVE IInv'
          OBVIOUS
      <2>1. CASE Start BY <2>1, StartKeeps
      <2>2. CASE Finish BY <2>2, FinishKeeps
      <2>3. CASE GlobalTimeout BY <2>3, GlobalTimeoutKeeps
      <2>4. ASSUME NEW t \in Tasks, Step(t) \/ JoinTimeout(t) \/ ChildTimeout(t)
            PROVE  IInv'
            BY <2>4, StepKeeps, JoinTimeoutKeeps, ChildTimeoutKeeps
      <2>5. CASE Done BY <2>5, StutterKeeps DEF Done
      <2>6. CASE UNCHANGED vars BY <2>6, StutterKeeps
      <2> QED BY <2>1, <2>2, <2>3, <2>4, <2>5, <2>6 DEF Next
<1> QED BY <1>1, <1>2, PTL DEF Spec

\* The variables have their types, for any graph and policies.
THEOREM TypeCorrect == Spec => []TypeOK
<1>1. IInv => TypeOK BY DEF IInv
<1> QED BY <1>1, Invariant, PTL

\* Branches and items of _exec_parallel and _exec_batch never outlive the node
\* that awaits them: gather collects them all and a timeout cancels them with
\* everything they have started in turn.
THEOREM NoOrphans == Spec => []NoOrphanTasks
<1>1. IInv => NoOrphanTasks
      <2> SUFFICES ASSUME IInv, NEW c \in Tasks \ {Main}, mode[c] # "free"
                   PROVE  LET p == Last(lineage[c]) IN
                          /\ lineage[c] # <<>>
                          /\ mode[p] = "run"
                          /\ stack[p] # <<>>
                          /\ Top(p).at \in {"join", "batch"}
          BY DEF NoOrphanTasks
      <2>1. lineage[c] # <<>> BY DEF IInv, Family
      <2>2. Len(lineage[c]) \in 1 .. Len(lineage[c])
            BY <2>1, LineageType
      <2>3. Waiting(Last(lineage[c]))
            BY <2>2, Ancestors DEF Last
      <2> QED BY <2>1, <2>3 DEF Waiting
<1> QED BY <1>1, Invariant, PTL

\* _exec_sub_workflow never runs a workflow inside itself and nests no deeper
\* than max_depth of the nesting node, whatever retries, handlers, branches and
\* timeouts happen in between.
THEOREM NestingBounded == Spec => []ChainAcyclic
<1>1. IInv => ChainAcyclic
      <2> SUFFICES ASSUME IInv, NEW t \in Tasks, NEW i \in DOMAIN stack[t]
                   PROVE  /\ IsInjective(stack[t][i].chain)
                          /\ stack[t][i].at = "child" =>
                                Len(stack[t][i].chain) < NestLimit[stack[t][i].node]
          BY DEF ChainAcyclic
      <2>1. stack[t] \in Seq(GoodFrame) BY DEF IInv, Frames
      <2>2. stack[t][i] \in GoodFrame BY <2>1, LenProperties, ElementOfSeq
      <2> QED BY <2>2 DEF GoodFrame
<1> QED BY <1>1, Invariant, PTL

\* error_node_id names a node whose last entry in node_results says "failed",
\* and is empty after a success.
THEOREM ErrorNodeIsRecorded == Spec => []ErrorNodeRecorded
<1>1. IInv => ErrorNodeRecorded BY DEF IInv, Recorded
<1> QED BY <1>1, Invariant, PTL

-----------------------------------------------------------------------------
(* Why executions fail *)

\* No merge node has incoming edges: the check of Enter cannot raise TypeError.
MergesFirst == \A n \in Nodes : Kind[n] = "merge" => Incoming(n) = {}

Cause == faults # {} \/ incidents # {}

Catching == {"retry", "retrysucc", "failed", "handling", "continuing"}

CalmFrame == {f \in GoodFrame : f.at \notin Catching}

\* Nothing has gone wrong: nobody raises, and no except clause is at work.
Calm ==
    /\ stack \in [Tasks -> Seq(CalmFrame)]
    /\ \A t \in Tasks : mode[t] \notin {"raise", "broken"}
    /\ status # "failed"

CauseInv == Cause \/ Calm

\* t goes on without an exception.
CalmMoves(t) ==
    \E s \in Seq(CalmFrame), m \in {"run", "ret"} :
        stack' = [stack EXCEPT ![t] = s] /\ mode' = [mode EXCEPT ![t] = m]

\* Causes are never forgotten.
LEMMA CausesStay ==
    ASSUME IInv, Next
    PROVE  faults \subseteq faults' /\ incidents \subseteq incidents'
<1>1. CASE Start \/ Finish \/ GlobalTimeout \/ Done
      BY <1>1 DEF Start, Finish, GlobalTimeout, Done, vars
<1>2. ASSUME NEW t \in Tasks, JoinTimeout(t) \/ ChildTimeout(t)
      PROVE  faults \subseteq faults' /\ incidents \subseteq incidents'
      BY <1>2 DEF JoinTimeout, ChildTimeout
<1>3. ASSUME NEW t, NEW nodes, NEW place, NEW num, CallNodes(t, nodes, place, num)
      PROVE  incidents \subseteq incidents'
      BY <1>3 DEF CallNodes
<1>4. ASSUME NEW t \in Tasks, Step(t)
      PROVE  faults \subseteq faults' /\ incidents \subseteq incidents'
      <2>1. CASE ListNext(t) \/ Propagate(t) \/ Enter(t)
            BY <2>1 DEF ListNext, Propagate, Enter
      <2>2. ASSUME NEW kinds, Perform(t, kinds)
            PROVE  faults \subseteq faults' /\ incidents \subseteq incidents'
            BY <1>3, <2>2 DEF Perform, Complete, Fault
      <2>3. CASE Choose(t) BY <1>3, <2>3 DEF Choose, Complete, Fault
      <2>4. CASE Filter(t) BY <1>3, <2>4 DEF Filter, Complete, Fault
      <2>5. CASE Respond(t) \/ AwaitReturned(t) \/ CatchFirst(t) \/ CatchRetry(t)
            BY <2>5 DEF Respond, AwaitReturned, CatchFirst, CatchRetry, Fault
      <2>6. CASE Retry(t) BY <1>3, <2>6 DEF Retry, Fault
      <2>7. CASE HandleFailure(t) BY <1>3, <2>7 DEF HandleFailure
      <2>8. CASE LoopStart(t) BY <2>8 DEF LoopStart
      <2>9. CASE LoopNext(t) BY <1>3, <2>9 DEF LoopNext, Complete
      <2>10. CASE ChildStart(t) BY <2>10 DEF ChildStart, Fault
      <2>11. CASE ChildEnd(t) BY <1>3, <2>11 DEF ChildEnd, Complete
      <2>12. CASE ParallelStart(t) \/ Join(t) \/ BatchStart(t) \/ BatchItem(t)
            BY <2>12 DEF ParallelStart, Join, BatchStart, BatchItem
      <2>13. CASE GatherDone(t) BY <1>3, <2>13 DEF GatherDone, Complete
      <2>14. CASE (\E c \in Tasks : BatchItemEnd(t, c)) \/ BranchEnd(t)
            BY <2>14 DEF BatchItemEnd, BranchEnd
      <2> QED BY <1>4, <2>1, <2>2, <2>3, <2>4, <2>5, <2>6, <2>7, <2>8, <2>9, <2>10, <2>11,
                 <2>12, <2>13, <2>14 DEF Step, ExecAction, ExecStep, ExecErrorHandler
<1> QED BY <1>1, <1>2, <1>4 DEF Next

LEMMA CalmTop ==
    ASSUME IInv, Calm, NEW t \in Tasks, stack[t] # <<>>
    PROVE  /\ stack[t] \in Seq(CalmFrame)
           /\ Top(t) \in CalmFrame /\ Top(t) \in GoodFrame /\ Top(t) \in Frame
           /\ Below(t) \in Seq(CalmFrame)
           /\ Top(t).at \notin Catching
<1>1. stack[t] \in Seq(CalmFrame) BY DEF Calm
<1>2. Top(t) \in CalmFrame BY <1>1, LastOfSeq DEF Top
<1>3. Below(t) \in Seq(CalmFrame) BY <1>1, PopFrame DEF Below
<1> QED BY <1>1, <1>2, <1>3 DEF CalmFrame, GoodFrame

LEMMA CalmStep ==
    ASSUME IInv, Calm, NEW t \in Tasks, CalmMoves(t), status' = status
    PROVE  Calm'
<1>1. PICK s \in Seq(CalmFrame), m \in {"run", "ret"} :
         stack' = [stack EXCEPT ![t] = s] /\ mode' = [mode EXCEPT ![t] = m]
      BY DEF CalmMoves
<1> QED BY <1>1 DEF Calm, IInv, TypeOK

LEMMA CalmReturn ==
    ASSUME IInv, Calm, NEW t \in Tasks, stack[t] # <<>>, Return(t)
    PROVE  CalmMoves(t)
BY CalmTop DEF Return, Continue, CalmMoves

LEMMA CalmReplaced ==
    ASSUME IInv, Calm, NEW t \in Tasks, stack[t] # <<>>, Top(t).node \in Nodes,
           NEW place \in Places \ (Catching \cup {"child"}), NEW num \in Nat
    PROVE  /\ [Top(t) EXCEPT !.at = place, !.num = num] \in CalmFrame
           /\ Append(Below(t), [Top(t) EXCEPT !.at = place, !.num = num]) \in Seq(CalmFrame)
<1> DEFINE f == [Top(t) EXCEPT !.at = place, !.num = num]
<1>1. f \in GoodFrame BY CalmTop, MovedFrame
<1>2. f.at = place BY CalmTop DEF Frame
<1>3. f \in CalmFrame BY <1>1, <1>2 DEF CalmFrame
<1> HIDE DEF f
<1>4. Append(Below(t), f) \in Seq(CalmFrame)
      BY <1>3, CalmTop, ReplaceFrame DEF Below
<1> QED BY <1>3, <1>4 DEF f

LEMMA CalmGoto ==
    ASSUME IInv, Calm, NEW t \in Tasks, stack[t] # <<>>, Top(t).node \in Nodes,
           NEW place \in Places \ (Catching \cup {"child"}), NEW num \in Nat,
           Goto(t, place, num)
    PROVE  CalmMoves(t)
BY CalmReplaced DEF Goto, Continue, CalmMoves

\* A call that is not too deep.
LEMMA CalmPush ==
    ASSUME IInv, Calm, NEW t \in Tasks, stack[t] # <<>>, NEW f \in CalmFrame,
           NEW g \in CalmFrame, Continue(t, Below(t) \o <<f, g>>, "run")
    PROVE  CalmMoves(t)
<1>1. Below(t) \o <<f, g>> \in Seq(CalmFrame)
      BY CalmTop, PushFrame DEF Below
<1> QED BY <1>1 DEF Continue, CalmMoves

LEMMA CalmNewFrames ==
    ASSUME NEW chain \in Seq(Workflows), IsInjective(chain), NEW depth \in Nat
    PROVE  /\ \A nodes \in Seq(Nodes) : ListFrame(nodes, depth, chain) \in CalmFrame
           /\ \A n \in Nodes : NodeFrame(n, depth, chain) \in CalmFrame
BY NewFrames DEF CalmFrame, Catching, ListFrame, NodeFrame

LEMMA CalmCall ==
    ASSUME IInv, Calm, NEW t \in Tasks, stack[t] # <<>>, Top(t).node \in Nodes,
           NEW nodes \in Seq(Nodes), NEW place \in Places \ (Catching \cup {"child"}),
           NEW num \in Nat, CallNodes(t, nodes, place, num)
    PROVE  CalmMoves(t) \/ incidents' # {}
<1> DEFINE f == [Top(t) EXCEPT !.at = place, !.num = num]
<1>1. f \in CalmFrame BY CalmReplaced
<1> HIDE DEF f
<1>2. CASE nodes = <<>> BY <1>2, CalmReturn DEF CallNodes
<1>3. CASE nodes # <<>> /\ f.depth + 1 > MaxDepth
      BY <1>3 DEF CallNodes, f
<1>4. CASE nodes # <<>> /\ ~(f.depth + 1 > MaxDepth)
      <2>1. Continue(t, Below(t) \o <<f, ListFrame(nodes, f.depth + 1, f.chain)>>, "run")
            BY <1>4 DEF CallNodes, f
      <2>2. ListFrame(nodes, f.depth + 1, f.chain) \in CalmFrame
            <3>1. f.depth + 1 \in Nat /\ f.chain \in Seq(Workflows) /\ IsInjective(f.chain)
                  BY <1>1 DEF CalmFrame, GoodFrame, Frame
            <3> QED BY <3>1, CalmNewFrames
      <2> QED BY <1>1, <2>1, <2>2, CalmPush
<1> QED BY <1>2, <1>3, <1>4

LEMMA CalmComplete ==
    ASSUME IInv, Calm, NEW t \in Tasks, stack[t] # <<>>, Top(t).node \in Nodes,
           NEW nodes \in Seq(Nodes), Complete(t, nodes)
    PROVE  CalmMoves(t) \/ incidents' # {}
<1>1. "succ" \in Places \ (Catching \cup {"child"}) BY DEF Places, Catching
<1> QED BY <1>1, CalmCall DEF Complete

\* As long as nothing has gone wrong, an executor either raises or goes on.
LEMMA CalmFault ==
    ASSUME NEW t, Fault(t)
    PROVE  Cause'
BY DEF Fault, Cause

\* A frame whose place or counter changes on its way.
LEMMA CalmListNext ==
    ASSUME IInv, Calm, NEW t \in Tasks, ListNext(t)
    PROVE  CalmMoves(t)
<1> DEFINE f == Top(t)
<1>1. stack[t] # <<>> /\ f.at = "list" BY DEF ListNext, At
<1>2. f \in GoodFrame /\ f \in Frame /\ IsInjective(f.chain)
      BY <1>1, CalmTop DEF GoodFrame
<1>3. CASE f.rest = <<>> BY <1>1, <1>3, CalmReturn DEF ListNext
<1>4. CASE f.rest # <<>>
      <2> DEFINE g == [f EXCEPT !.rest = Tail(@)]
                 h == NodeFrame(Head(f.rest), f.depth, f.chain)
      <2>1. f.rest \in Seq(Nodes) /\ f.depth \in Nat /\ f.chain \in Seq(Workflows)
            BY <1>2 DEF Frame
      <2>2. Head(f.rest) \in Nodes /\ Tail(f.rest) \in Seq(Nodes)
            BY <1>4, <2>1, HeadTailProperties
      <2>3. h \in CalmFrame BY <1>2, <2>1, <2>2, CalmNewFrames
      <2>4. g \in CalmFrame
            <3>1. g \in Frame /\ g.at = f.at /\ g.chain = f.chain
                  BY <1>2, <2>2 DEF Frame
            <3>2. g.at = "list" BY <1>1, <3>1
            <3> HIDE DEF g
            <3> QED BY <1>2, <3>1, <3>2 DEF GoodFrame, CalmFrame, Catching
      <2>5. Continue(t, Below(t) \o <<g, h>>, "run") BY <1>4 DEF ListNext
      <2> HIDE DEF g, h
      <2> QED BY <1>1, <2>3, <2>4, <2>5, CalmPush
<1> QED BY <1>3, <1>4

LEMMA CalmChildStart ==
    ASSUME IInv, Calm, NEW t \in Tasks, ChildStart(t)
    PROVE  CalmMoves(t) \/ Cause'
<1> DEFINE f == Top(t)
           w == Child[f.node]
<1>1. stack[t] # <<>> /\ f.at = "try" BY DEF ChildStart, At
<1>2. f \in GoodFrame /\ f \in Frame /\ IsInjective(f.chain) /\ f.node \in Nodes
      BY <1>1, CalmTop DEF GoodFrame
<1>3. CASE Fault(t) BY <1>3, CalmFault
<1>4. CASE /\ ~ChildRejected(f)
           /\ Continue(t, Below(t) \o <<[f EXCEPT !.at = "child"],
                           ListFrame(AfterTrigger[w], 0, Append(f.chain, w))>>, "run")
      <2> DEFINE g == [f EXCEPT !.at = "child"]
                 h == ListFrame(AfterTrigger[w], 0, Append(f.chain, w))
      <2>1. f.chain \in Seq(Workflows) /\ w \in Workflows /\ AfterTrigger[w] \in Seq(Nodes)
            BY <1>2, GraphAssumption DEF Frame
      <2>2. w \notin Range(f.chain) /\ ~(Len(f.chain) >= NestLimit[f.node])
            BY <1>4 DEF ChildRejected
      <2>3. h \in CalmFrame
            BY <1>2, <2>1, <2>2, LongerChain, CalmNewFrames
      <2>4. Len(f.chain) < NestLimit[f.node]
            <3>1. Len(f.chain) \in Nat /\ NestLimit[f.node] \in Nat
                  BY <1>2, <2>1, LenProperties, GraphAssumption
            <3> QED BY <2>2, <3>1
      <2>5. g \in CalmFrame
            <3>1. g \in Frame /\ g.node = f.node /\ g.chain = f.chain /\ g.at = "child"
                  BY <1>2 DEF Frame, Places
            <3> HIDE DEF g
            <3> QED BY <1>2, <2>4, <3>1 DEF GoodFrame, CalmFrame, Catching
      <2>6. Continue(t, Below(t) \o <<g, h>>, "run") BY <1>4
      <2> HIDE DEF g, h
      <2> QED BY <1>1, <2>3, <2>5, <2>6, CalmPush
<1> QED BY <1>3, <1>4 DEF ChildStart

LEMMA CalmLoops ==
    ASSUME IInv, Calm, NEW t \in Tasks,
           LoopStart(t) \/ LoopNext(t) \/ BatchStart(t) \/ GatherDone(t)
    PROVE  CalmMoves(t) \/ incidents' # {}
<1> DEFINE f == Top(t)
<1>1. stack[t] # <<>> /\ f.at \in {"try", "loop", "batch"}
      BY DEF LoopStart, LoopNext, BatchStart, GatherDone, At
<1>2. f \in GoodFrame /\ f \in Frame /\ f.node \in Nodes /\ f.num \in Nat
      BY <1>1, CalmTop DEF GoodFrame, Frame
<1>3. {"loop", "batch"} \subseteq Places \ (Catching \cup {"child"})
      BY DEF Places, Catching
<1>4. \A k \in 0 .. ItemBound : k \in Nat BY GraphAssumption
<1>5. /\ Successors[f.node]["default"] \in Seq(Nodes)
      /\ Successors[f.node]["done"] \in Seq(Nodes)
      BY <1>2, SuccessorsType DEF Handles
<1>6. CASE LoopStart(t)
      <2>1. PICK k \in 0 .. ItemBound :
               Continue(t, Append(Below(t), [f EXCEPT !.at = "loop", !.num = k]), "ret")
            BY <1>6 DEF LoopStart
      <2>2. Append(Below(t), [f EXCEPT !.at = "loop", !.num = k]) \in Seq(CalmFrame)
            BY <1>1, <1>2, <1>3, <1>4, CalmReplaced
      <2> QED BY <2>1, <2>2 DEF Continue, CalmMoves
<1>7. CASE BatchStart(t)
      <2>1. PICK k \in 0 .. ItemBound : Goto(t, "batch", k) BY <1>7 DEF BatchStart
      <2> QED BY <1>1, <1>2, <1>3, <1>4, <2>1, CalmGoto
<1>8. CASE GatherDone(t)
      BY <1>1, <1>2, <1>5, <1>8, CalmComplete DEF GatherDone
<1>9. CASE LoopNext(t)
      <2> DEFINE body == Successors[f.node]["default"]
      <2>1. CASE f.num = 0 \/ body = <<>>
            <3>1. Complete(t, Successors[f.node]["done"]) BY <1>9, <2>1 DEF LoopNext
            <3> QED BY <1>1, <1>2, <1>5, <3>1, CalmComplete
      <2>2. CASE ~(f.num = 0 \/ body = <<>>)
            <3>1. CallNodes(t, body, "loop", f.num - 1) BY <1>9, <2>2 DEF LoopNext
            <3>2. f.num - 1 \in Nat BY <1>2, <2>2
            <3> QED BY <1>1, <1>2, <1>3, <1>5, <3>1, <3>2, CalmCall
      <2> QED BY <2>1, <2>2
<1> QED BY <1>6, <1>7, <1>8, <1>9

\* The executors that call nothing back, and the ends of calls.
LEMMA CalmExecutors ==
    ASSUME IInv, Calm, NEW t \in Tasks,
           \/ \E kinds : Perform(t, kinds)
           \/ Choose(t) \/ Filter(t) \/ Respond(t) \/ AwaitReturned(t) \/ ChildEnd(t)
    PROVE  CalmMoves(t) \/ Cause'
<1>1. mode[t] # "raise" BY DEF Calm
<1>2. stack[t] # <<>> /\ Top(t).at \in Places \ {"list"}
      BY DEF Perform, Choose, Filter, Respond, AwaitReturned, ChildEnd, At, Places
<1>3. Top(t).node \in Nodes BY <1>2, CalmTop DEF GoodFrame
<1>4. AllSuccessors(Top(t).node) \in Seq(Nodes) BY <1>3, SuccessorsType
<1>5. ASSUME NEW nodes \in Seq(Nodes), Complete(t, nodes)
      PROVE  CalmMoves(t) \/ Cause'
      BY <1>2, <1>3, <1>5, CalmComplete DEF Cause
<1>6. CASE \E kinds : Perform(t, kinds)
      BY <1>4, <1>5, <1>6, CalmFault DEF Perform
<1>7. CASE Choose(t)
      <2>1. \A h \in Verdicts : Successors[Top(t).node][h] \in Seq(Nodes)
            BY <1>3, SuccessorsType DEF Verdicts, Handles
      <2> QED BY <1>5, <1>7, <2>1, CalmFault DEF Choose
<1>8. CASE Filter(t)
      BY <1>2, <1>4, <1>5, <1>8, CalmFault, CalmReturn DEF Filter
<1>9. CASE Respond(t) \/ AwaitReturned(t)
      BY <1>2, <1>9, CalmFault, CalmReturn DEF Respond, AwaitReturned
<1>10. CASE ChildEnd(t)
      BY <1>1, <1>4, <1>5, <1>10 DEF ChildEnd, At
<1> QED BY <1>6, <1>7, <1>8, <1>9, <1>10

\* Except clauses are not at work: the places they reach are not there.
LEMMA CalmNoHandlers ==
    ASSUME IInv, Calm, NEW t \in Tasks
    PROVE  ~(Propagate(t) \/ CatchFirst(t) \/ Retry(t) \/ CatchRetry(t) \/ HandleFailure(t))
BY CalmTop DEF Propagate, CatchFirst, Retry, CatchRetry, HandleFailure, At, Calm, Catching

\* Only a merge node with incoming edges raises before its try block.
LEMMA CalmEnter ==
    ASSUME MergesFirst, IInv, Calm, NEW t \in Tasks, Enter(t)
    PROVE  CalmMoves(t)
<1>1. stack[t] # <<>> /\ Top(t).at = "enter" BY DEF Enter, At
<1>2. Top(t).node \in Nodes BY <1>1, CalmTop DEF GoodFrame
<1>3. Goto(t, "try", 0) BY <1>2 DEF Enter, MergesFirst
<1>4. "try" \in Places \ (Catching \cup {"child"}) BY DEF Places, Catching
<1> QED BY <1>1, <1>2, <1>3, <1>4, CalmGoto

\* Branches and items begin calmly, unless they are too deep.
LEMMA CalmSpawn ==
    ASSUME IInv, Calm, NEW t \in Tasks, stack[t] # <<>>,
           NEW waiting \in CalmFrame, NEW k \in Nat, NEW ids \in [1 .. k -> Free],
           NEW frames, \A i \in 1 .. k : frames[i] \in CalmFrame,
           Spawn(t, waiting, ids, frames, "run"), status' = status
    PROVE  Calm'
<1> DEFINE started == Range(ids)
           Index(c) == CHOOSE i \in DOMAIN ids : ids[i] = c
           top == Append(Below(t), waiting)
<1>1. /\ stack' = [c \in Tasks |-> IF c = t THEN top
                                   ELSE IF c \in started THEN <<frames[Index(c)]>>
                                   ELSE stack[c]]
      /\ mode' = [c \in Tasks |-> IF c \in started THEN "run" ELSE mode[c]]
      BY DEF Spawn
<1>2. \A c \in started : Index(c) \in 1 .. k
      <2>1. DOMAIN ids = 1 .. k OBVIOUS
      <2> QED BY <2>1 DEF Range
<1>3. top \in Seq(CalmFrame) BY CalmTop, ReplaceFrame DEF Below
<1>4. \A c \in started : <<frames[Index(c)]>> \in Seq(CalmFrame)
      <2>1. \A x \in CalmFrame : <<x>> \in Seq(CalmFrame) OBVIOUS
      <2> HIDE DEF started, Index
      <2> QED BY <1>2, <2>1
<1> HIDE DEF started, Index, top
<1>5. stack' \in [Tasks -> Seq(CalmFrame)] BY <1>1, <1>3, <1>4 DEF Calm
<1>6. \A c \in Tasks : mode'[c] \notin {"raise", "broken"} BY <1>1 DEF Calm
<1> QED BY <1>5, <1>6 DEF Calm

LEMMA CalmParallelStart ==
    ASSUME IInv, Calm, NEW t \in Tasks, ParallelStart(t)
    PROVE  Calm'
<1> DEFINE f == Top(t)
           branches == Successors[f.node]["branch"]
           ids == Fresh(Len(branches))
           frames == [i \in DOMAIN branches |-> NodeFrame(branches[i], f.depth + 1, f.chain)]
           w == [f EXCEPT !.at = "join"]
<1>1. stack[t] # <<>> /\ f.at = "try" BY DEF ParallelStart, At
<1>2. f \in GoodFrame /\ f \in Frame /\ f.node \in Nodes
      BY <1>1, CalmTop DEF GoodFrame
<1>3. /\ branches \in Seq(Nodes) /\ Len(branches) \in Nat
      /\ DOMAIN branches = 1 .. Len(branches)
      /\ \A i \in 1 .. Len(branches) : branches[i] \in Nodes
      <2>1. branches \in Seq(Nodes) BY <1>2, SuccessorsType DEF Handles
      <2> QED BY <2>1, LenProperties, ElementOfSeq
<1>4. \A i \in 1 .. Len(branches) : frames[i] \in CalmFrame
      <2>1. f.depth + 1 \in Nat /\ f.chain \in Seq(Workflows) /\ IsInjective(f.chain)
            BY <1>2 DEF Frame, GoodFrame
      <2> QED BY <1>3, <2>1, CalmNewFrames
<1>5. ids \in [1 .. Len(branches) -> Free]
      BY <1>3, FreshType DEF ParallelStart
<1>6. w \in CalmFrame
      <2>1. w \in GoodFrame BY <1>2, TryFrame DEF Places
      <2>2. w.at = "join" BY <1>2 DEF Frame
      <2> HIDE DEF w
      <2> QED BY <2>1, <2>2 DEF CalmFrame, Catching
<1>7. Spawn(t, w, ids, frames, "run") /\ status' = status
      BY DEF ParallelStart
<1> HIDE DEF ids, frames, f, branches, w
<1>8. stack[t] # <<>> BY <1>1
<1> QED BY <1>3, <1>4, <1>5, <1>6, <1>7, <1>8, CalmSpawn

LEMMA CalmBatchItem ==
    ASSUME IInv, Calm, NEW t \in Tasks, BatchItem(t)
    PROVE  Cause' \/ Calm'
<1> DEFINE f == Top(t)
           body == Successors[f.node]["body"]
           tooDeep == body # <<>> /\ f.depth + 1 > MaxDepth
           w == [f EXCEPT !.num = @ - 1]
           g == ListFrame(body, f.depth + 1, f.chain)
<1>1. CASE tooDeep BY <1>1 DEF BatchItem, Cause
<1>2. CASE ~tooDeep
      <2>1. stack[t] # <<>> /\ f.at = "batch" /\ f.num > 0 BY DEF BatchItem, At
      <2>2. f \in GoodFrame /\ f \in Frame /\ f.node \in Nodes
            BY <2>1, CalmTop DEF GoodFrame
      <2>3. w \in CalmFrame
            <3>1. f.num - 1 \in Nat BY <2>1, <2>2 DEF Frame
            <3>2. w \in Frame /\ w.at = f.at /\ w.node = f.node /\ w.chain = f.chain
                  BY <2>2, <3>1 DEF Frame
            <3>3. IsInjective(w.chain) BY <2>2, <3>2 DEF GoodFrame
            <3> HIDE DEF w
            <3> QED BY <2>1, <2>2, <3>2, <3>3 DEF GoodFrame, CalmFrame, Catching
      <2>4. g \in CalmFrame
            <3>1. f.depth + 1 \in Nat /\ f.chain \in Seq(Workflows) /\ IsInjective(f.chain)
                  BY <2>2 DEF Frame, GoodFrame
            <3>2. body \in Seq(Nodes) BY <2>2, SuccessorsType DEF Handles
            <3> QED BY <3>1, <3>2, CalmNewFrames
      <2>5. Fresh(1) \in [1 .. 1 -> Free] BY FreshType DEF BatchItem
      <2>6. Spawn(t, w, Fresh(1), <<g>>, "run") /\ status' = status
            BY <1>2 DEF BatchItem
      <2> HIDE DEF w, g
      <2>7. \A i \in 1 .. 1 : <<g>>[i] \in CalmFrame BY <2>4
      <2>8. stack[t] # <<>> BY <2>1
      <2> QED BY <2>3, <2>5, <2>6, <2>7, <2>8, CalmSpawn
<1> QED BY <1>1, <1>2

\* Collecting branches and items keeps the calm.
LEMMA CalmReap ==
    ASSUME IInv, Calm, NEW t \in Tasks, NEW ended, NEW s \in Seq(CalmFrame),
           Reap(t, ended, s, "run"), status' = status
    PROVE  Calm'
<1>1. stack' \in [Tasks -> Seq(CalmFrame)]
      BY EmptySeq DEF Reap, Calm
<1>2. \A c \in Tasks : mode'[c] \notin {"raise", "broken"} BY DEF Reap, Calm
<1> QED BY <1>1, <1>2 DEF Calm

LEMMA CalmCollect ==
    ASSUME IInv, Calm, NEW t \in Tasks, Join(t) \/ \E c \in Tasks : BatchItemEnd(t, c)
    PROVE  Calm'
<1>1. CASE Join(t)
      <2>1. stack[t] # <<>> /\ Top(t).at = "join" BY <1>1 DEF Join, At
      <2>2. Top(t).node \in Nodes BY <2>1, CalmTop DEF GoodFrame
      <2>3. "batch" \in Places \ (Catching \cup {"child"}) BY DEF Places, Catching
      <2>4. Append(Below(t), [Top(t) EXCEPT !.at = "batch", !.num = 0]) \in Seq(CalmFrame)
            BY <2>1, <2>2, <2>3, CalmReplaced
      <2> QED BY <1>1, <2>4, CalmReap DEF Join
<1>2. ASSUME NEW c \in Tasks, BatchItemEnd(t, c) PROVE Calm'
      <2> DEFINE left == IF ItemError[Top(t).node] = "stop" /\ mode[c] = "broken"
                         THEN 0 ELSE Top(t).num
                 f == [Top(t) EXCEPT !.num = left]
      <2>1. stack[t] # <<>> /\ Top(t).at = "batch" BY <1>2 DEF BatchItemEnd, At
      <2>2. Top(t) \in GoodFrame /\ Top(t) \in Frame /\ Top(t).node \in Nodes
            BY <2>1, CalmTop DEF GoodFrame
      <2>3. left \in Nat BY <2>2 DEF Frame
      <2>4. Reap(t, {c}, Append(Below(t), f), "run") /\ status' = status
            BY <1>2 DEF BatchItemEnd
      <2> HIDE DEF left
      <2>5. f \in Frame /\ f.at = Top(t).at /\ f.node = Top(t).node /\ f.chain = Top(t).chain
            BY <2>2, <2>3 DEF Frame
      <2>6. IsInjective(f.chain) BY <2>2, <2>5 DEF GoodFrame
      <2> HIDE DEF f
      <2>7. f \in CalmFrame
            BY <2>1, <2>2, <2>5, <2>6 DEF GoodFrame, CalmFrame, Catching
      <2>8. Append(Below(t), f) \in Seq(CalmFrame)
            BY <2>1, <2>7, CalmTop, ReplaceFrame DEF Below
      <2> QED BY <2>4, <2>8, CalmReap
<1> QED BY <1>1, <1>2

\* Every step of a coroutine keeps the calm or is a cause itself.
LEMMA CalmCoroutine ==
    ASSUME MergesFirst, IInv, Calm, NEW t \in Tasks, Step(t)
    PROVE  Cause' \/ Calm'
<1>1. ASSUME CalmMoves(t), status' = status PROVE Calm' BY <1>1, CalmStep
<1>2. CASE ListNext(t) BY <1>1, <1>2, CalmListNext DEF ListNext
<1>3. CASE Enter(t) BY <1>1, <1>3, CalmEnter DEF Enter
<1>4. ASSUME NEW kinds, Perform(t, kinds) PROVE Cause' \/ Calm'
      BY <1>1, <1>4, CalmExecutors DEF Perform
<1>5. CASE Choose(t) BY <1>1, <1>5, CalmExecutors DEF Choose
<1>6. CASE Filter(t) BY <1>1, <1>6, CalmExecutors DEF Filter
<1>7. CASE Respond(t) BY <1>1, <1>7, CalmExecutors DEF Respond
<1>8. CASE AwaitReturned(t) BY <1>1, <1>8, CalmExecutors DEF AwaitReturned
<1>9. CASE ChildEnd(t) BY <1>1, <1>9, CalmExecutors DEF ChildEnd
<1>10. CASE LoopStart(t) BY <1>1, <1>10, CalmLoops DEF LoopStart, Cause
<1>11. CASE LoopNext(t) BY <1>1, <1>11, CalmLoops DEF LoopNext, Cause
<1>12. CASE BatchStart(t) BY <1>1, <1>12, CalmLoops DEF BatchStart, Cause
<1>13. CASE GatherDone(t) BY <1>1, <1>13, CalmLoops DEF GatherDone, Cause
<1>14. CASE ChildStart(t) BY <1>1, <1>14, CalmChildStart DEF ChildStart
<1>15. CASE ParallelStart(t) BY <1>15, CalmParallelStart
<1>16. CASE BatchItem(t) BY <1>16, CalmBatchItem
<1>17. CASE Join(t) \/ \E c \in Tasks : BatchItemEnd(t, c) BY <1>17, CalmCollect
<1>18. CASE BranchEnd(t)
      <2>1. mode[t] = "ret" BY <1>18 DEF BranchEnd, Calm
      <2>2. mode' = [mode EXCEPT ![t] = "done"] /\ UNCHANGED <<stack, status>>
            BY <1>18, <2>1 DEF BranchEnd
      <2> QED BY <2>2 DEF Calm, IInv, TypeOK
<1> QED BY <1>2, <1>3, <1>4, <1>5, <1>6, <1>7, <1>8, <1>9, <1>10, <1>11, <1>12, <1>13,
           <1>14, <1>15, <1>16, <1>17, <1>18, CalmNoHandlers
        DEF Step, ExecAction, ExecStep, ExecErrorHandler

LEMMA CalmStart ==
    ASSUME IInv, Calm, Start
    PROVE  Calm'
<1>1. PICK s \in Starts :
         stack' = [stack EXCEPT ![Main] =
                     <<IF s = "trigger" THEN ListFrame(AfterTrigger[Root], 0, <<Root>>)
                       ELSE NodeFrame(s, 0, <<Root>>)>>]
      BY DEF Start
<1> DEFINE f == IF s = "trigger" THEN ListFrame(AfterTrigger[Root], 0, <<Root>>)
                ELSE NodeFrame(s, 0, <<Root>>)
<1>2. f \in CalmFrame
      <2>1. <<Root>> \in Seq(Workflows) /\ IsInjective(<<Root>>)
            BY GraphAssumption DEF IsInjective
      <2>2. AfterTrigger[Root] \in Seq(Nodes) /\ (s # "trigger" => s \in Nodes)
            BY GraphAssumption
      <2> QED BY <2>1, <2>2, CalmNewFrames
<1>3. stack' = [stack EXCEPT ![Main] = <<f>>] BY <1>1
<1> HIDE DEF f
<1>4. <<f>> \in Seq(CalmFrame) BY <1>2
<1>5. stack' \in [Tasks -> Seq(CalmFrame)] BY <1>3, <1>4 DEF Calm
<1>6. \A t \in Tasks : mode'[t] \notin {"raise", "broken"}
      BY DEF Start, Calm, IInv, TypeOK
<1> QED BY <1>5, <1>6 DEF Calm, Start

\* execute_workflow fails an execution only when an exception reached it.
LEMMA CalmFinish ==
    ASSUME IInv, Calm, Finish
    PROVE  Calm'
<1>1. status = "running" /\ stack[Main] = <<>> BY DEF Finish
<1>2. Main \in Tasks /\ mode[Main] = "ret"
      BY <1>1, GraphAssumption DEF IInv, Modes, Live, Calm
<1>3. status' = "success" /\ mode' = [mode EXCEPT ![Main] = "done"] /\ stack' = stack
      BY <1>2 DEF Finish
<1> QED BY <1>2, <1>3 DEF Calm, IInv, TypeOK

LEMMA CauseStep ==
    ASSUME MergesFirst, IInv, CauseInv, [Next]_vars
    PROVE  CauseInv'
<1>1. CASE UNCHANGED vars BY <1>1 DEF CauseInv, Cause, Calm, vars
<1>2. CASE Next /\ Cause BY <1>2, CausesStay DEF CauseInv, Cause
<1>3. CASE Calm
      <2>1. CASE Start BY <1>3, <2>1, CalmStart DEF CauseInv
      <2>2. CASE Finish BY <1>3, <2>2, CalmFinish DEF CauseInv
      <2>3. CASE GlobalTimeout BY <2>3 DEF GlobalTimeout, CauseInv, Cause
      <2>4. ASSUME NEW t \in Tasks, Step(t) PROVE CauseInv'
            BY <1>3, <2>4, CalmCoroutine DEF CauseInv
      <2>5. ASSUME NEW t \in Tasks, JoinTimeout(t) \/ ChildTimeout(t) PROVE CauseInv'
            BY <2>5 DEF JoinTimeout, ChildTimeout, CauseInv, Cause
      <2>6. CASE Done BY <1>1, <2>6 DEF Done
      <2> QED BY <1>1, <2>1, <2>2, <2>3, <2>4, <2>5, <2>6 DEF Next
<1> QED BY <1>1, <1>2, <1>3 DEF CauseInv

\* In a graph whose merge nodes have no incoming edges, an execution fails only
\* when an executor raised, the recursion limit was hit or a timeout expired. The
\* hypothesis is needed: a merge node behind another node fails every execution
\* that reaches it (run wf_merge).
THEOREM FailuresHaveCauses ==
    ASSUME MergesFirst
    PROVE  Spec => []FailureHasCause
<1>1. Init => CauseInv
      BY EmptySeq DEF Init, CauseInv, Calm
<1>2. IInv /\ CauseInv /\ [Next]_vars => CauseInv'
      BY CauseStep
<1>3. IInv /\ CauseInv => FailureHasCause
      BY DEF CauseInv, Cause, Calm, FailureHasCause
<1> QED BY <1>1, <1>2, <1>3, Invariant, PTL DEF Spec

=============================================================================

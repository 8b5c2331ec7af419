-------------------------- MODULE NexoAgentProofs --------------------------
(***************************************************************************)
(* Proofs about NexoAgent: its types, and that its queue implements Outbox,  *)
(* for any listings, limits and number of failures.                          *)
(***************************************************************************)
EXTENDS NexoAgent, SequenceTheorems, TLAPS

-----------------------------------------------------------------------------
(* Removing a row *)

\* RemoveAt, by which a row leaves the pending ones: the rows before it stay
\* and the ones behind it move up.
LEMMA RemoveAtProperties ==
    ASSUME NEW S, NEW s \in Seq(S), NEW i \in 1 .. Len(s)
    PROVE  /\ RemoveAt(s, i) \in Seq(S)
           /\ Len(RemoveAt(s, i)) = Len(s) - 1
           /\ \A j \in 1 .. Len(s) - 1 :
                 RemoveAt(s, i)[j] = IF j < i THEN s[j] ELSE s[j + 1]
<1> DEFINE a == SubSeq(s, 1, i - 1)
           b == SubSeq(s, i + 1, Len(s))
<1>1. Len(s) \in Nat /\ DOMAIN s = 1 .. Len(s)
      BY LenProperties
<1>2. /\ a \in Seq(S) /\ Len(a) = i - 1
      /\ \A j \in 1 .. Len(a) : a[j] = s[j]
      BY <1>1, SubSeqProperties
<1>3. /\ b \in Seq(S) /\ Len(b) = Len(s) - i
      /\ \A j \in 1 .. Len(b) : b[j] = s[i + j]
      <2>1. i + 1 \in 1 .. Len(s) + 1 /\ Len(s) \in i .. Len(s)
            BY <1>1
      <2>2. /\ b \in Seq(S)
            /\ Len(b) = IF i + 1 <= Len(s) THEN Len(s) - (i + 1) + 1 ELSE 0
            /\ \A j \in 1 .. Len(s) - (i + 1) + 1 : b[j] = s[(i + 1) + j - 1]
            BY <2>1, <1>1, SubSeqProperties
      <2> HIDE DEF b
      <2>3. Len(b) = Len(s) - i
            <3>1. CASE i + 1 <= Len(s)
                  <4>1. Len(s) - (i + 1) + 1 = Len(s) - i
                        BY <1>1
                  <4> QED BY <3>1, <4>1, <2>2
            <3>2. CASE ~ (i + 1 <= Len(s))
                  <4>1. \A n, k \in Int : k <= n /\ ~ (k + 1 <= n) => n - k = 0
                        OBVIOUS
                  <4>2. Len(s) \in Int /\ i \in Int /\ i <= Len(s)
                        BY <1>1
                  <4>3. Len(s) - i = 0
                        BY <3>2, <4>1, <4>2
                  <4> QED BY <3>2, <4>3, <2>2
            <3> QED BY <3>1, <3>2
      <2>4. ASSUME NEW j \in 1 .. Len(b) PROVE b[j] = s[i + j]
            <3>1. j \in 1 .. Len(s) - (i + 1) + 1 /\ (i + 1) + j - 1 = i + j
                  BY <2>3, <1>1
            <3> QED BY <3>1, <2>2
      <2> QED BY <2>2, <2>3, <2>4
<1>4. /\ a \o b \in Seq(S)
      /\ Len(a \o b) = Len(a) + Len(b)
      /\ \A j \in 1 .. Len(a) + Len(b) :
            (a \o b)[j] = IF j <= Len(a) THEN a[j] ELSE b[j - Len(a)]
      BY <1>2, <1>3, ConcatProperties
<1>5. RemoveAt(s, i) = a \o b
      BY DEF RemoveAt
<1> HIDE DEF a, b
<1>6. \A j \in 1 .. Len(s) - 1 : (a \o b)[j] = IF j < i THEN s[j] ELSE s[j + 1]
      <2> TAKE j \in 1 .. Len(s) - 1
      <2>1. CASE j < i
            BY <2>1, <1>1, <1>2, <1>3, <1>4
      <2>2. CASE ~ (j < i)
            <3>1. j - (i - 1) \in 1 .. Len(b) /\ i + (j - (i - 1)) = j + 1
                  BY <2>2, <1>1, <1>3
            <3>2. b[j - (i - 1)] = s[j + 1]
                  BY <3>1, <1>3
            <3> QED BY <2>2, <3>1, <3>2, <1>1, <1>2, <1>3, <1>4
      <2> QED BY <2>1, <2>2
<1>7. Len(a \o b) = Len(s) - 1
      BY <1>1, <1>2, <1>3, <1>4
<1> QED BY <1>4, <1>5, <1>6, <1>7, Zenon

-----------------------------------------------------------------------------
(* The inductive invariant *)

\* The rows that are left of a flush are rows of the queue.
Window ==
    at \in {"send", "mark"} =>
        left >= 1 /\ cursor >= 1 /\ cursor + left <= Len(queue) + 1

\* A row that is going to be marked as processed has been received.
Answered == at = "mark" /\ answer = "ok" => queue[cursor].seen

\* A row with MaxAttempts failures is no longer pending.
NotExhausted == \A i \in 1 .. Len(queue) : queue[i].tries < MaxAttempts

IInv == TypeOK /\ Window /\ Answered /\ NotExhausted

\* What an engine step does to the queue.
LEMMA RowAtCursor ==
    ASSUME IInv, at \in {"send", "mark"}
    PROVE  /\ cursor \in 1 .. Len(queue)
           /\ Len(queue) \in Nat
           /\ queue[cursor] \in Row
BY DEF IInv, TypeOK, Window

LEMMA InitInv == Init => IInv
BY AgentAssumption DEF Init, IInv, TypeOK, Window, Answered, NotExhausted, Versions

\* Forget and NextSource leave the flush.
LEMMA ForgetTyped ==
    ASSUME Forget
    PROVE  /\ source' \in 1 .. Len(Sources) /\ batch' \in Seq(Listed)
           /\ cursor' \in Nat /\ left' \in Nat /\ answer' = "none"
BY AgentAssumption DEF Forget

LEMMA NextSourceTyped ==
    ASSUME TypeOK, NextSource
    PROVE  /\ at' \in {"list", "flush"} /\ source' \in 1 .. Len(Sources)
           /\ batch' \in Seq(Listed)
           /\ cursor' \in Nat /\ left' \in Nat /\ answer' = answer /\ answer' \in
                 {"none", "ok", "rejected", "unreachable"}
BY AgentAssumption DEF NextSource, TypeOK

LEMMA FaultTyped ==
    ASSUME TypeOK, Fault \/ UNCHANGED faults
    PROVE  faults' \in 0 .. FaultBound
BY AgentAssumption DEF TypeOK, Fault

\* Steps that leave the queue alone and do not enter a flush.
LEMMA Quiet ==
    ASSUME IInv, UNCHANGED <<queue, cloud>>,
           at' \in {"off", "sleep", "list", "enqueue", "flush"},
           erp' \in [Records -> Versions], erpUp' \in BOOLEAN, linked' \in BOOLEAN,
           source' \in 1 .. Len(Sources), batch' \in Seq(Listed),
           cursor' \in Nat, left' \in Nat,
           answer' \in {"none", "ok", "rejected", "unreachable"},
           faults' \in 0 .. FaultBound
    PROVE  IInv'
BY DEF IInv, TypeOK, Window, Answered, NotExhausted

LEMMA ListingTyped ==
    ASSUME IInv, List PROVE IInv'
<1>1. TypeOK BY DEF IInv
<1>2. linked' \in BOOLEAN /\ UNCHANGED <<erp, erpUp, queue, cloud>>
      BY <1>1 DEF List, TypeOK
<1>3. CASE erpUp /\ at' = "enqueue" /\ UNCHANGED <<source, cursor, left, answer, faults>>
           /\ batch' = [i \in 1 .. Len(Sources[source]) |->
                          [rec |-> Sources[source][i], ver |-> erp[Sources[source][i]]]]
      <2>1. Sources[source] \in Seq(Records)
            BY <1>1, AgentAssumption DEF TypeOK
      <2>2. \A i \in 1 .. Len(Sources[source]) :
               [rec |-> Sources[source][i], ver |-> erp[Sources[source][i]]] \in Listed
            BY <1>1, <2>1, ElementOfSeq DEF TypeOK, Listed
      <2>3. batch' \in Seq(Listed)
            BY <1>3, <2>1, <2>2, IsASeq, LenProperties
      <2> QED BY <1>1, <1>2, <1>3, <2>3, Quiet DEF TypeOK
<1>4. CASE NextSource /\ IF erpUp THEN Fault ELSE UNCHANGED faults
      BY <1>1, <1>2, <1>4, NextSourceTyped, FaultTyped, Quiet DEF TypeOK
<1> QED BY <1>3, <1>4 DEF List

LEMMA EnqueueTyped ==
    ASSUME IInv, Enqueue PROVE IInv'
<1> DEFINE row == [rec |-> batch[1].rec, ver |-> batch[1].ver, tries |-> 0, seen |-> FALSE]
<1>1. TypeOK BY DEF IInv
<1>2. CASE /\ queue' = Append(queue, row) /\ batch' = Tail(batch)
           /\ UNCHANGED <<at, source, cursor, left, answer, faults>>
      <2>1. batch # <<>> /\ at = "enqueue" /\ UNCHANGED <<erp, erpUp, linked, cloud>>
            BY DEF Enqueue
      <2>2. batch[1] \in Listed /\ batch' \in Seq(Listed)
            BY <1>1, <1>2, <2>1, HeadTailProperties DEF TypeOK
      <2>3. row \in Row
            BY <2>2 DEF Row, Listed
      <2>4. /\ queue' \in Seq(Row)
            /\ Len(queue') = Len(queue) + 1
            /\ \A i \in 1 .. Len(queue) : queue'[i] = queue[i]
            /\ queue'[Len(queue) + 1] = row
            BY <1>1, <1>2, <2>3, AppendProperties DEF TypeOK
      <2>5. NotExhausted'
            <3>1. Len(queue) \in Nat
                  BY <1>1 DEF TypeOK
            <3>2. \A i \in 1 .. Len(queue) + 1 : i \in 1 .. Len(queue) \/ i = Len(queue) + 1
                  BY <3>1
            <3>3. row.tries < MaxAttempts
                  BY AgentAssumption
            <3>4. \A i \in 1 .. Len(queue) : queue'[i].tries < MaxAttempts
                  BY <2>4 DEF IInv, NotExhausted
            <3> QED BY <3>2, <3>3, <3>4, <2>4 DEF NotExhausted
      <2> QED BY <1>1, <1>2, <2>1, <2>2, <2>4, <2>5 DEF IInv, TypeOK, Window, Answered
<1>3. CASE Fault /\ NextSource /\ UNCHANGED queue
      BY <1>1, <1>3, NextSourceTyped, FaultTyped, Quiet DEF Enqueue, TypeOK
<1> QED BY <1>2, <1>3 DEF Enqueue
LEMMA GetPendingTyped ==
    ASSUME IInv, GetPending PROVE IInv'
<1>1. TypeOK BY DEF IInv
<1>2. UNCHANGED <<erp, erpUp, linked, queue, cloud>>
      BY DEF GetPending
<1>3. CASE /\ queue # <<>> /\ at' = "send" /\ cursor' = 1
           /\ left' = Lower(Limit, Len(queue))
           /\ UNCHANGED <<source, batch, answer, faults>>
      <2>1. Len(queue) \in Nat \ {0}
            BY <1>1, <1>3, EmptySeq DEF TypeOK
      <2>2. left' \in Nat /\ left' >= 1 /\ left' <= Len(queue)
            BY <1>3, <2>1, AgentAssumption DEF Lower
      <2> QED BY <1>1, <1>2, <1>3, <2>1, <2>2 DEF IInv, TypeOK, Window, Answered, NotExhausted
<1>4. CASE Sleep /\ (Fault \/ UNCHANGED faults)
      BY <1>1, <1>2, <1>4, ForgetTyped, FaultTyped, Quiet DEF Sleep, TypeOK
<1> QED BY <1>3, <1>4 DEF GetPending

\* The row at the cursor when the cloud has received it.
LEMMA ReceivedRow ==
    ASSUME IInv, at = "send", Received
    PROVE  /\ queue' \in Seq(Row)
           /\ Len(queue') = Len(queue)
           /\ NotExhausted'
           /\ queue'[cursor].seen
           /\ cloud' \in [Records -> Versions]
<1> DEFINE r == [queue[cursor] EXCEPT !.seen = TRUE]
<1>1. cursor \in 1 .. Len(queue) /\ queue[cursor] \in Row /\ queue \in Seq(Row)
      BY RowAtCursor DEF IInv, TypeOK
<1>2. r \in Row /\ r.seen /\ r.tries = queue[cursor].tries
      BY <1>1 DEF Row
<1>3. queue' = [queue EXCEPT ![cursor] = r]
      BY DEF Received
<1> HIDE DEF r
<1>4. /\ queue' \in Seq(Row)
      /\ Len(queue') = Len(queue)
      /\ \A j \in 1 .. Len(queue) : queue'[j] = IF j = cursor THEN r ELSE queue[j]
      BY <1>1, <1>2, <1>3, ExceptSeq
<1>5. NotExhausted'
      BY <1>1, <1>2, <1>4 DEF IInv, NotExhausted
<1>6. cloud' \in [Records -> Versions]
      BY <1>1 DEF Received, IInv, TypeOK, Row
<1> QED BY <1>1, <1>2, <1>4, <1>5, <1>6

LEMMA PostTyped ==
    ASSUME IInv, Post PROVE IInv'
<1>1. TypeOK BY DEF IInv
<1>2. /\ at = "send" /\ at' = "mark"
      /\ UNCHANGED <<erp, erpUp, linked, source, batch, cursor, left>>
      BY DEF Post
<1>3. CASE answer' = "ok" /\ Received /\ UNCHANGED faults
      BY <1>1, <1>2, <1>3, ReceivedRow DEF IInv, TypeOK, Window, Answered
<1>4. CASE answer' \in {"rejected", "unreachable"} /\ Fault /\ Received
      BY <1>1, <1>2, <1>4, ReceivedRow, FaultTyped DEF IInv, TypeOK, Window, Answered
<1>5. CASE answer' \in {"rejected", "unreachable"} /\ Fault /\ UNCHANGED <<queue, cloud>>
      BY <1>1, <1>2, <1>5, FaultTyped DEF IInv, TypeOK, Window, Answered, NotExhausted
<1> QED BY <1>3, <1>4, <1>5 DEF Post

\* Both ways in which mark_processed and mark_failed take a row out, or charge it.
LEMMA MarkedRow ==
    ASSUME IInv, at = "mark", MarkFailed \/ queue' = RemoveAt(queue, cursor)
    PROVE  /\ queue' \in Seq(Row)
           /\ Len(queue') \in {Len(queue), Len(queue) - 1}
           /\ NotExhausted'
<1>1. /\ cursor \in 1 .. Len(queue) /\ queue[cursor] \in Row /\ queue \in Seq(Row)
      /\ Len(queue) \in Nat
      BY RowAtCursor DEF IInv, TypeOK
<1>2. CASE queue' = RemoveAt(queue, cursor)
      <2>1. /\ queue' \in Seq(Row)
            /\ Len(queue') = Len(queue) - 1
            /\ \A j \in 1 .. Len(queue) - 1 :
                  queue'[j] = IF j < cursor THEN queue[j] ELSE queue[j + 1]
            BY <1>1, <1>2, RemoveAtProperties
      <2>2. \A j \in 1 .. Len(queue) - 1 : j \in 1 .. Len(queue) /\ j + 1 \in 1 .. Len(queue)
            BY <1>1
      <2>3. NotExhausted'
            BY <2>1, <2>2 DEF IInv, NotExhausted
      <2> QED BY <2>1, <2>3
<1>3. CASE /\ queue' = [queue EXCEPT ![cursor].tries = @ + 1]
           /\ ~ (queue[cursor].tries + 1 >= MaxAttempts)
      <2> DEFINE r == [queue[cursor] EXCEPT !.tries = @ + 1]
      <2>1. r \in Row /\ r.tries < MaxAttempts
            <3>1. /\ queue[cursor].tries \in Nat /\ queue[cursor].rec \in Records
                  /\ queue[cursor].ver \in Versions /\ queue[cursor].seen \in BOOLEAN
                  BY <1>1 DEF Row
            <3>2. r \in Row /\ r.tries = queue[cursor].tries + 1
                  BY <1>1, <3>1 DEF Row
            <3> QED BY <1>3, <3>1, <3>2, AgentAssumption
      <2>2. queue' = [queue EXCEPT ![cursor] = r]
            BY <1>3
      <2> HIDE DEF r
      <2>3. /\ queue' \in Seq(Row)
            /\ Len(queue') = Len(queue)
            /\ \A j \in 1 .. Len(queue) : queue'[j] = IF j = cursor THEN r ELSE queue[j]
            BY <1>1, <2>1, <2>2, ExceptSeq
      <2>4. NotExhausted'
            BY <2>1, <2>3 DEF IInv, NotExhausted
      <2> QED BY <2>3, <2>4
<1> QED BY <1>2, <1>3 DEF MarkFailed

LEMMA NextRowTyped ==
    ASSUME IInv, at = "mark", NextRow, UNCHANGED <<erp, erpUp, linked, cloud, faults>>,
           MarkFailed \/ queue' = RemoveAt(queue, cursor)
    PROVE  IInv'
<1>1. TypeOK BY DEF IInv
<1>2. /\ queue' \in Seq(Row) /\ NotExhausted'
      /\ Len(queue') \in {Len(queue), Len(queue) - 1}
      BY MarkedRow
<1>3. CASE left = 1
      BY <1>1, <1>2, <1>3, ForgetTyped DEF NextRow, Sleep, IInv, TypeOK, Window, Answered
<1>4. CASE left # 1
      <2>1. /\ at' = "send" /\ left' = left - 1 /\ answer' = "none"
            /\ cursor' = IF Len(queue') < Len(queue) THEN cursor ELSE cursor + 1
            /\ UNCHANGED <<source, batch>>
            BY <1>4 DEF NextRow
      <2>2. /\ left >= 1 /\ cursor >= 1 /\ cursor + left <= Len(queue) + 1
            /\ left \in Nat /\ cursor \in Nat /\ Len(queue) \in Nat
            BY <1>1 DEF IInv, Window, TypeOK
      <2>3. /\ left' \in Nat /\ cursor' \in Nat
            /\ left' >= 1 /\ cursor' >= 1 /\ cursor' + left' <= Len(queue') + 1
            BY <1>2, <1>4, <2>1, <2>2
      <2> QED BY <1>1, <1>2, <2>1, <2>3 DEF IInv, TypeOK, Window, Answered
<1> QED BY <1>3, <1>4

LEMMA MarkTyped ==
    ASSUME IInv, Mark PROVE IInv'
<1>1. TypeOK BY DEF IInv
<1>2. at = "mark" /\ UNCHANGED <<erp, erpUp, linked, cloud>>
      BY DEF Mark
<1>3. CASE (queue' = RemoveAt(queue, cursor) \/ MarkFailed) /\ NextRow /\ UNCHANGED faults
      BY <1>2, <1>3, NextRowTyped
<1>4. CASE MarkFailed /\ Sleep /\ UNCHANGED faults
      BY <1>1, <1>2, <1>4, MarkedRow, ForgetTyped DEF Sleep, IInv, TypeOK, Window, Answered
<1>5. CASE Fault /\ Sleep /\ UNCHANGED queue
      BY <1>1, <1>2, <1>5, ForgetTyped, FaultTyped, Quiet DEF Sleep, TypeOK
<1> QED BY <1>3, <1>4, <1>5 DEF Mark

LEMMA InvStep == IInv /\ [Next]_vars => IInv'
<1> SUFFICES ASSUME IInv, [Next]_vars PROVE IInv'
    OBVIOUS
<1>1. TypeOK BY DEF IInv
<1>2. CASE StartCycle
      BY <1>1, <1>2, Quiet DEF StartCycle, TypeOK
<1>3. CASE EndSource
      BY <1>1, <1>3, NextSourceTyped, Quiet DEF EndSource, TypeOK
<1>4. CASE HealthCheck \/ Reconnect
      BY <1>1, <1>4 DEF HealthCheck, Reconnect, engine, IInv, TypeOK, Window, Answered, NotExhausted
<1>5. CASE Crash
      BY <1>1, <1>5, FaultTyped, ForgetTyped, Quiet DEF Crash, TypeOK
<1>6. CASE Restart
      BY <1>1, <1>6, ForgetTyped, Quiet DEF Restart, Sleep, TypeOK
<1>7. CASE ErpFails \/ ErpRecovers
      BY <1>1, <1>7, FaultTyped
      DEF ErpFails, ErpRecovers, engine, IInv, TypeOK, Window, Answered, NotExhausted
<1>8. ASSUME NEW r \in Records, Change(r) PROVE IInv'
      <2>1. erp' \in [Records -> Versions]
            BY <1>1, <1>8, AgentAssumption DEF Change, TypeOK, Versions
      <2> QED BY <1>1, <1>8, <2>1
              DEF Change, engine, IInv, TypeOK, Window, Answered, NotExhausted
<1>9. CASE UNCHANGED vars
      BY <1>1, <1>9 DEF vars, engine, IInv, TypeOK, Window, Answered, NotExhausted
<1> QED BY <1>2, <1>3, <1>4, <1>5, <1>6, <1>7, <1>8, <1>9, ListingTyped, EnqueueTyped,
           GetPendingTyped, PostTyped, MarkTyped DEF Next, EngineStep

\* The invariant holds of every behaviour of the agent, whatever fails.
THEOREM Invariance == Spec => []IInv
BY InitInv, InvStep, PTL DEF Spec

\* Type correctness for every instance: the engine's cursor, counters and rows
\* stay in their ranges across crashes and failures.
THEOREM TypeCorrect == Spec => []TypeOK
<1>1. IInv => TypeOK
      BY DEF IInv
<1> QED BY <1>1, Invariance, PTL
-----------------------------------------------------------------------------
(* Refinement *)

\* Every step of the agent is a step of the outbox, or leaves it alone.
LEMMA OutboxStep == IInv /\ [Next]_vars => [Outbox!Next]_<<queue, cloud>>
<1> SUFFICES ASSUME IInv, [Next]_vars, ~ UNCHANGED <<queue, cloud>>
             PROVE  Outbox!Next
    OBVIOUS
<1>1. TypeOK BY DEF IInv
<1>2. CASE Enqueue
      <2>1. /\ batch # <<>> /\ UNCHANGED cloud
            /\ queue' = Append(queue, [rec |-> batch[1].rec, ver |-> batch[1].ver,
                                       tries |-> 0, seen |-> FALSE])
            BY <1>2 DEF Enqueue
      <2>2. batch[1].rec \in Records /\ batch[1].ver \in Versions
            <3>1. batch[1] \in Listed
                  BY <1>1, <2>1, HeadTailProperties DEF TypeOK
            <3> QED BY <3>1 DEF Listed
      <2>3. Outbox!Put(batch[1].rec, batch[1].ver)
            BY <2>1 DEF Outbox!Put
      <2> QED BY <2>2, <2>3 DEF Outbox!Next
<1>3. CASE Post
      <2>1. Received /\ at = "send"
            BY <1>3 DEF Post
      <2>2. Outbox!Receive(cursor)
            BY <2>1 DEF Received, Outbox!Receive
      <2> QED BY <2>1, <2>2, RowAtCursor DEF Outbox!Next
<1>4. CASE Mark
      <2>1. cursor \in 1 .. Len(queue) /\ UNCHANGED cloud /\ at = "mark"
            BY <1>4, RowAtCursor DEF Mark
      <2>2. CASE answer = "ok" /\ queue' = RemoveAt(queue, cursor)
            <3>1. Outbox!Settle(cursor)
                  BY <2>1, <2>2 DEF Outbox!Settle, Outbox!RemoveAt, RemoveAt, IInv, Answered
            <3> QED BY <2>1, <3>1 DEF Outbox!Next
      <2>3. CASE MarkFailed
            <3>1. /\ queue[cursor].tries \in Nat /\ MaxAttempts \in Nat
                  /\ queue[cursor].tries < MaxAttempts
                  BY <2>1, RowAtCursor, AgentAssumption DEF Row, IInv, NotExhausted
            <3>2. CASE queue[cursor].tries + 1 >= MaxAttempts
                  <4>1. queue[cursor].tries + 1 = MaxAttempts
                        BY <3>1, <3>2
                  <4>2. Outbox!GiveUp(cursor)
                        BY <2>1, <2>3, <3>2, <4>1
                        DEF MarkFailed, Outbox!GiveUp, Outbox!RemoveAt, RemoveAt
                  <4> QED BY <2>1, <4>2 DEF Outbox!Next
            <3>3. CASE ~ (queue[cursor].tries + 1 >= MaxAttempts)
                  <4>1. queue[cursor].tries + 1 < MaxAttempts
                        BY <3>1, <3>3
                  <4>2. Outbox!Fail(cursor)
                        BY <2>1, <2>3, <3>3, <4>1 DEF MarkFailed, Outbox!Fail
                  <4> QED BY <2>1, <4>2 DEF Outbox!Next
            <3> QED BY <3>2, <3>3
      <2> QED BY <1>4, <2>1, <2>2, <2>3 DEF Mark
<1>5. CASE ~ (Enqueue \/ Post \/ Mark)
      BY <1>5 DEF Next, EngineStep, StartCycle, List, EndSource, GetPending, HealthCheck,
                  Reconnect, Crash, Restart, ErpFails, ErpRecovers, Change, vars
<1> QED BY <1>2, <1>3, <1>4, <1>5

\* The agent's queue implements the outbox: whatever crashes, SQLite failures and
\* lost answers happen between the POST and the mark, a row leaves only after it
\* was received or after max_attempts failures, and nothing else changes it.
THEOREM QueueIsOutbox == Spec => Outbox!Safe
<1>1. Init => Outbox!Init
      BY DEF Init, Outbox!Init
<1> QED BY <1>1, OutboxStep, Invariance, PTL DEF Spec, Outbox!Safe
-----------------------------------------------------------------------------
(* The order of versions *)

\* The engine holds a batch only while it queues it.
BatchHeld == at # "enqueue" => batch = <<>>

\* Rows of a record are queued in the order of its versions; what is queued,
\* listed or received is no newer than the ERP.
Sorted ==
    /\ \A i, j \in 1 .. Len(queue) :
          i < j /\ queue[i].rec = queue[j].rec => queue[i].ver <= queue[j].ver
    /\ \A i \in 1 .. Len(queue) : queue[i].ver <= erp[queue[i].rec]
    /\ \A r \in Records : cloud[r] <= erp[r]

\* A batch is no older than the queue and the cloud.
BatchNewer ==
    \A k \in 1 .. Len(batch) :
        /\ batch[k].ver <= erp[batch[k].rec]
        /\ cloud[batch[k].rec] <= batch[k].ver
        /\ \A i \in 1 .. Len(queue) :
              queue[i].rec = batch[k].rec => queue[i].ver <= batch[k].ver
        /\ \A l \in 1 .. Len(batch) :
              batch[l].rec = batch[k].rec => batch[l].ver = batch[k].ver

\* The cloud has nothing newer than a row that was never tried.
Fresh ==
    \A i \in 1 .. Len(queue) :
        queue[i].tries = 0 /\ ~ queue[i].seen => cloud[queue[i].rec] <= queue[i].ver

\* The rows a flush has left behind were charged with an attempt.
Charged == at \in {"send", "mark"} => \A i \in 1 .. Len(queue) : i < cursor => queue[i].tries > 0

OInv == BatchHeld /\ Sorted /\ BatchNewer /\ Fresh /\ Charged
LEMMA OrderInit == Init => OInv
BY AgentAssumption DEF Init, OInv, BatchHeld, Sorted, BatchNewer, Fresh, Charged

\* Versions are numbers.
LEMMA Numbers ==
    ASSUME TypeOK
    PROVE  /\ \A r \in Records : erp[r] \in Nat /\ cloud[r] \in Nat
           /\ Len(queue) \in Nat /\ Len(batch) \in Nat
           /\ \A i \in 1 .. Len(queue) :
                 /\ queue[i] \in Row /\ queue[i].rec \in Records
                 /\ queue[i].ver \in Nat /\ queue[i].tries \in Nat
           /\ \A k \in 1 .. Len(batch) : batch[k].rec \in Records /\ batch[k].ver \in Nat
<1>1. Versions \subseteq Nat
      BY AgentAssumption DEF Versions
<1>2. \A i \in 1 .. Len(queue) : queue[i] \in Row
      BY ElementOfSeq DEF TypeOK
<1>3. \A k \in 1 .. Len(batch) : batch[k] \in Listed
      BY ElementOfSeq DEF TypeOK
<1>4. \A i \in 1 .. Len(queue) :
         queue[i].rec \in Records /\ queue[i].ver \in Nat /\ queue[i].tries \in Nat
      BY <1>1, <1>2 DEF Row
<1>5. \A k \in 1 .. Len(batch) : batch[k].rec \in Records /\ batch[k].ver \in Nat
      BY <1>1, <1>3 DEF Listed
<1>6. Len(queue) \in Nat /\ Len(batch) \in Nat
      BY LenProperties DEF TypeOK
<1>7. \A r \in Records : erp[r] \in Nat /\ cloud[r] \in Nat
      BY <1>1 DEF TypeOK
<1> QED BY <1>2, <1>4, <1>5, <1>6, <1>7

\* Steps that keep all data and hold neither a batch nor a flush.
LEMMA OrderQuiet ==
    ASSUME OInv, UNCHANGED <<erp, queue, cloud>>, batch' = <<>>, at' \notin {"send", "mark"}
    PROVE  OInv'
BY DEF OInv, BatchHeld, Sorted, BatchNewer, Fresh, Charged

LEMMA OrderList ==
    ASSUME IInv, OInv, List PROVE OInv'
<1>1. TypeOK /\ UNCHANGED <<erp, queue, cloud>>
      BY DEF IInv, List
<1>2. CASE NextSource
      <2>1. batch' = <<>> /\ at' \notin {"send", "mark"}
            BY <1>2 DEF NextSource
      <2> QED BY <1>1, <2>1, OrderQuiet
<1>3. CASE /\ at' = "enqueue"
           /\ batch' = [i \in 1 .. Len(Sources[source]) |->
                          [rec |-> Sources[source][i], ver |-> erp[Sources[source][i]]]]
      <2> DEFINE n == Len(Sources[source])
      <2>1. Sources[source] \in Seq(Records)
            BY <1>1, AgentAssumption DEF TypeOK
      <2>2. n \in Nat /\ \A i \in 1 .. n : Sources[source][i] \in Records
            BY <2>1, LenProperties, ElementOfSeq
      <2>3. Len(batch') = n
            BY <1>3, <2>2
      <2>4. \A k \in 1 .. n : batch'[k].rec \in Records /\ batch'[k].ver = erp[batch'[k].rec]
            BY <1>3, <2>2
      <2> HIDE DEF n
      <2>5. BatchNewer'
            BY <1>1, <2>3, <2>4, Numbers DEF BatchNewer, OInv, Sorted
      <2> QED BY <1>1, <1>3, <2>5 DEF OInv, BatchHeld, Sorted, Fresh, Charged
<1> QED BY <1>2, <1>3 DEF List

LEMMA OrderEnqueue ==
    ASSUME IInv, OInv, Enqueue PROVE OInv'
<1> DEFINE row == [rec |-> batch[1].rec, ver |-> batch[1].ver, tries |-> 0, seen |-> FALSE]
<1>1. /\ TypeOK /\ batch # <<>> /\ at = "enqueue" /\ UNCHANGED <<erp, cloud>>
      /\ queue \in Seq(Row) /\ batch \in Seq(Listed)
      BY DEF IInv, Enqueue, TypeOK
<1>2. CASE NextSource /\ UNCHANGED queue
      <2>1. batch' = <<>> /\ at' \notin {"send", "mark"}
            BY <1>2 DEF NextSource
      <2> QED BY <1>1, <1>2, <2>1, OrderQuiet
<1>3. CASE queue' = Append(queue, row) /\ batch' = Tail(batch) /\ UNCHANGED at
      <2>1. /\ Len(queue') = Len(queue) + 1
            /\ \A i \in 1 .. Len(queue) : queue'[i] = queue[i]
            /\ queue'[Len(queue) + 1] = row
            BY <1>1, <1>3, AppendProperties
      <2>2. /\ Len(batch) \in Nat \ {0} /\ Len(batch') = Len(batch) - 1
            /\ \A k \in 1 .. Len(batch) - 1 : batch'[k] = batch[k + 1]
            BY <1>1, <1>3, EmptySeq, HeadTailProperties
      <2>3. 1 \in 1 .. Len(batch)
            BY <2>2
      <2>4. /\ row.rec = batch[1].rec /\ row.ver = batch[1].ver /\ row.tries = 0 /\ ~ row.seen
            /\ row.rec \in Records /\ row.ver \in Nat
            BY <1>1, <2>3, Numbers
      <2> HIDE DEF row
      <2>5. \A i \in 1 .. Len(queue') : i \in 1 .. Len(queue) \/ i = Len(queue) + 1
            BY <1>1, <2>1, Numbers
      <2>6. \A k \in 1 .. Len(batch') : k + 1 \in 1 .. Len(batch) /\ batch'[k] = batch[k + 1]
            BY <2>2
      <2>7. /\ row.ver <= erp[row.rec] /\ cloud[row.rec] <= row.ver
            /\ \A i \in 1 .. Len(queue) : queue[i].rec = row.rec => queue[i].ver <= row.ver
            /\ \A l \in 1 .. Len(batch) : batch[l].rec = row.rec => batch[l].ver = row.ver
            BY <2>3, <2>4 DEF OInv, BatchNewer
      <2>8. Sorted'
            <3>1. ASSUME NEW i \in 1 .. Len(queue'), NEW j \in 1 .. Len(queue'),
                         i < j, queue'[i].rec = queue'[j].rec
                  PROVE  queue'[i].ver <= queue'[j].ver
                  <4>1. i \in 1 .. Len(queue)
                        BY <1>1, <2>1, <3>1, Numbers
                  <4>2. CASE j \in 1 .. Len(queue)
                        BY <2>1, <3>1, <4>1, <4>2 DEF OInv, Sorted
                  <4>3. CASE j = Len(queue) + 1
                        BY <2>1, <2>7, <3>1, <4>1, <4>3
                  <4> QED BY <2>5, <4>2, <4>3
            <3>2. \A i \in 1 .. Len(queue') : queue'[i].ver <= erp[queue'[i].rec]
                  BY <2>1, <2>5, <2>7 DEF OInv, Sorted
            <3> QED BY <1>1, <3>1, <3>2 DEF OInv, Sorted
      <2>9. BatchNewer'
            <3> SUFFICES ASSUME NEW k \in 1 .. Len(batch')
                         PROVE  /\ batch'[k].ver <= erp[batch'[k].rec]
                                /\ cloud[batch'[k].rec] <= batch'[k].ver
                                /\ \A i \in 1 .. Len(queue') :
                                      queue'[i].rec = batch'[k].rec => queue'[i].ver <= batch'[k].ver
                                /\ \A l \in 1 .. Len(batch') :
                                      batch'[l].rec = batch'[k].rec => batch'[l].ver = batch'[k].ver
                BY <1>1 DEF BatchNewer
            <3>1. k + 1 \in 1 .. Len(batch) /\ batch'[k] = batch[k + 1]
                  BY <2>6
            <3>2. row.rec = batch[k + 1].rec => row.ver <= batch[k + 1].ver
                  BY <2>4, <2>7, <3>1
            <3>3. \A i \in 1 .. Len(queue') :
                     queue'[i].rec = batch'[k].rec => queue'[i].ver <= batch'[k].ver
                  BY <2>1, <2>5, <3>1, <3>2 DEF OInv, BatchNewer
            <3> QED BY <2>6, <3>1, <3>3 DEF OInv, BatchNewer
      <2>10. Fresh'
            BY <1>1, <2>1, <2>5, <2>7 DEF OInv, Fresh
      <2> QED BY <1>1, <1>3, <2>8, <2>9, <2>10 DEF OInv, BatchHeld, Charged
<1> QED BY <1>2, <1>3 DEF Enqueue
LEMMA OrderPost ==
    ASSUME IInv, OInv, Post PROVE OInv'
<1>1. /\ TypeOK /\ at = "send" /\ at' = "mark" /\ batch = <<>>
      /\ UNCHANGED <<erp, batch, cursor>>
      BY DEF IInv, OInv, BatchHeld, Post
<1>2. cursor \in 1 .. Len(queue) /\ queue[cursor] \in Row
      BY <1>1, RowAtCursor
<1>3. CASE UNCHANGED <<queue, cloud>>
      BY <1>1, <1>3 DEF OInv, BatchHeld, Sorted, BatchNewer, Fresh, Charged
<1>4. CASE Received
      <2> DEFINE c == queue[cursor]
                 r == [queue[cursor] EXCEPT !.seen = TRUE]
      <2>1. /\ r \in Row /\ r.seen
            /\ r.rec = c.rec /\ r.ver = c.ver /\ r.tries = c.tries
            BY <1>2 DEF Row
      <2>2. queue \in Seq(Row) /\ queue' = [queue EXCEPT ![cursor] = r]
            BY <1>1, <1>4 DEF Received, TypeOK
      <2>3. cloud' = [cloud EXCEPT ![c.rec] = c.ver]
            BY <1>4 DEF Received
      <2>4. /\ c.rec \in Records /\ c.ver \in Nat
            /\ DOMAIN cloud = Records
            BY <1>1, <1>2, Numbers DEF TypeOK
      <2> HIDE DEF r, c
      <2>5. /\ Len(queue') = Len(queue)
            /\ \A j \in 1 .. Len(queue) : queue'[j] = IF j = cursor THEN r ELSE queue[j]
            BY <1>2, <2>1, <2>2, ExceptSeq
      <2>6. \A j \in 1 .. Len(queue) :
               /\ queue'[j].rec = queue[j].rec /\ queue'[j].ver = queue[j].ver
               /\ queue'[j].tries = queue[j].tries
               /\ queue[j].seen => queue'[j].seen
            BY <2>1, <2>5 DEF c
      <2>7. \A q \in Records : cloud'[q] = IF q = c.rec THEN c.ver ELSE cloud[q]
            BY <2>3, <2>4
      <2>8. c.ver <= erp[c.rec]
            BY <1>2 DEF c, OInv, Sorted
      <2>9. Sorted'
            BY <1>1, <2>5, <2>6, <2>7, <2>8 DEF OInv, Sorted
      <2>10. Fresh'
            <3> SUFFICES ASSUME NEW i \in 1 .. Len(queue), queue'[i].tries = 0, ~ queue'[i].seen
                         PROVE  cloud'[queue'[i].rec] <= queue'[i].ver
                BY <2>5 DEF Fresh
            <3>1. i # cursor /\ queue'[i] = queue[i] /\ queue[i].rec \in Records
                  BY <1>1, <1>2, <2>1, <2>5, Numbers
            <3>2. cloud[queue[i].rec] <= queue[i].ver
                  BY <3>1 DEF OInv, Fresh
            <3>3. ~ (i < cursor)
                  BY <1>1, <3>1, Numbers DEF OInv, Charged
            <3>4. cursor < i
                  BY <1>2, <3>1, <3>3
            <3>5. queue[i].rec = c.rec => c.ver <= queue[i].ver
                  BY <1>2, <3>4 DEF c, OInv, Sorted
            <3> QED BY <2>7, <3>1, <3>2, <3>5
      <2>11. Charged'
            BY <1>1, <2>5, <2>6 DEF OInv, Charged
      <2> QED BY <1>1, <2>9, <2>10, <2>11 DEF OInv, BatchHeld, BatchNewer
<1> QED BY <1>3, <1>4 DEF Post

\* Marking keeps the order of the rows that stay.
LEMMA OrderMarked ==
    ASSUME IInv, OInv, at = "mark", UNCHANGED <<erp, cloud>>, batch' = <<>>,
           MarkFailed \/ queue' = RemoveAt(queue, cursor)
    PROVE  Sorted' /\ BatchNewer' /\ Fresh'
<1>1. /\ TypeOK /\ queue \in Seq(Row) /\ Len(queue) \in Nat
      /\ cursor \in 1 .. Len(queue) /\ queue[cursor] \in Row
      BY RowAtCursor DEF IInv, TypeOK
<1>2. BatchNewer'
      BY DEF BatchNewer
<1>3. CASE queue' = RemoveAt(queue, cursor)
      <2> DEFINE f(j) == IF j < cursor THEN j ELSE j + 1
      <2>1. /\ Len(queue') = Len(queue) - 1
            /\ \A j \in 1 .. Len(queue) - 1 :
                  queue'[j] = IF j < cursor THEN queue[j] ELSE queue[j + 1]
            BY <1>1, <1>3, RemoveAtProperties
      <2>2. \A j \in 1 .. Len(queue') : f(j) \in 1 .. Len(queue) /\ queue'[j] = queue[f(j)]
            BY <1>1, <2>1
      <2>3. \A i, j \in 1 .. Len(queue') : i < j => f(i) < f(j)
            BY <1>1, <2>1
      <2> HIDE DEF f
      <2>4. Sorted'
            BY <2>2, <2>3 DEF OInv, Sorted
      <2>5. Fresh'
            BY <2>2 DEF OInv, Fresh
      <2> QED BY <1>2, <2>4, <2>5
<1>4. CASE queue' = [queue EXCEPT ![cursor].tries = @ + 1]
      <2> DEFINE r == [queue[cursor] EXCEPT !.tries = @ + 1]
      <2>1. queue[cursor].tries \in Nat
            BY <1>1 DEF Row
      <2>2. /\ r \in Row /\ r.tries = queue[cursor].tries + 1
            /\ r.rec = queue[cursor].rec /\ r.ver = queue[cursor].ver
            /\ r.seen = queue[cursor].seen
            BY <1>1, <2>1 DEF Row
      <2>3. queue' = [queue EXCEPT ![cursor] = r]
            BY <1>4
      <2> HIDE DEF r
      <2>4. /\ Len(queue') = Len(queue)
            /\ \A j \in 1 .. Len(queue) : queue'[j] = IF j = cursor THEN r ELSE queue[j]
            BY <1>1, <2>2, <2>3, ExceptSeq
      <2>5. \A j \in 1 .. Len(queue) :
               queue'[j].rec = queue[j].rec /\ queue'[j].ver = queue[j].ver
            BY <2>2, <2>4
      <2>6. \A j \in 1 .. Len(queue) :
               queue'[j].tries = 0 /\ ~ queue'[j].seen => queue[j].tries = 0 /\ ~ queue[j].seen
            BY <2>1, <2>2, <2>4
      <2>7. Sorted'
            BY <2>4, <2>5 DEF OInv, Sorted
      <2>8. Fresh'
            BY <2>4, <2>5, <2>6 DEF OInv, Fresh
      <2> QED BY <1>2, <2>7, <2>8
<1> QED BY <1>3, <1>4 DEF MarkFailed

\* The flush goes on behind a row that was charged, or at the place of one that
\* left.
LEMMA OrderNextRow ==
    ASSUME IInv, OInv, at = "mark", NextRow, left # 1,
           MarkFailed \/ queue' = RemoveAt(queue, cursor)
    PROVE  Charged'
<1>1. /\ TypeOK /\ queue \in Seq(Row) /\ Len(queue) \in Nat
      /\ cursor \in 1 .. Len(queue) /\ queue[cursor] \in Row
      BY RowAtCursor DEF IInv, TypeOK
<1>2. cursor' = IF Len(queue') < Len(queue) THEN cursor ELSE cursor + 1
      BY DEF NextRow
<1>3. \A i \in 1 .. Len(queue) : i < cursor => queue[i].tries > 0
      BY DEF OInv, Charged
<1>4. CASE queue' = RemoveAt(queue, cursor)
      <2>1. /\ Len(queue') = Len(queue) - 1
            /\ \A j \in 1 .. Len(queue) - 1 :
                  queue'[j] = IF j < cursor THEN queue[j] ELSE queue[j + 1]
            BY <1>1, <1>4, RemoveAtProperties
      <2>2. cursor' = cursor
            BY <1>1, <1>2, <2>1
      <2> QED BY <1>1, <1>3, <2>1, <2>2 DEF Charged
<1>5. CASE queue' = [queue EXCEPT ![cursor].tries = @ + 1]
      <2> DEFINE r == [queue[cursor] EXCEPT !.tries = @ + 1]
      <2>1. queue[cursor].tries \in Nat
            BY <1>1 DEF Row
      <2>2. r \in Row /\ r.tries > 0
            BY <1>1, <2>1 DEF Row
      <2>3. queue' = [queue EXCEPT ![cursor] = r]
            BY <1>5
      <2> HIDE DEF r
      <2>4. /\ Len(queue') = Len(queue)
            /\ \A j \in 1 .. Len(queue) : queue'[j] = IF j = cursor THEN r ELSE queue[j]
            BY <1>1, <2>2, <2>3, ExceptSeq
      <2>5. cursor' = cursor + 1
            BY <1>1, <1>2, <2>4
      <2> QED BY <1>1, <1>3, <2>2, <2>4, <2>5 DEF Charged
<1> QED BY <1>4, <1>5 DEF MarkFailed

LEMMA OrderMark ==
    ASSUME IInv, OInv, Mark PROVE OInv'
<1>1. at = "mark" /\ batch = <<>> /\ UNCHANGED <<erp, cloud>>
      BY DEF Mark, OInv, BatchHeld
<1>2. CASE UNCHANGED queue /\ Sleep
      <2>1. batch' = <<>> /\ at' \notin {"send", "mark"}
            BY <1>2 DEF Sleep, Forget
      <2> QED BY <1>1, <1>2, <2>1, OrderQuiet
<1>3. CASE (queue' = RemoveAt(queue, cursor) \/ MarkFailed) /\ Sleep
      <2>1. batch' = <<>> /\ at' = "sleep"
            BY <1>3 DEF Sleep, Forget
      <2> QED BY <1>1, <1>3, <2>1, OrderMarked DEF OInv, BatchHeld, Charged
<1>4. CASE (queue' = RemoveAt(queue, cursor) \/ MarkFailed) /\ NextRow /\ left # 1
      <2>1. batch' = <<>> /\ at' = "send"
            BY <1>1, <1>4 DEF NextRow
      <2> QED BY <1>1, <1>4, <2>1, OrderMarked, OrderNextRow DEF OInv, BatchHeld
<1> QED BY <1>2, <1>3, <1>4 DEF Mark, NextRow
LEMMA OrderChange ==
    ASSUME IInv, OInv, NEW r \in Records, Change(r) PROVE OInv'
<1>1. /\ TypeOK /\ erp' = [erp EXCEPT ![r] = @ + 1]
      /\ UNCHANGED <<at, batch, queue, cursor, cloud>>
      BY DEF IInv, Change, engine
<1>2. \A q \in Records : erp'[q] \in Nat /\ erp[q] <= erp'[q]
      BY <1>1, Numbers DEF TypeOK
<1>3. Sorted'
      BY <1>1, <1>2, Numbers DEF OInv, Sorted
<1>4. BatchNewer'
      BY <1>1, <1>2, Numbers DEF OInv, BatchNewer
<1> QED BY <1>1, <1>3, <1>4 DEF OInv, BatchHeld, Fresh, Charged

LEMMA OrderStep == IInv /\ OInv /\ [Next]_vars => OInv'
<1> SUFFICES ASSUME IInv, OInv, [Next]_vars PROVE OInv'
    OBVIOUS
<1>1. CASE StartCycle
      BY <1>1, OrderQuiet DEF StartCycle, OInv, BatchHeld
<1>2. CASE EndSource
      BY <1>2, OrderQuiet DEF EndSource, NextSource
<1>3. CASE GetPending
      <2>1. at = "flush" /\ batch = <<>> /\ UNCHANGED <<erp, queue, cloud>>
            BY <1>3 DEF GetPending, OInv, BatchHeld
      <2>2. CASE at' = "send" /\ cursor' = 1 /\ UNCHANGED batch
            <3>1. Charged'
                  BY <2>1, <2>2 DEF Charged
            <3> QED BY <2>1, <2>2, <3>1 DEF OInv, BatchHeld, Sorted, BatchNewer, Fresh
      <2>3. CASE Sleep
            BY <2>1, <2>3, OrderQuiet DEF Sleep, Forget
      <2> QED BY <1>3, <2>2, <2>3 DEF GetPending
<1>4. CASE HealthCheck \/ Reconnect \/ ErpFails \/ ErpRecovers \/ UNCHANGED vars
      <2>1. UNCHANGED <<erp, at, batch, queue, cursor, cloud>>
            BY <1>4 DEF HealthCheck, Reconnect, ErpFails, ErpRecovers, vars, engine
      <2> QED BY <2>1 DEF OInv, BatchHeld, Sorted, BatchNewer, Fresh, Charged
<1>5. CASE Crash \/ Restart
      BY <1>5, OrderQuiet DEF Crash, Restart, Sleep, Forget
<1> QED BY <1>1, <1>2, <1>3, <1>4, <1>5, OrderList, OrderEnqueue, OrderPost, OrderMark,
           OrderChange DEF Next, EngineStep

\* A flush sends the oldest rows first and leaves only charged rows behind: for
\* any listings and failures, an older version follows a newer one at the cloud
\* only when its row was tried before.
THEOREM GoesBackByRetry == Spec => OnlyRetriesGoBack
<1> DEFINE P == \A r \in Records : cloud'[r] < cloud[r] =>
                   queue[cursor].tries > 0 \/ queue[cursor].seen
<1>1. IInv /\ OInv /\ [Next]_vars => [P]_vars
      <2> SUFFICES ASSUME IInv, OInv, [Next]_vars, ~ UNCHANGED vars,
                          NEW r \in Records, cloud'[r] < cloud[r],
                          ~ (queue[cursor].tries > 0),
                          ~ queue[cursor].seen
                   PROVE  FALSE
          BY DEF vars
      <2>1. TypeOK /\ cloud[r] \in Nat
            BY Numbers DEF IInv
      <2>2. cloud' # cloud
            BY <2>1
      <2>3. Received /\ at = "send"
            BY <2>2 DEF Next, EngineStep, StartCycle, List, Enqueue, EndSource, GetPending, Post,
                        Mark, HealthCheck, Reconnect, Crash, Restart, ErpFails, ErpRecovers,
                        Change, vars
      <2>4. /\ cursor \in 1 .. Len(queue) /\ queue[cursor].rec \in Records
            /\ queue[cursor].ver \in Nat /\ queue[cursor].tries \in Nat
            BY <2>1, <2>3, RowAtCursor, Numbers
      <2>5. cloud[queue[cursor].rec] <= queue[cursor].ver
            BY <2>4 DEF OInv, Fresh
      <2>6. cloud' = [cloud EXCEPT ![queue[cursor].rec] = queue[cursor].ver]
            BY <2>3 DEF Received
      <2>7. cloud'[r] = IF r = queue[cursor].rec THEN queue[cursor].ver ELSE cloud[r]
            BY <2>1, <2>4, <2>6 DEF TypeOK
      <2> QED BY <2>1, <2>4, <2>5, <2>7
<1>2. Spec => []OInv
      BY OrderInit, OrderStep, Invariance, PTL DEF Spec
<1>3. [][P]_vars => OnlyRetriesGoBack
      BY DEF OnlyRetriesGoBack
<1> QED BY <1>1, <1>2, <1>3, Invariance, PTL DEF Spec
=============================================================================

----------------------------- MODULE KafkaProofs -----------------------------
(***************************************************************************)
(* Proofs about KafkaBridge, for any number of replicas, partitions,         *)
(* messages and tenants, and any faults.                                     *)
(***************************************************************************)
EXTENDS KafkaBridge, TLAPS

Busy == {"handle", "tenants", "commit"}

\* A bridge holds a message exactly while it is busy with it; tenants are
\* served for events only, and the commit follows an outcome.
Holding(b) ==
    /\ msg[b] # None <=> pc[b] \in Busy
    /\ pc[b] = "commit" => outcome[msg[b]] # "none"
    /\ pc[b] = "handle" => KindOf[msg[b]] # "poison"
    /\ pc[b] = "tenants" => KindOf[msg[b]] = "event"

\* What a member has been given since the last rebalance has an outcome, except
\* for the message that it holds.
GivenHandled(b) ==
    \A m \in Messages : m[2] < position[b][m[1]] => outcome[m] # "none" \/ msg[b] = m

\* No owner is behind the committed offset.
OwnerAhead == \A p \in Partitions : owner[p] # None => committed[p] <= position[owner[p]][p]

\* The handler has not reached a tenant, has served it in its session, or has
\* logged its failure.
Serving(b) ==
    pc[b] = "tenants" =>
        \A t \in Tenants : t \in todo[b] \/ t \in pending[b] \/ <<msg[b], t>> \in failed

IInv ==
    /\ TypeOK
    /\ CommittedWasHandled
    /\ TenantsSettled
    /\ OwnerAhead
    /\ \A b \in Bridges : Holding(b) /\ GivenHandled(b) /\ Serving(b)

LEMMA InitInv == Init => IInv
<1> SUFFICES ASSUME Init PROVE IInv
    OBVIOUS
<1>1. TypeOK
      BY BridgeAssumption DEF Init, TypeOK, Places
<1>2. \A m \in Messages : m[1] \in Partitions /\ m[2] \in 1 .. Last
      BY DEF Messages
<1>3. CommittedWasHandled /\ TenantsSettled /\ OwnerAhead
      BY <1>2, BridgeAssumption DEF Init, CommittedWasHandled, TenantsSettled, OwnerAhead
<1>4. ASSUME NEW b \in Bridges PROVE Holding(b) /\ GivenHandled(b) /\ Serving(b)
      BY <1>2, BridgeAssumption DEF Init, Holding, GivenHandled, Serving, Busy
<1> QED BY <1>1, <1>3, <1>4 DEF IInv

\* A rebalance: positions start at the committed offsets, below which everything
\* was handled.
LEMMA RebalanceStep ==
    ASSUME IInv, NEW members \in SUBSET Bridges, Rebalance(members),
           UNCHANGED <<committed, outcome>>
    PROVE  /\ owner' \in [Partitions -> Bridges \cup {None}]
           /\ position' \in [Bridges -> [Partitions -> 1 .. Last + 1]]
           /\ OwnerAhead' /\ \A b \in Bridges : GivenHandled(b)'
<1>1. committed \in [Partitions -> 1 .. Last + 1] /\ Last \in Nat
      BY BridgeAssumption DEF IInv, TypeOK
<1>2. owner' \in [Partitions -> Bridges \cup {None}]
      BY DEF Rebalance
<1>3. position' \in [Bridges -> [Partitions -> 1 .. Last + 1]]
      BY <1>1 DEF Rebalance
<1>4. \A b \in Bridges : position'[b] = committed
      BY DEF Rebalance
<1>5. \A p \in Partitions : owner'[p] # None => owner'[p] \in Bridges /\ committed[p] <= committed[p]
      BY <1>1, <1>2
<1>6. OwnerAhead'
      BY <1>4, <1>5 DEF OwnerAhead
<1>7. \A b \in Bridges : GivenHandled(b)'
      BY <1>4 DEF IInv, CommittedWasHandled, GivenHandled
<1> QED BY <1>2, <1>3, <1>6, <1>7

\* The fields of one bridge.
LEMMA Fields ==
    ASSUME IInv, NEW b \in Bridges
    PROVE  /\ Holding(b) /\ GivenHandled(b) /\ Serving(b)
           /\ msg[b] \in Messages \cup {None} /\ None \notin Messages
           /\ pc[b] \in Busy => msg[b] \in Messages
BY BridgeAssumption DEF IInv, TypeOK, Holding

LEMMA FaultStep ==
    ASSUME IInv, Fault \/ UNCHANGED faults
    PROVE  faults' \in 0 .. FaultBound
BY BridgeAssumption DEF IInv, TypeOK, Fault

\* Outcomes are never taken back, and logged failures stay logged.
Grows ==
    /\ \A m \in Messages : outcome[m] # "none" => outcome'[m] # "none"
    /\ failed \subseteq failed'

\* A bridge that a step of another one does not touch.
LEMMA KeepHolding ==
    ASSUME IInv, NEW e \in Bridges, pc'[e] = pc[e], msg'[e] = msg[e],
           todo'[e] = todo[e], pending'[e] = pending[e], Grows
    PROVE  Holding(e)' /\ Serving(e)'
<1>1. pc[e] = "commit" => outcome'[msg[e]] # "none"
      BY Fields DEF Grows, Holding, Busy
<1> QED BY <1>1, Fields DEF Grows, Holding, Serving

LEMMA KeepGiven ==
    ASSUME IInv, NEW e \in Bridges, position'[e] = position[e], Grows,
           msg'[e] = msg[e] \/ (msg[e] \in Messages => outcome'[msg[e]] # "none")
    PROVE  GivenHandled(e)'
BY Fields DEF Grows, GivenHandled

\* Start, Stop, ConsumeRaises and Reconnect.
LEMMA LifeStep ==
    ASSUME IInv, NEW b \in Bridges,
           Start(b) \/ Stop(b) \/ ConsumeRaises(b) \/ Reconnect(b)
    PROVE  IInv'
<1>1. /\ UNCHANGED <<committed, outcome, durable, failed>>
      /\ Fault \/ UNCHANGED faults
      /\ \E place \in Places \ Busy : Goto(b, place)
      BY DEF Start, Stop, ConsumeRaises, Reconnect, Places, Busy
<1>2. \/ UNCHANGED <<owner, position>>
      \/ \E members \in SUBSET Bridges : Rebalance(members)
      BY DEF Start, Stop, ConsumeRaises, Reconnect, Leaves
<1>3. \/ UNCHANGED <<msg, todo, pending>> /\ pc[b] \notin Busy
      \/ /\ msg' = [msg EXCEPT ![b] = None]
         /\ todo' = [todo EXCEPT ![b] = {}]
         /\ pending' = [pending EXCEPT ![b] = {}]
         /\ \E members \in SUBSET Bridges : Rebalance(members)
      BY DEF Start, Stop, ConsumeRaises, Reconnect, Leaves, Busy
<1>4. Grows
      BY <1>1 DEF Grows
<1>5. /\ owner' \in [Partitions -> Bridges \cup {None}]
      /\ position' \in [Bridges -> [Partitions -> 1 .. Last + 1]]
      /\ OwnerAhead' /\ \A e \in Bridges : GivenHandled(e)'
      <2>1. CASE UNCHANGED <<owner, position>>
            <3>1. UNCHANGED <<msg>> \/ \E members \in SUBSET Bridges : Rebalance(members)
                  BY <1>3
            <3>2. CASE UNCHANGED <<msg>>
                  BY <1>1, <1>4, <2>1, <3>2, KeepGiven DEF OwnerAhead, IInv, TypeOK
            <3>3. CASE \E members \in SUBSET Bridges : Rebalance(members)
                  BY <1>1, <3>3, RebalanceStep
            <3> QED BY <3>1, <3>2, <3>3
      <2>2. CASE \E members \in SUBSET Bridges : Rebalance(members)
            BY <1>1, <2>2, RebalanceStep
      <2> QED BY <1>2, <2>1, <2>2
<1>6. /\ pc' \in [Bridges -> Places] /\ msg' \in [Bridges -> Messages \cup {None}]
      /\ todo' \in [Bridges -> SUBSET Tenants] /\ pending' \in [Bridges -> SUBSET Tenants]
      BY <1>1, <1>3 DEF IInv, TypeOK, Goto
<1>7. TypeOK'
      BY <1>1, <1>5, <1>6, FaultStep DEF IInv, TypeOK
<1>8. CommittedWasHandled' /\ TenantsSettled'
      BY <1>1 DEF IInv, CommittedWasHandled, TenantsSettled
<1>9. ASSUME NEW e \in Bridges PROVE Holding(e)' /\ Serving(e)'
      <2>1. CASE e = b
            <3>1. pc'[b] \notin Busy /\ msg'[b] = None
                  BY <1>1, <1>3, Fields DEF Goto, IInv, TypeOK, Holding
            <3> QED BY <2>1, <3>1 DEF Holding, Serving, Busy
      <2>2. CASE e # b
            BY <1>1, <1>3, <1>4, <2>2, KeepHolding DEF Goto, IInv, TypeOK
      <2> QED BY <2>1, <2>2
<1> QED BY <1>5, <1>7, <1>8, <1>9 DEF IInv

LEMMA DeliverStep ==
    ASSUME IInv, NEW b \in Bridges, NEW p \in Partitions, Deliver(b, p)
    PROVE  IInv'
<1> DEFINE m == <<p, position[b][p]>>
<1>1. /\ position[b][p] \in 1 .. Last /\ Last \in Nat /\ owner[p] = b /\ pc[b] = "poll"
      /\ position \in [Bridges -> [Partitions -> 1 .. Last + 1]]
      /\ committed \in [Partitions -> 1 .. Last + 1]
      BY BridgeAssumption DEF Deliver, IInv, TypeOK
<1>2. m \in Messages /\ m[1] = p /\ m[2] = position[b][p]
      BY <1>1 DEF Messages
<1>3. /\ position' = [position EXCEPT ![b][p] = @ + 1] /\ msg' = [msg EXCEPT ![b] = m]
      /\ UNCHANGED <<owner, committed, todo, pending, faults, durable, failed>>
      /\ \/ /\ KindOf[m] = "poison" /\ Goto(b, "commit")
            /\ outcome' = [outcome EXCEPT ![m] = "skipped"]
         \/ KindOf[m] # "poison" /\ Goto(b, "handle") /\ UNCHANGED outcome
      BY DEF Deliver
<1> HIDE DEF m
<1>4. Grows
      BY <1>3 DEF Grows, IInv, TypeOK
<1>5. TypeOK'
      <2>1. position' \in [Bridges -> [Partitions -> 1 .. Last + 1]]
            BY <1>1, <1>3
      <2>2. /\ msg' \in [Bridges -> Messages \cup {None}]
            /\ pc' \in [Bridges -> Places]
            /\ outcome' \in [Messages -> {"none", "raised", "returned", "skipped"}]
            BY <1>2, <1>3 DEF IInv, TypeOK, Goto, Places
      <2> QED BY <1>3, <2>1, <2>2 DEF IInv, TypeOK
<1>6. CommittedWasHandled'
      BY <1>3, <1>4 DEF IInv, CommittedWasHandled, Grows
<1>7. TenantsSettled'
      BY <1>3 DEF IInv, TypeOK, TenantsSettled
<1>8. OwnerAhead'
      <2>1. ASSUME NEW q \in Partitions, owner[q] # None
            PROVE  committed[q] <= position'[owner[q]][q]
            <3>1. /\ owner[q] \in Bridges /\ committed[q] <= position[owner[q]][q]
                  /\ committed[q] \in Nat /\ position[owner[q]][q] \in Nat
                  BY <1>1, <2>1 DEF IInv, TypeOK, OwnerAhead
            <3>2. position'[owner[q]][q] \in {position[owner[q]][q], position[owner[q]][q] + 1}
                  BY <1>1, <1>3, <3>1
            <3> QED BY <3>1, <3>2
      <2> QED BY <1>3, <2>1 DEF OwnerAhead
<1>9. ASSUME NEW e \in Bridges, e # b PROVE Holding(e)' /\ Serving(e)' /\ GivenHandled(e)'
      BY <1>1, <1>3, <1>4, <1>9, KeepHolding, KeepGiven DEF Goto, IInv, TypeOK
<1>10. Holding(b)' /\ Serving(b)'
       <2>1. msg'[b] = m /\ m # None /\ pc'[b] \in {"commit", "handle"}
             BY <1>2, <1>3, Fields DEF IInv, TypeOK, Goto
       <2>2. pc'[b] = "commit" => outcome'[m] = "skipped"
             BY <1>2, <1>3 DEF IInv, TypeOK, Goto
       <2>3. pc'[b] = "handle" => KindOf[m] # "poison"
             BY <1>3 DEF IInv, TypeOK, Goto
       <2> QED BY <2>1, <2>2, <2>3 DEF Holding, Serving, Busy
<1>11. GivenHandled(b)'
       <2>1. msg[b] = None /\ msg'[b] = m
             BY <1>1, <1>3, Fields DEF Holding, Busy, IInv, TypeOK
       <2>2. ASSUME NEW n \in Messages, n[2] < position'[b][n[1]]
             PROVE  outcome'[n] # "none" \/ msg'[b] = n
             <3>1. n[1] \in Partitions /\ n[2] \in Nat /\ n = <<n[1], n[2]>>
                   BY DEF Messages
             <3>2. CASE n[2] < position[b][n[1]]
                   BY <1>4, <2>1, <3>2, Fields DEF GivenHandled, Grows
             <3>3. CASE ~ (n[2] < position[b][n[1]])
                   <4>1. position'[b][n[1]] = IF n[1] = p THEN position[b][p] + 1
                                                  ELSE position[b][n[1]]
                         BY <1>1, <1>3, <3>1
                   <4>2. n[1] = p
                         BY <2>2, <3>3, <4>1
                   <4>3. n[2] = position[b][p]
                         <5>1. position[b][p] \in Nat /\ n[2] \in Nat
                               BY <1>1, <3>1
                         <5>2. n[2] < position[b][p] + 1 /\ ~ (n[2] < position[b][p])
                               BY <2>2, <3>3, <4>1, <4>2
                         <5> QED BY <5>1, <5>2
                   <4> QED BY <2>1, <3>1, <4>2, <4>3 DEF m
             <3> QED BY <3>2, <3>3
       <2> QED BY <2>2 DEF GivenHandled
<1> QED BY <1>5, <1>6, <1>7, <1>8, <1>9, <1>10, <1>11 DEF IInv

\* Below the positions of a member that commits, everything has an outcome.
LEMMA CommitStep ==
    ASSUME IInv, NEW b \in Bridges, CommitOffsets(b)
    PROVE  IInv' /\ \A p \in Partitions : committed'[p] >= committed[p]
<1>1. /\ position \in [Bridges -> [Partitions -> 1 .. Last + 1]]
      /\ committed \in [Partitions -> 1 .. Last + 1] /\ Last \in Nat
      /\ pc[b] = "commit" /\ msg' = [msg EXCEPT ![b] = None]
      /\ UNCHANGED <<owner, position, todo, pending, outcome, durable, failed>>
      /\ Fault \/ UNCHANGED faults
      /\ Goto(b, "poll") \/ Goto(b, "backoff")
      BY BridgeAssumption DEF CommitOffsets, IInv, TypeOK
<1>2. \A p \in Partitions :
         committed'[p] = committed[p] \/ (owner[p] = b /\ committed'[p] = position[b][p])
      BY DEF CommitOffsets
<1>3. Grows
      BY <1>1 DEF Grows
<1>4. committed' \in [Partitions -> 1 .. Last + 1]
      BY <1>1 DEF CommitOffsets
<1>5. TypeOK'
      <2>1. pc' \in [Bridges -> Places] /\ msg' \in [Bridges -> Messages \cup {None}]
            BY <1>1 DEF IInv, TypeOK, Goto, Places
      <2> QED BY <1>1, <1>4, <2>1, FaultStep DEF IInv, TypeOK
<1>6. \A m \in Messages : m[2] < position[b][m[1]] => outcome[m] # "none"
      BY <1>1, Fields DEF GivenHandled, Holding
<1>7. CommittedWasHandled'
      <2>1. \A m \in Messages : m[1] \in Partitions
            BY DEF Messages
      <2> QED BY <1>1, <1>2, <1>6, <2>1 DEF IInv, CommittedWasHandled
<1>8. TenantsSettled'
      BY <1>1 DEF IInv, TenantsSettled
<1>9. \A p \in Partitions : committed'[p] >= committed[p]
      <2>1. ASSUME NEW p \in Partitions PROVE committed'[p] >= committed[p]
            <3>1. committed[p] \in Nat /\ position[b][p] \in Nat
                  BY <1>1
            <3>2. owner[p] = b => committed[p] <= position[b][p]
                  BY BridgeAssumption DEF IInv, OwnerAhead
            <3> QED BY <1>2, <3>1, <3>2
      <2> QED BY <2>1
<1>10. OwnerAhead'
       <2>1. ASSUME NEW p \in Partitions, owner[p] # None
             PROVE  committed'[p] <= position[owner[p]][p]
             <3>1. owner[p] \in Bridges /\ position[owner[p]][p] \in Nat
                   BY <1>1, <2>1 DEF IInv, TypeOK
             <3>2. committed[p] <= position[owner[p]][p]
                   BY <2>1 DEF IInv, OwnerAhead
             <3> QED BY <1>2, <3>1, <3>2
       <2> QED BY <1>1, <2>1 DEF OwnerAhead
<1>11. ASSUME NEW e \in Bridges PROVE GivenHandled(e)'
       <2>1. e = b => (msg[e] \in Messages => outcome'[msg[e]] # "none")
             BY <1>1, Fields DEF Holding
       <2>2. e # b => msg'[e] = msg[e]
             BY <1>1 DEF IInv, TypeOK
       <2> QED BY <1>1, <1>3, <2>1, <2>2, KeepGiven
<1>12. ASSUME NEW e \in Bridges PROVE Holding(e)' /\ Serving(e)'
       <2>1. CASE e = b
             <3>1. pc'[b] \notin Busy /\ msg'[b] = None
                   BY <1>1 DEF Goto, IInv, TypeOK, Busy
             <3> QED BY <2>1, <3>1 DEF Holding, Serving, Busy
       <2>2. CASE e # b
             BY <1>1, <1>3, <2>2, KeepHolding DEF Goto, IInv, TypeOK
       <2> QED BY <2>1, <2>2
<1> QED BY <1>5, <1>7, <1>8, <1>9, <1>10, <1>11, <1>12 DEF IInv

\* The steps of a handler: they leave the consumer group alone, give an outcome
\* to the message they let go, and settle every tenant before they return.
LEMMA HandlerStep ==
    ASSUME IInv, NEW b \in Bridges,
           Handle(b) \/ (\E t \in Tenants : ProcessTenant(b, t)) \/ CommitSession(b)
    PROVE  IInv'
<1>1. /\ UNCHANGED <<owner, position, committed>>
      /\ Fault \/ UNCHANGED faults
      /\ pc[b] \in {"handle", "tenants"} /\ msg[b] \in Messages /\ msg[b] # None
      BY Fields DEF Handle, ProcessTenant, CommitSession, Busy
<1>2. \/ UNCHANGED <<outcome, msg>> /\ (Goto(b, "tenants") \/ UNCHANGED pc)
      \/ Raises(b) \/ Returns(b)
      BY DEF Handle, ProcessTenant, CommitSession, Raises, Returns
<1>3. /\ pc' \in [Bridges -> Places] /\ msg' \in [Bridges -> Messages \cup {None}]
      /\ outcome' \in [Messages -> {"none", "raised", "returned", "skipped"}]
      /\ \A e \in Bridges \ {b} : pc'[e] = pc[e] /\ msg'[e] = msg[e]
      BY <1>1, <1>2 DEF IInv, TypeOK, Goto, Raises, Returns, Places
<1>4. /\ todo' \in [Bridges -> SUBSET Tenants] /\ pending' \in [Bridges -> SUBSET Tenants]
      /\ \A e \in Bridges \ {b} : todo'[e] = todo[e] /\ pending'[e] = pending[e]
      <2>1. CASE Handle(b)
            <3>1. todo' = todo \/ todo' = [todo EXCEPT ![b] = Tenants]
                  BY <2>1 DEF Handle
            <3> QED BY <2>1, <3>1 DEF Handle, IInv, TypeOK
      <2>2. CASE \E t \in Tenants : ProcessTenant(b, t)
            BY <2>2 DEF ProcessTenant, IInv, TypeOK
      <2>3. CASE CommitSession(b)
            BY <2>3 DEF CommitSession, IInv, TypeOK
      <2> QED BY <2>1, <2>2, <2>3
<1>5. /\ durable' \subseteq Messages \X Tenants /\ durable \subseteq durable'
      /\ failed' \subseteq Messages \X Tenants /\ failed \subseteq failed'
      <2>1. pending[b] \subseteq Tenants
            BY DEF IInv, TypeOK
      <2>2. durable' = durable \/ durable' = durable \cup ({msg[b]} \X pending[b])
            BY DEF Handle, ProcessTenant, CommitSession
      <2>3. failed' = failed \/ \E t \in Tenants : failed' = failed \cup {<<msg[b], t>>}
            BY DEF Handle, ProcessTenant, CommitSession
      <2> QED BY <1>1, <2>1, <2>2, <2>3 DEF IInv, TypeOK
<1>6. Grows
      BY <1>2, <1>5 DEF Grows, IInv, TypeOK, Raises, Returns
<1>7. TypeOK'
      BY <1>1, <1>3, <1>4, <1>5, FaultStep DEF IInv, TypeOK
<1>8. CommittedWasHandled' /\ OwnerAhead'
      BY <1>1, <1>6 DEF IInv, CommittedWasHandled, OwnerAhead, Grows
<1>9. ASSUME NEW e \in Bridges PROVE GivenHandled(e)'
      <2>1. e = b => msg'[b] = msg[b] \/ outcome'[msg[b]] # "none"
            BY <1>1, <1>2 DEF Raises, Returns, IInv, TypeOK
      <2> QED BY <1>1, <1>3, <1>6, <2>1, KeepGiven DEF IInv, TypeOK
<1>10. ASSUME NEW e \in Bridges, e # b PROVE Holding(e)' /\ Serving(e)'
       BY <1>3, <1>4, <1>6, <1>10, KeepHolding
<1>11. CASE Raises(b)
       <2>1. pc'[b] = "poll" /\ msg'[b] = None
             BY <1>11 DEF Raises, Goto, IInv, TypeOK
       <2>2. Holding(b)' /\ Serving(b)'
             BY <2>1 DEF Holding, Serving, Busy
       <2>3. TenantsSettled'
             BY <1>5, <1>11 DEF Raises, IInv, TypeOK, TenantsSettled
       <2> QED BY <1>7, <1>8, <1>9, <1>10, <2>2, <2>3 DEF IInv
<1>12. CASE Returns(b)
       <2>1. pc'[b] = "commit" /\ msg'[b] = msg[b] /\ outcome'[msg[b]] = "returned"
             BY <1>1, <1>12 DEF Returns, Goto, IInv, TypeOK
       <2>2. Holding(b)' /\ Serving(b)'
             BY <1>1, <2>1 DEF Holding, Serving, Busy
       <2>3. KindOf[msg[b]] = "event" =>
                \A t \in Tenants : <<msg[b], t>> \in durable' \cup failed'
             <3>1. CASE Handle(b)
                   BY <1>12, <3>1, <2>1 DEF Handle, Goto, Raises, IInv, TypeOK
             <3>2. CASE CommitSession(b)
                   <4>1. todo[b] = {} /\ pc[b] = "tenants" /\ failed' = failed
                         BY <3>2 DEF CommitSession
                   <4>2. durable' = durable \cup ({msg[b]} \X pending[b])
                         <5>1. ~ Raises(b)
                               BY <2>1 DEF Raises, Goto, IInv, TypeOK
                         <5> QED BY <3>2, <5>1 DEF CommitSession
                   <4> QED BY <4>1, <4>2, Fields DEF Serving
             <3>3. CASE \E t \in Tenants : ProcessTenant(b, t)
                   BY <2>1, <3>3 DEF ProcessTenant
             <3> QED BY <3>1, <3>2, <3>3
       <2>4. TenantsSettled'
             BY <1>5, <1>12, <2>3 DEF Returns, IInv, TypeOK, TenantsSettled
       <2> QED BY <1>7, <1>8, <1>9, <1>10, <2>2, <2>4 DEF IInv
<1>13. CASE UNCHANGED <<outcome, msg>> /\ (Goto(b, "tenants") \/ UNCHANGED pc)
       <2>1. pc'[b] = "tenants" \/ pc'[b] = pc[b]
             BY <1>13 DEF Goto, IInv, TypeOK
       <2>2. TenantsSettled'
             BY <1>5, <1>13 DEF IInv, TenantsSettled
       <2>3. CASE Handle(b)
             <3>1. pc[b] = "handle" /\ KindOf[msg[b]] \in Kinds /\ KindOf[msg[b]] # "poison"
                   BY <1>1, <2>3, Fields, BridgeAssumption DEF Handle, Holding
             <3>2. ~ Raises(b) /\ ~ Returns(b)
                   BY <1>1, <1>13, <2>1, <3>1 DEF Raises, Returns, Goto, IInv, TypeOK
             <3>3. KindOf[msg[b]] = "event" /\ todo' = [todo EXCEPT ![b] = Tenants]
                   BY <2>3, <3>1, <3>2 DEF Handle, Kinds
             <3>4. Holding(b)' /\ Serving(b)'
                   BY <1>1, <1>13, <2>1, <3>1, <3>3, Fields DEF Holding, Serving, Busy, IInv, TypeOK
             <3> QED BY <1>7, <1>8, <1>9, <1>10, <2>2, <3>4 DEF IInv
       <2>4. CASE \E t \in Tenants : ProcessTenant(b, t)
             <3>1. PICK t \in Tenants : ProcessTenant(b, t)
                   BY <2>4
             <3>2. /\ pc[b] = "tenants" /\ UNCHANGED pc /\ todo'[b] = todo[b] \ {t}
                   /\ \/ pending'[b] = pending[b] \cup {t}
                      \/ pending'[b] = pending[b] /\ <<msg[b], t>> \in failed'
                   BY <3>1 DEF ProcessTenant, IInv, TypeOK
             <3>3. pending[b] \subseteq pending'[b]
                   BY <3>2
             <3>4. Holding(b)'
                   BY <1>13, <3>2, Fields DEF Holding
             <3>5. Serving(b)'
                   BY <1>5, <1>13, <3>2, <3>3, Fields DEF Serving
             <3> QED BY <1>7, <1>8, <1>9, <1>10, <2>2, <3>4, <3>5 DEF IInv
       <2>5. CASE CommitSession(b)
             BY <1>1, <1>13, <2>1, <2>5 DEF CommitSession, Raises, Returns, Goto, IInv, TypeOK
       <2> QED BY <2>3, <2>4, <2>5
<1> QED BY <1>2, <1>11, <1>12, <1>13

LEMMA InvStep == IInv /\ [Next]_vars => IInv'
<1> SUFFICES ASSUME IInv, [Next]_vars PROVE IInv'
    OBVIOUS
<1>1. ASSUME NEW b \in Bridges, Run(b) \/ Start(b) \/ Stop(b) \/ ConsumeRaises(b) PROVE IInv'
      BY <1>1, LifeStep, DeliverStep, CommitStep, HandlerStep DEF Run
<1>2. CASE UNCHANGED vars
      BY <1>2 DEF vars, IInv, TypeOK, CommittedWasHandled, TenantsSettled, OwnerAhead, Holding,
                  GivenHandled, Serving
<1> QED BY <1>1, <1>2 DEF Next

\* The invariant holds of every behaviour of the group, whatever fails.
THEOREM Invariance == Spec => []IInv
BY InitInv, InvStep, PTL DEF Spec

\* Type correctness: positions and committed offsets stay within a partition.
THEOREM TypeCorrect == Spec => []TypeOK
<1>1. IInv => TypeOK
      BY DEF IInv
<1> QED BY <1>1, Invariance, PTL

\* commit() stores positions, not what was handled: still no message below the
\* committed offset is without an outcome, for any rebalances under handlers.
THEOREM NothingSkipped == Spec => []CommittedWasHandled
<1>1. IInv => CommittedWasHandled
      BY DEF IInv
<1> QED BY <1>1, Invariance, PTL

\* The savepoints isolate tenants, for any number of them.
THEOREM SavepointsIsolate == Spec => []TenantsSettled
<1>1. IInv => TenantsSettled
      BY DEF IInv
<1> QED BY <1>1, Invariance, PTL

\* No replica moves the offset of the group back, however late it commits.
THEOREM OffsetsOnlyAdvance == Spec => CommittedForward
<1> DEFINE A == \A p \in Partitions : committed'[p] >= committed[p]
<1>1. ASSUME IInv, [Next]_vars PROVE A \/ UNCHANGED vars
      <2>1. UNCHANGED committed => A
            BY <1>1 DEF IInv, TypeOK
      <2>2. ASSUME NEW b \in Bridges, Run(b) \/ Start(b) \/ Stop(b) \/ ConsumeRaises(b)
            PROVE  CommitOffsets(b) \/ UNCHANGED committed
            BY <2>2 DEF Run, Start, Stop, ConsumeRaises, Reconnect, Handle, CommitSession, Deliver,
                        ProcessTenant
      <2> QED BY <1>1, <2>1, <2>2, CommitStep DEF Next
<1>2. IInv /\ [Next]_vars => [A]_vars
      BY <1>1
<1> QED BY <1>2, Invariance, PTL DEF Spec, CommittedForward
=============================================================================

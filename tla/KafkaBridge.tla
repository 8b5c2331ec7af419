----------------------------- MODULE KafkaBridge -----------------------------
(***************************************************************************)
(* The Kafka event bridge: KafkaEventBridge of core/kafka_event_consumer.py *)
(* on top of KafkaMessageConsumer.consume of pinquark_common/kafka/        *)
(* consumer.py.  Gateway replicas form one consumer group; each handles    *)
(* one message at a time, for every active tenant, in one database session *)
(* with a savepoint per tenant, and commits its offsets by hand.           *)
(*                                                                         *)
(* The broker is external: a rebalance gives every partition to one member *)
(* and resets the positions of all members to the committed offsets, also  *)
(* while a handler is running.                                             *)
(***************************************************************************)
EXTENDS Naturals, FiniteSets

CONSTANTS
    Bridges,      \* gateway replicas
    Partitions,
    Last,         \* offsets of a partition are 1 .. Last
    KindOf,       \* what a message is: see Kinds
    Tenants,      \* active tenants
    None,
    FaultBound    \* bound: faults of processes, broker and database

Messages == Partitions \X (1 .. Last)

\* poison: the value could not be deserialized; malformed: an object without
\* connector, event or valid tenant; broken: JSON, but not an object.
Kinds == {"poison", "malformed", "broken", "event"}

ASSUME BridgeAssumption ==
    /\ Last \in Nat
    /\ KindOf \in [Messages -> Kinds]
    /\ FaultBound \in Nat
    /\ None \notin Bridges \cup Messages

VARIABLES
    pc,         \* where _consume_loop of a bridge is
    owner,      \* the group member each partition is assigned to
    position,   \* next offset a member will be given
    committed,  \* committed offset of the group
    msg,        \* the message a bridge handles
    todo,       \* tenants its handler has not reached yet
    pending,    \* tenants processed in the open database session
    faults,     \* faults so far
    outcome,    \* history: how the last handling of a message ended
    durable,    \* history: <<message, tenant>> whose processing was committed
    failed      \* history: <<message, tenant>> whose processing was logged as failed

vars == <<pc, owner, position, committed, msg, todo, pending, faults, outcome, durable, failed>>

Places == {"off", "down", "poll", "handle", "tenants", "commit", "backoff", "lost"}

TypeOK ==
    /\ pc \in [Bridges -> Places]
    /\ owner \in [Partitions -> Bridges \cup {None}]
    /\ position \in [Bridges -> [Partitions -> 1 .. Last + 1]]
    /\ committed \in [Partitions -> 1 .. Last + 1]
    /\ msg \in [Bridges -> Messages \cup {None}]
    /\ todo \in [Bridges -> SUBSET Tenants]
    /\ pending \in [Bridges -> SUBSET Tenants]
    /\ faults \in 0 .. FaultBound
    /\ outcome \in [Messages -> {"none", "raised", "returned", "skipped"}]
    /\ durable \subseteq Messages \X Tenants
    /\ failed \subseteq Messages \X Tenants

Init ==
    /\ pc = [b \in Bridges |-> "down"]
    /\ owner = [p \in Partitions |-> None]
    /\ position = [b \in Bridges |-> [p \in Partitions |-> 1]]
    /\ committed = [p \in Partitions |-> 1]
    /\ msg = [b \in Bridges |-> None]
    /\ todo = [b \in Bridges |-> {}]
    /\ pending = [b \in Bridges |-> {}]
    /\ faults = 0
    /\ outcome = [m \in Messages |-> "none"]
    /\ durable = {}
    /\ failed = {}

Goto(b, place) == pc' = [pc EXCEPT ![b] = place]
Fault == faults < FaultBound /\ faults' = faults + 1

-----------------------------------------------------------------------------
(* The consumer group *)

\* A consumer is a member from its start until it is stopped, also while its
\* bridge handles a message or waits to reconnect.
Member(b) == pc[b] \notin {"off", "down", "lost"}

Rebalance(members) ==
    /\ owner' \in IF members = {} THEN {[p \in Partitions |-> None]}
                  ELSE [Partitions -> members]
    /\ position' = [b \in Bridges |-> committed]

Leaves(b) == Rebalance({c \in Bridges : Member(c)} \ {b})

-----------------------------------------------------------------------------
(* KafkaEventBridge *)

\* start: a first connection that fails is logged, and the gateway runs
\* without a bridge from then on.
Start(b) ==
    /\ pc[b] = "down"
    /\ \/ /\ Goto(b, "poll")
          /\ Rebalance({c \in Bridges : Member(c)} \cup {b})
          /\ UNCHANGED faults
       \/ /\ Goto(b, "off")
          /\ Fault
          /\ UNCHANGED <<owner, position>>
    /\ UNCHANGED <<committed, msg, todo, pending, outcome, durable, failed>>

\* The gateway is stopped (the task is cancelled, the session rolled back)
\* or dies.
Stop(b) ==
    /\ pc[b] # "down"
    /\ Fault
    /\ Goto(b, "down")
    /\ Leaves(b)
    /\ msg' = [msg EXCEPT ![b] = None]
    /\ todo' = [todo EXCEPT ![b] = {}]
    /\ pending' = [pending EXCEPT ![b] = {}]
    /\ UNCHANGED <<committed, outcome, durable, failed>>

\* The consumer raises out of consume: the loop sleeps.
ConsumeRaises(b) ==
    /\ pc[b] = "poll"
    /\ Fault
    /\ Goto(b, "backoff")
    /\ UNCHANGED <<owner, position, committed, msg, todo, pending, outcome, durable, failed>>

\* Mutant: the old consumer is stopped, and no new one is created.
ReconnectStopsOnly(b) ==
    /\ pc[b] = "backoff"
    /\ Goto(b, "lost")
    /\ Leaves(b)
    /\ UNCHANGED <<committed, msg, todo, pending, faults, outcome, durable, failed>>

\* The old consumer is stopped and a new one started. If that fails, consume
\* raises again at once, on the consumer that did not start. If already stop
\* raises, the closed consumer is kept: consume then returns without an exception,
\* and nothing of this bridge reconnects any more.
Reconnect(b) ==
    /\ \/ /\ pc[b] \in {"backoff", "lost"}
          /\ Goto(b, "poll")
          /\ Rebalance({c \in Bridges : Member(c)} \cup {b})
          /\ UNCHANGED faults
       \/ /\ pc[b] = "backoff"
          /\ \E place \in {"lost", "off"} : Goto(b, place)
          /\ Leaves(b)
          /\ Fault
    /\ UNCHANGED <<committed, msg, todo, pending, outcome, durable, failed>>

-----------------------------------------------------------------------------
(* consume *)

\* Mutant: enable_auto_commit, the offset is stored when the message is given out.
DeliverAutoCommits(b, p) ==
    LET m == <<p, position[b][p]>> IN
    /\ pc[b] = "poll"
    /\ owner[p] = b
    /\ position[b][p] <= Last
    /\ position' = [position EXCEPT ![b][p] = @ + 1]
    /\ committed' = [committed EXCEPT ![p] = position[b][p] + 1]
    /\ msg' = [msg EXCEPT ![b] = m]
    /\ Goto(b, "handle")
    /\ UNCHANGED <<owner, todo, pending, faults, outcome, durable, failed>>

\* The next message. A value that could not be deserialized goes straight to
\* the commit.
Deliver(b, p) ==
    LET m == <<p, position[b][p]>> IN
    /\ pc[b] = "poll"
    /\ owner[p] = b
    /\ position[b][p] <= Last
    /\ position' = [position EXCEPT ![b][p] = @ + 1]
    /\ msg' = [msg EXCEPT ![b] = m]
    /\ Goto(b, IF KindOf[m] = "poison" THEN "commit" ELSE "handle")
    /\ outcome' = IF KindOf[m] = "poison" THEN [outcome EXCEPT ![m] = "skipped"] ELSE outcome
    /\ UNCHANGED <<owner, committed, todo, pending, faults, durable, failed>>

\* Mutant: the offset of the handled message is committed, not the position.
CommitOwnOffset(b) ==
    LET p == msg[b][1] IN
    /\ pc[b] = "commit"
    /\ committed' = [committed EXCEPT ![p] = msg[b][2] + 1]
    /\ msg' = [msg EXCEPT ![b] = None]
    /\ Goto(b, "poll")
    /\ UNCHANGED <<owner, position, todo, pending, faults, outcome, durable, failed>>

\* commit() without arguments stores the positions of everything assigned to
\* the member now, or raises.
CommitOffsets(b) ==
    /\ pc[b] = "commit"
    /\ msg' = [msg EXCEPT ![b] = None]
    /\ \/ /\ committed' = [p \in Partitions |->
                             IF owner[p] = b THEN position[b][p] ELSE committed[p]]
          /\ Goto(b, "poll")
          /\ UNCHANGED faults
       \/ /\ Fault
          /\ Goto(b, "backoff")
          /\ UNCHANGED committed
    /\ UNCHANGED <<owner, position, todo, pending, outcome, durable, failed>>

-----------------------------------------------------------------------------
(* _handle_message *)

Returns(b) ==
    /\ outcome' = [outcome EXCEPT ![msg[b]] = "returned"]
    /\ Goto(b, "commit")
    /\ UNCHANGED msg

\* consume logs that the offset will not be committed, and goes on.
Raises(b) ==
    /\ outcome' = [outcome EXCEPT ![msg[b]] = "raised"]
    /\ Goto(b, "poll")
    /\ msg' = [msg EXCEPT ![b] = None]

\* The tenants are loaded, unless the message is nothing to act on.
Handle(b) ==
    /\ pc[b] = "handle"
    /\ CASE KindOf[msg[b]] = "malformed" -> Returns(b) /\ UNCHANGED <<todo, faults>>
         [] KindOf[msg[b]] = "broken" -> Raises(b) /\ UNCHANGED <<todo, faults>>
         [] OTHER ->
              \/ /\ Goto(b, "tenants")
                 /\ todo' = [todo EXCEPT ![b] = Tenants]
                 /\ UNCHANGED <<msg, outcome, faults>>
              \/ Fault /\ Raises(b) /\ UNCHANGED todo
    /\ UNCHANGED <<owner, position, committed, pending, durable, failed>>

\* Mutant: no savepoint, a failure rolls back what the session has done.
TenantWithoutSavepoint(b, t) ==
    /\ pc[b] = "tenants"
    /\ t \in todo[b]
    /\ todo' = [todo EXCEPT ![b] = @ \ {t}]
    /\ \/ pending' = [pending EXCEPT ![b] = @ \cup {t}] /\ UNCHANGED failed
       \/ pending' = [pending EXCEPT ![b] = {}] /\ failed' = failed \cup {<<msg[b], t>>}
    /\ UNCHANGED <<pc, owner, position, committed, msg, faults, outcome, durable>>

\* _process_for_tenant in a savepoint: a failure is logged as a DLQ event,
\* stored nowhere, and undone alone.
ProcessTenant(b, t) ==
    /\ pc[b] = "tenants"
    /\ t \in todo[b]
    /\ todo' = [todo EXCEPT ![b] = @ \ {t}]
    /\ \/ pending' = [pending EXCEPT ![b] = @ \cup {t}] /\ UNCHANGED failed
       \/ failed' = failed \cup {<<msg[b], t>>} /\ UNCHANGED pending
    /\ UNCHANGED <<pc, owner, position, committed, msg, faults, outcome, durable>>

\* The session commits, or fails and loses what it did.
CommitSession(b) ==
    /\ pc[b] = "tenants"
    /\ todo[b] = {}
    /\ pending' = [pending EXCEPT ![b] = {}]
    /\ \/ /\ durable' = durable \cup ({msg[b]} \X pending[b])
          /\ Returns(b)
          /\ UNCHANGED faults
       \/ Fault /\ Raises(b) /\ UNCHANGED durable
    /\ UNCHANGED <<owner, position, committed, todo, failed>>

-----------------------------------------------------------------------------

Run(b) ==
    \/ Reconnect(b) \/ CommitOffsets(b) \/ Handle(b) \/ CommitSession(b)
    \/ \E p \in Partitions : Deliver(b, p)
    \/ \E t \in Tenants : ProcessTenant(b, t)

Next == \E b \in Bridges : Run(b) \/ Start(b) \/ Stop(b) \/ ConsumeRaises(b)

Spec == Init /\ [][Next]_vars

\* The loop of a running bridge goes on, and a stopped gateway is started
\* again by its deployment.
FairSpec == Spec /\ \A b \in Bridges : WF_vars(Run(b)) /\ WF_vars(Start(b))

-----------------------------------------------------------------------------
(* Properties *)

\* No message is skipped silently: every offset below the committed one was
\* handled or recognised as poison, in spite of positions that are reset while
\* a handler runs.
CommittedWasHandled ==
    \A m \in Messages : m[2] < committed[m[1]] => outcome[m] # "none"

\* The savepoints isolate tenants: when the handling of an event returns,
\* each tenant's part has been committed at some time or was logged as failed.
TenantsSettled ==
    \A m \in Messages : KindOf[m] = "event" /\ outcome[m] = "returned" =>
        \A t \in Tenants : <<m, t>> \in durable \cup failed

\* A replica that lost its partition while it handled a message never moves
\* the offset of the group back.
CommittedForward == [][\A p \in Partitions : committed'[p] >= committed[p]]_vars

\* Every message is handled in the end, unless every gateway is without a bridge:
\* its first start failed, or its consumer was closed and not replaced.
EventuallyHandled ==
    \A m \in Messages : <>(outcome[m] # "none" \/ \A b \in Bridges : pc[b] = "off")

\* consume: after a handler raised, the "offset will NOT be committed".
RaisedNotCommitted ==
    \A m \in Messages : outcome[m] = "raised" => committed[m[1]] <= m[2]

=============================================================================

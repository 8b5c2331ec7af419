------------------------------- MODULE Outbox -------------------------------
(***************************************************************************)
(* What an outbound queue promises: an entry leaves it only after the other  *)
(* side has received it, or after MaxAttempts attempts have failed; an entry *)
(* at the head does leave.  Entries may be received more than once and,      *)
(* after a failure, out of order.                                            *)
(***************************************************************************)
EXTENDS Naturals, SequencesExt

CONSTANTS Records, Versions, MaxAttempts

VARIABLES
    outbox,   \* entries that wait
    cloud     \* the version of each record received last

Entry == [rec : Records, ver : Versions, tries : Nat, seen : BOOLEAN]

Init ==
    /\ outbox = <<>>
    /\ cloud = [r \in Records |-> 0]

Put(r, v) ==
    /\ outbox' = Append(outbox, [rec |-> r, ver |-> v, tries |-> 0, seen |-> FALSE])
    /\ UNCHANGED cloud

Receive(i) ==
    /\ outbox' = [outbox EXCEPT ![i].seen = TRUE]
    /\ cloud' = [cloud EXCEPT ![outbox[i].rec] = outbox[i].ver]

Settle(i) ==
    /\ outbox[i].seen
    /\ outbox' = RemoveAt(outbox, i)
    /\ UNCHANGED cloud

Fail(i) ==
    /\ outbox[i].tries + 1 < MaxAttempts
    /\ outbox' = [outbox EXCEPT ![i].tries = @ + 1]
    /\ UNCHANGED cloud

GiveUp(i) ==
    /\ outbox[i].tries + 1 = MaxAttempts
    /\ outbox' = RemoveAt(outbox, i)
    /\ UNCHANGED cloud

Next ==
    \/ \E r \in Records, v \in Versions : Put(r, v)
    \/ \E i \in 1 .. Len(outbox) : Receive(i) \/ Settle(i) \/ Fail(i) \/ GiveUp(i)

Leaves == outbox # <<>> /\ (Settle(1) \/ GiveUp(1))

Safe == Init /\ [][Next]_<<outbox, cloud>>

Spec == Safe /\ WF_<<outbox, cloud>>(Leaves)
=============================================================================

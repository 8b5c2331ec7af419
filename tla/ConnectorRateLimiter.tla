------------------------ MODULE ConnectorRateLimiter ------------------------
(***************************************************************************)
(* The token bucket of one connector, action and tenant that all gateway     *)
(* replicas keep in Redis (core/connector_rate_limiter.py).  check reads     *)
(* tokens and time in one round trip and writes them in another.             *)
(*                                                                         *)
(* Time is relative: age is the time since the stored :last, lag the time   *)
(* since a check took its now.  A tick refills one token.  The expiry of the *)
(* keys, after twice the window, is invisible: the bucket is full by then.   *)
(***************************************************************************)
EXTENDS Integers

CONSTANTS
    Checks,     \* checks that may run at the same time
    Capacity,   \* config.requests
    LagBound    \* bound: ticks that a check takes

ASSUME LimiterAssumption ==
    /\ Capacity \in Nat \ {0}
    /\ LagBound \in Nat

VARIABLES
    tokens, age,   \* the two keys in Redis
    check,         \* checks under way
    ideal,         \* reference: a bucket that decides in one step, at now
    disturbed      \* history: two checks have overlapped, or one has failed

limiter == <<tokens, age, check, ideal, disturbed>>

Lower(a, b) == IF a < b THEN a ELSE b
Upper(a, b) == IF a < b THEN b ELSE a
AgeCap == Capacity + LagBound   \* an older bucket is full for every check

Check == [at : {"none", "asked", "read"}, lag : 0 .. LagBound, tokens : 0 .. Capacity]
NoCheck == [at |-> "none", lag |-> 0, tokens |-> 0]

LimiterTypeOK ==
    /\ tokens \in 0 .. Capacity
    /\ age \in 0 .. AgeCap
    /\ check \in [Checks -> Check]
    /\ ideal \in 0 .. Capacity
    /\ disturbed \in BOOLEAN

LimiterInit ==
    /\ tokens = Capacity
    /\ age = 0
    /\ check = [d \in Checks |-> NoCheck]
    /\ ideal = Capacity
    /\ disturbed = FALSE

Running == {d \in Checks : check[d].at # "none"}

Tick ==
    /\ \A d \in Running : check[d].lag < LagBound
    /\ age' = Lower(AgeCap, age + 1)
    /\ check' = [d \in Checks |-> IF d \in Running THEN [check[d] EXCEPT !.lag = @ + 1]
                                  ELSE check[d]]
    /\ ideal' = Lower(Capacity, ideal + 1)
    /\ UNCHANGED <<tokens, disturbed>>

\* now = time.time(), and the MGET is sent.
Ask(d) ==
    /\ check' = [check EXCEPT ![d] = [at |-> "asked", lag |-> 0, tokens |-> 0]]
    /\ ideal' = Upper(0, ideal - 1)
    /\ disturbed' = (disturbed \/ Running # {})
    /\ UNCHANGED <<tokens, age>>

\* Mutant: the refill is not capped.
RefilledUncapped(d) == tokens + Upper(0, age - check[d].lag)

\* min(requests, tokens + max(0, now - last) * refill_rate)
Refilled(d) == Lower(Capacity, tokens + Upper(0, age - check[d].lag))

ReadBucket(d) ==
    /\ check[d].at = "asked"
    /\ check' = [check EXCEPT ![d].at = "read", ![d].tokens = Refilled(d)]
    /\ UNCHANGED <<tokens, age, ideal, disturbed>>

Allowed(d) == check[d].tokens >= 1

\* Mutant: :last is the time of the write.
WriteTimeLater(d) ==
    /\ check[d].at = "read"
    /\ tokens' = IF Allowed(d) THEN check[d].tokens - 1 ELSE check[d].tokens
    /\ age' = 0
    /\ check' = [check EXCEPT ![d] = NoCheck]
    /\ UNCHANGED <<ideal, disturbed>>

\* Both keys are written also when the call is denied.
WriteBucket(d) ==
    /\ check[d].at = "read"
    /\ tokens' = IF Allowed(d) THEN check[d].tokens - 1 ELSE check[d].tokens
    /\ age' = check[d].lag
    /\ check' = [check EXCEPT ![d] = NoCheck]
    /\ UNCHANGED <<ideal, disturbed>>

\* Redis is out of reach: the exception ends the check; its write may have
\* arrived.
CheckFails(d) ==
    /\ check[d].at # "none"
    /\ check' = [check EXCEPT ![d] = NoCheck]
    /\ \/ UNCHANGED <<tokens, age>>
       \/ /\ check[d].at = "read"
          /\ tokens' = IF Allowed(d) THEN check[d].tokens - 1 ELSE check[d].tokens
          /\ age' = check[d].lag
    /\ disturbed' = TRUE
    /\ UNCHANGED ideal
=============================================================================

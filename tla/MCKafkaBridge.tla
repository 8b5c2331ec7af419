---------------------------- MODULE MCKafkaBridge ----------------------------
(* Two replicas, a partition with one message of each kind that matters. *)
EXTENDS KafkaBridge

CONSTANTS b1, b2, p1, t1, t2

EventsAndOthers == [m \in Messages |->
    CASE m[2] = 1 -> "event"
      [] m[2] = 2 -> "malformed"
      [] m[2] = 3 -> "poison"
      [] OTHER -> "broken"]
BrokenFirst == [m \in Messages |-> IF m[2] = 1 THEN "broken" ELSE "event"]
=============================================================================

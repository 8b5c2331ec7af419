----------------------------- MODULE MCNexoAgent -----------------------------
(* A contractor and the stock report, in two listings. *)
EXTENDS NexoAgent

CONSTANTS c1, s1
MCSources == << <<c1>>, <<s1>> >>
=============================================================================

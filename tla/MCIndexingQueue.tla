-------------------------- MODULE MCIndexingQueue --------------------------
(* Instances of IndexingQueue: who misbehaves, and how. *)
EXTENDS IndexingQueue
CONSTANTS a, b, c, d

Two == {a, b}
Four == {a, b, c, d}
NoKiller == [p \in Paths |-> "never"]
AKillsEmbed == [p \in Paths |-> IF p = a THEN "embed" ELSE "never"]
=============================================================================

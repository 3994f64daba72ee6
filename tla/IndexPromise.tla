---------------------------- MODULE IndexPromise ----------------------------
(***************************************************************************)
(* What the durable queue promises about the index, without the worker:    *)
(* a path is owed work, or its work is buried, or nothing is owed and what *)
(* the first phase published, the second completed.                        *)
(***************************************************************************)
EXTENDS Naturals

CONSTANTS Paths, MaxVersion

VARIABLES
    owed,       \* paths with live work
    dead,       \* paths whose work was given up, visibly
    seen,       \* version published by the first phase, 0 for none
    chunked     \* version completed by the second, 0 for none

vars == <<owed, dead, seen, chunked>>

\* New intent: mail, a reparse, or the operator's rescue.
Owe(S) ==
    /\ owed' = owed \cup S
    /\ dead' = dead \ S
    /\ UNCHANGED <<seen, chunked>>

Publish(p, v) ==
    /\ p \in owed
    /\ seen' = [seen EXCEPT ![p] = v]
    /\ UNCHANGED <<owed, dead, chunked>>

Complete(p) ==
    /\ p \in owed
    /\ chunked' = [chunked EXCEPT ![p] = seen[p]]
    /\ UNCHANGED <<owed, dead, seen>>

\* Work ends only where nothing is left half done.
Finish(p) ==
    /\ p \in owed
    /\ seen[p] = chunked[p]
    /\ owed' = owed \ {p}
    /\ UNCHANGED <<dead, seen, chunked>>

Bury(p) ==
    /\ p \in owed
    /\ owed' = owed \ {p}
    /\ dead' = dead \cup {p}
    /\ UNCHANGED <<seen, chunked>>

\* The message is deleted upstream: everything about it goes at once.
Forget(p) ==
    /\ owed' = owed \ {p}
    /\ dead' = dead \ {p}
    /\ seen' = [seen EXCEPT ![p] = 0]
    /\ chunked' = [chunked EXCEPT ![p] = 0]

Init ==
    /\ owed \subseteq Paths /\ dead = {}
    /\ seen \in [Paths -> 0..MaxVersion]
    /\ chunked = seen

Next ==
    \/ \E S \in SUBSET Paths : Owe(S)
    \/ \E p \in Paths :
         \/ \E v \in 1..MaxVersion : Publish(p, v)
         \/ Complete(p) \/ Finish(p) \/ Bury(p) \/ Forget(p)

Spec == Init /\ [][Next]_vars
=============================================================================

------------------------------ MODULE MCSyncAck ------------------------------
(* The instances of SyncAck: one message in a folder that was there before the first *)
(* sync, one in a folder a sync creates; each scenario bounds its own faults.  *)
EXTENDS SyncAck, TLC

CONSTANTS old, new, inbox, label

OldAndNew == (old :> inbox) @@ (new :> label)
NewOnly   == new :> label

Scenario(arriving, attempts, kinds, faults) ==
    [mail |-> arriving, attempts |-> attempts, kinds |-> kinds, faults |-> faults]

\* One sync and its mail, nothing going wrong.
Quiet == {Scenario({old, new}, 1, {}, 0)}

\* One sync and its mail, under the indexer's faults; and syncs without mail under
\* the shell's: two faults of any kind in two attempts, of fewer kinds in three.
MailOrFaults ==
    {Scenario({old, new}, 1, {"overflow", "watch", "walk", "restart"}, 2),
     Scenario({}, 2, {"publish", "stamp", "generation", "stop", "kill", "state",
                      "mbsync", "restart"}, 2),
     Scenario({}, 3, {"publish", "stamp", "generation", "mbsync"}, 2)}

\* The same, where what must end is followed to its end.
MailOrFailures ==
    {Scenario({new}, 1, {"overflow", "walk", "watch", "signal", "repair",
                         "restart"}, 1),
     Scenario({}, 2, {"overflow", "restart", "publish", "mbsync"}, 1),
     Scenario({}, 2, {"publish", "mbsync"}, 2)}
=============================================================================

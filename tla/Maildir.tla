------------------------------ MODULE Maildir ------------------------------
(***************************************************************************)
(* What the mbsync container and the indexer share: the message files and  *)
(* their folders, the success stamp and the collection status at the root  *)
(* of the Maildir, and the kernel's watch on it with the events not yet    *)
(* handled.  A sync attempt is known by its ordinal (the boot token and    *)
(* the counter of its ID make it unique); 0 is "none".  Times are left     *)
(* out: no order is taken from them.                                       *)
(***************************************************************************)
EXTENDS Integers, Sequences, FiniteSets

CONSTANTS
    Messages, Folders, FolderOf,
    Standing,       \* the folders that are there, and readable, at the start
    Scenarios,      \* the histories considered: the mail that arrives, how many
                    \* attempts there are, what may go wrong and how many times
    MaxAttempts,    \* bound: sync attempts, in any of them
    MaxFaults       \* bound: faults, in any of them

\* What may go wrong on either side.
FaultKinds == {"overflow", "watch", "walk", "restart", "publish", "stamp", "generation",
               "stop", "kill", "state", "mbsync", "signal", "repair"}

ASSUME MaildirAssumption ==
    /\ FolderOf \in [Messages -> Folders]
    /\ Standing \subseteq Folders
    /\ MaxAttempts \in Nat /\ MaxFaults \in Nat
    /\ Scenarios \subseteq [mail : SUBSET Messages, attempts : 0..MaxAttempts,
                           kinds : SUBSET FaultKinds, faults : 0..MaxFaults]

VARIABLES
    delivered,  \* the attempt that delivered a message, 0 before
    made,       \* the folders that exist
    open,       \* the folders the indexer can read
    stamp,      \* .mbsync-last-sync.json
    status,     \* .mbsync-collection-status.json: its two records
    watching,   \* the recursive watch is scheduled
    watched,    \* the folders it holds a kernel watch on
    events,     \* the events queued for the watcher, oldest first
    bounds      \* the scenario, its faults counted down as they happen

maildir == <<delivered, made, open, stamp, status>>
kernel  == <<watching, watched, events>>

Attempts    == 0..MaxAttempts
Generations == 0..MaxAttempts
NoGen       == -1               \* a generation or floor written as null

Stamp   == [attempt : Attempts, gen : Generations]
NoStamp == [attempt |-> 0, gen |-> 0]

\* A record of the status file: the outcome of an attempt, and the generation
\* it allocated (a success) or the highest one allocated by then (a failure).
Record   == [attempt : Attempts, ok : BOOLEAN, gen : Generations \cup {NoGen}]
NoRecord == [attempt |-> 0, ok |-> FALSE, gen |-> NoGen]
Records  == [terminal : Record, success : Record]

\* parse_collection_status: the records agree as mbsync writes them.
WellFormed(records) ==
    LET t == records.terminal
        s == records.success
    IN  /\ ~(/\ t.attempt # 0 /\ ~t.ok /\ t.gen # NoGen
             /\ s.attempt # 0 /\ s.gen # NoGen /\ t.gen < s.gen)
        /\ t.ok => s.attempt = t.attempt /\ s.gen = t.gen

Trouble(what) ==
    /\ what \in bounds.kinds
    /\ bounds.faults > 0
    /\ bounds' = [bounds EXCEPT !.faults = @ - 1]

FileEvent(m)  == [kind |-> "file", of |-> m]
DirEvent(f)   == [kind |-> "dir", of |-> f]
StampEvent(s) == [kind |-> "stamp", of |-> s]
MarkerEvent   == [kind |-> "marker", of |-> NoStamp]
Overflow      == [kind |-> "overflow", of |-> NoStamp]

Event == {FileEvent(m) : m \in Messages} \cup {DirEvent(f) : f \in Folders}
         \cup {StampEvent(s) : s \in Stamp} \cup {MarkerEvent, Overflow}

\* What the kernel does with an event of a directory that is (heard) or is not
\* watched; a full queue drops it, leaving one overflow record at its end.
Announce(event, heard) ==
    IF heard
    THEN \/ events' = Append(events, event) /\ UNCHANGED bounds
         \/ events' = Append(events, Overflow) /\ Trouble("overflow")
         \/ /\ events # <<>> /\ events[Len(events)] = Overflow
            /\ UNCHANGED <<events, bounds>>
    ELSE UNCHANGED <<events, bounds>>

MaildirType ==
    /\ delivered \in [Messages -> Attempts]
    /\ open \subseteq made /\ made \subseteq Folders
    /\ stamp \in Stamp
    /\ status \in Records
    /\ watching \in BOOLEAN
    /\ watched \subseteq Folders
    /\ events \in Seq(Event)
    /\ \E s \in Scenarios :
          \E left \in 0..s.faults : bounds = [s EXCEPT !.faults = left]

MaildirInit ==
    /\ delivered = [m \in Messages |-> 0]
    /\ made = Standing /\ open = Standing
    /\ stamp = NoStamp
    /\ status = [terminal |-> NoRecord, success |-> NoRecord]
    /\ watching = FALSE /\ watched = {} /\ events = <<>>
    /\ bounds \in Scenarios
=============================================================================

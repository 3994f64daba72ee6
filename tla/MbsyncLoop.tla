----------------------------- MODULE MbsyncLoop -----------------------------
(***************************************************************************)
(* The shell of the mbsync container (src/mbsync/entrypoint.sh): one sync  *)
(* attempt after another, each of which delivers mail, repairs the         *)
(* permissions, allocates a generation, writes the success stamp and       *)
(* publishes its outcome, and may be stopped or killed between any two of  *)
(* these.                                                                  *)
(***************************************************************************)
EXTENDS Maildir, FiniteSetsExt

VARIABLES
    shell,      \* where the shell is
    attempt,    \* collection_attempt_id, 0 between attempts
    begun,      \* attempts begun so far, by every start
    succeeded,  \* sync_outcome is not failed
    generation, \* sync_generation
    counter,    \* the generation file in the state volume, 0 when absent
    mem         \* collection_last_terminal and collection_last_success

mbsync == <<shell, attempt, begun, succeeded, generation, counter, mem>>

Running == {"syncing", "repaired"}              \* run_sync has no result yet
Settling == {"ready", "allocated", "stamped"}   \* it has left one

\* A slip: the evidence retained outside the state volume is ignored.
CounterOnly == counter

\* current_success_generation, seeded forward from the stamp and the records.
CurrentGeneration ==
    Max({counter, stamp.gen, mem.terminal.gen, mem.success.gen})

\* publish_collection_status: a failure is only warned.
Publish(records) ==
    \/ status' = records /\ UNCHANGED bounds
    \/ UNCHANGED status /\ Trouble("publish")

\* finish_collection_attempt.
Finish(ok, gen) ==
    LET record == [attempt |-> attempt, ok |-> ok, gen |-> gen]
        records == [terminal |-> record,
                    success |-> IF ok THEN record ELSE mem.success]
    IN  /\ mem' = records
        /\ Publish(records)
        /\ attempt' = 0

BeginAttempt ==
    /\ shell = "idle" /\ begun < bounds.attempts
    /\ begun' = begun + 1
    /\ attempt' = begun + 1
    /\ succeeded' = FALSE /\ generation' = NoGen
    /\ Publish(mem)
    /\ shell' = "syncing"
    /\ UNCHANGED <<counter, mem, delivered, made, open, stamp, kernel>>

\* mbsync creates a folder 0700.
CreateFolder(f) ==
    /\ shell = "syncing" /\ f \notin made
    /\ made' = made \cup {f}
    /\ Announce(DirEvent(f), watching)
    /\ UNCHANGED <<mbsync, delivered, open, stamp, status, watching, watched>>

DeliverMail(m) ==
    /\ shell = "syncing" /\ delivered[m] = 0 /\ FolderOf[m] \in made
    /\ delivered' = [delivered EXCEPT ![m] = attempt]
    /\ Announce(FileEvent(m), watching /\ FolderOf[m] \in watched)
    /\ UNCHANGED <<mbsync, made, open, stamp, status, watching, watched>>

\* mbsync ends, well or not, and relax_new_maildir_perms follows either way;
\* when the repair fails the attempt does, and some of the folders may be open
\* all the same.
EndMbsync ==
    /\ shell = "syncing"
    /\ \/ succeeded' = TRUE /\ open' = made /\ UNCHANGED bounds
       \/ succeeded' = FALSE /\ open' = made /\ Trouble("mbsync")
       \/ /\ Trouble("repair") /\ succeeded' = FALSE
          /\ \E some \in SUBSET (made \ open) : open' = open \cup some
    /\ shell' = "repaired"
    /\ UNCHANGED <<attempt, begun, generation, counter, mem>>
    /\ UNCHANGED <<delivered, made, stamp, status, kernel>>

\* signal_perms_repaired: the marker's rename, before any stamp; a failure is
\* only warned.
SignalRepair ==
    /\ shell = "repaired"
    /\ \/ Announce(MarkerEvent, watching)
       \/ UNCHANGED events /\ Trouble("signal")
    /\ shell' = "ready"
    /\ UNCHANGED <<attempt, begun, succeeded, generation, counter, mem>>
    /\ UNCHANGED <<maildir, watching, watched>>

\* A failure's floor, null when the counter cannot be read.
Floors == {CurrentGeneration} \cup (IF "generation" \in bounds.kinds THEN {NoGen} ELSE {})
Fail == \E floor \in Floors : Finish(FALSE, floor)

RecordFailure ==
    /\ shell = "ready" /\ ~succeeded
    /\ Fail
    /\ shell' = "idle"
    /\ UNCHANGED <<begun, succeeded, generation, counter>>
    /\ UNCHANGED <<delivered, made, open, stamp, kernel>>

\* next_success_generation: persisted before anything names it.
Allocate ==
    /\ shell = "ready" /\ succeeded
    /\ counter' = CurrentGeneration + 1
    /\ shell' = "allocated"
    /\ UNCHANGED <<attempt, begun, succeeded, generation, mem>>
    /\ UNCHANGED <<maildir, kernel, bounds>>

\* stamp_write_failed after the allocation failed: the outcome is published
\* with no generation, and the container restarts.
AllocationFails ==
    /\ shell = "ready" /\ succeeded /\ "generation" \in bounds.kinds
    /\ Finish(TRUE, NoGen)
    /\ shell' = "down"
    /\ UNCHANGED <<begun, succeeded, generation, counter>>
    /\ UNCHANGED <<delivered, made, open, stamp, kernel>>

\* The rest of record_successful_sync.
WriteStamp ==
    /\ shell = "allocated"
    /\ generation' = counter
    /\ stamp' = [attempt |-> attempt, gen |-> counter]
    /\ Announce(StampEvent(stamp'), watching)
    /\ shell' = "stamped"
    /\ UNCHANGED <<attempt, begun, succeeded, counter, mem>>
    /\ UNCHANGED <<delivered, made, open, status, watching, watched>>

\* The same, when the stamp cannot be written.
StampFails ==
    /\ shell = "allocated" /\ "stamp" \in bounds.kinds
    /\ generation' = counter
    /\ Finish(TRUE, counter)
    /\ shell' = "down"
    /\ UNCHANGED <<begun, succeeded, counter>>
    /\ UNCHANGED <<delivered, made, open, stamp, kernel>>

RecordSuccess ==
    /\ shell = "stamped"
    /\ Finish(TRUE, generation)
    /\ shell' = "idle"
    /\ UNCHANGED <<begun, succeeded, generation, counter>>
    /\ UNCHANGED <<delivered, made, open, stamp, kernel>>

\* stop_on_signal, or the exit after too many failures in a row: an attempt
\* with no result is an interrupted failure, one with a result keeps it.  A
\* stop right after the allocation finds sync_generation set or not yet.
Stopped ==
    \/ shell = "idle" /\ UNCHANGED <<attempt, mem, status, bounds>>
    \/ /\ shell \in Running \/ (shell = "ready" /\ ~succeeded)
       /\ Fail
    \/ /\ shell \in Settling /\ succeeded
       /\ \E gen \in IF shell = "allocated" THEN {generation, counter}
                     ELSE {generation} : Finish(TRUE, gen)

StopShell ==
    /\ "stop" \in bounds.kinds
    /\ Stopped
    /\ shell' = "down"
    /\ UNCHANGED <<begun, succeeded, generation, counter>>
    /\ UNCHANGED <<delivered, made, open, stamp, kernel>>

\* Killed outright: nothing more is published.
KillShell ==
    /\ shell # "down"
    /\ Trouble("kill")
    /\ shell' = "down"
    /\ UNCHANGED <<attempt, begun, succeeded, generation, counter, mem>>
    /\ UNCHANGED <<maildir, kernel>>

\* The state volume is recreated, or restored from an older backup.
LoseState ==
    /\ shell = "down" /\ counter > 0
    /\ Trouble("state")
    /\ counter' \in 0..(counter - 1)
    /\ UNCHANGED <<shell, attempt, begun, succeeded, generation, mem>>
    /\ UNCHANGED <<maildir, kernel>>

\* A slip: a start carries the last outcome over, but not the last success.
StartForgetful ==
    /\ shell = "down"
    /\ mem' = [status EXCEPT !.success = NoRecord]
    /\ attempt' = 0
    /\ shell' = "idle"
    /\ UNCHANGED <<begun, succeeded, generation, counter>>
    /\ UNCHANGED <<maildir, kernel, bounds>>

\* load_collection_records: the status file is the records' only store.
StartShell ==
    /\ shell = "down"
    /\ mem' = status
    /\ attempt' = 0
    /\ shell' = "idle"
    /\ UNCHANGED <<begun, succeeded, generation, counter>>
    /\ UNCHANGED <<maildir, kernel, bounds>>

MbsyncType ==
    /\ shell \in {"down", "idle"} \cup Running \cup Settling
    /\ attempt \in Attempts /\ begun \in Attempts
    /\ succeeded \in BOOLEAN
    /\ generation \in Generations \cup {NoGen}
    /\ counter \in Generations
    /\ mem \in Records

MbsyncInit ==
    /\ shell = "down"
    /\ attempt = 0 /\ begun = 0
    /\ succeeded = FALSE
    /\ generation = NoGen /\ counter = 0
    /\ mem = [terminal |-> NoRecord, success |-> NoRecord]

Sync ==
    \/ BeginAttempt \/ EndMbsync \/ SignalRepair \/ RecordFailure
    \/ Allocate \/ AllocationFails \/ WriteStamp \/ StampFails \/ RecordSuccess
    \/ StopShell \/ KillShell \/ LoseState \/ StartShell
    \/ \E f \in {FolderOf[m] : m \in bounds.mail} : CreateFolder(f)
    \/ \E m \in bounds.mail : DeliverMail(m)
=============================================================================

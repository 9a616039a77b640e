------------------------------ MODULE DataOps ------------------------------
(***************************************************************************)
(* The operators' scripts around the data volume: backup.sh, run by hand   *)
(* or by cron and possibly twice at once, and purge-expired.sh, between    *)
(* the operator's stop and start of the services.  A script may fail at a  *)
(* command and may be sent a signal between two commands; MaxFaults bounds *)
(* both together.  A signal acts after the command under way, as a shell   *)
(* trap does.  docker compose and tar are external.                        *)
(*                                                                         *)
(* A document is a symlink and a directory of versions.                    *)
(***************************************************************************)
EXTENDS Naturals

CONSTANTS
    Backups,   \* invocations of backup.sh, on one output path
    Jobs,      \* what may run together: sets of "backup" and "purge"
    Docs,      \* documents
    Expired,   \* those older than the threshold
    MaxFaults  \* bound: failed commands and signals

Absent == "absent"

ASSUME OpsAssumption ==
    /\ Jobs \subseteq SUBSET {"backup", "purge"}
    /\ Expired \subseteq Docs
    /\ {Absent, "older"} \cap Backups = {}
    /\ MaxFaults \in Nat

VARIABLES
    jobs,      \* the scripts that are run, fixed
    up,        \* the data services that run
    link, versions, \* the documents with a symlink, with a version directory
    lock,      \* .backup.lock exists
    final,     \* what is at the output path: [archive, checksum]
    backup,    \* backup[b]: the step invocation b is at
    restart,   \* restart[b]: restart_services
    owns,      \* owns[b]: owns_final
    seen,      \* seen[b]: what tar has read, [read, link, versions]
    purge,     \* the step of the purge
    expiring,  \* candidates not yet deleted
    stopped,   \* the operator has stopped the services for the purge
    faults,
    before     \* history: the services that ran at first

backupVars == <<lock, final, backup, restart, owns, seen>>
purgeVars == <<purge, expiring, stopped>>
vars == <<jobs, up, link, versions, backupVars, purgeVars, faults, before>>

Services == {"adapter", "demarkus"}
Parts == {"link", "versions"}
Init ==
    /\ jobs \in Jobs
    /\ up \in SUBSET Services /\ before = up
    /\ link \in {Expired, Docs} /\ versions = link
    /\ lock = FALSE
    /\ \E f \in {Absent, "older"} : final = [archive |-> f, checksum |-> f]
    /\ backup = [b \in Backups |-> "idle"]
    /\ restart = [b \in Backups |-> {}]
    /\ owns = [b \in Backups |-> FALSE]
    /\ seen = [b \in Backups |-> [read |-> {}, link |-> {}, versions |-> {}]]
    /\ purge = "idle" /\ expiring = {} /\ stopped = FALSE
    /\ faults = 0

Goto(b, step) == backup' = [backup EXCEPT ![b] = step]

\* A command fails or a signal arrives.
Fault == faults < MaxFaults /\ faults' = faults + 1

-----------------------------------------------------------------------------
(* backup.sh.                                                              *)

\* A bug of the order of mkdir and trap: the loser's cleanup runs too.
LockGuarded(b) ==
    /\ "backup" \in jobs /\ backup[b] = "idle"
    /\ IF lock THEN Goto(b, "cleanup") /\ UNCHANGED lock
       ELSE Goto(b, "locked") /\ lock' = TRUE
    /\ UNCHANGED <<jobs, up, link, versions, final, restart, owns, seen, purgeVars, faults, before>>

Lock(b) ==
    /\ "backup" \in jobs /\ backup[b] = "idle"
    /\ IF lock THEN Goto(b, "ended") /\ UNCHANGED lock
       ELSE Goto(b, "locked") /\ lock' = TRUE
    /\ UNCHANGED <<jobs, up, link, versions, final, restart, owns, seen, purgeVars, faults, before>>

\* trap, then the refusal to overwrite
Guard(b) ==
    /\ \/ backup[b] = "locked" /\ Goto(b, "guarded") /\ UNCHANGED owns
       \/ /\ backup[b] = "guarded"
          /\ IF final = [archive |-> Absent, checksum |-> Absent]
             THEN Goto(b, "owner") /\ owns' = [owns EXCEPT ![b] = TRUE]
             ELSE Goto(b, "cleanup") /\ UNCHANGED owns
    /\ UNCHANGED <<jobs, up, link, versions, lock, final, restart, seen, purgeVars, faults, before>>

Record(b) ==
    /\ backup[b] = "owner"
    /\ restart' = [restart EXCEPT ![b] = up]
    /\ Goto(b, "recorded")
    /\ UNCHANGED <<jobs, up, link, versions, lock, final, owns, seen, purgeVars, faults, before>>

\* A bug: only the adapter is stopped before the volume is read.
StopAdapter(b) ==
    /\ backup[b] = "recorded"
    /\ up' = up \ {"adapter"}
    /\ Goto(b, "reading")
    /\ UNCHANGED <<jobs, link, versions, lock, final, restart, owns, seen, purgeVars, faults, before>>

Stop(b) ==
    /\ backup[b] = "recorded"
    /\ up' = {}
    /\ Goto(b, "reading")
    /\ UNCHANGED <<jobs, link, versions, lock, final, restart, owns, seen, purgeVars, faults, before>>

\* tar reads the symlink and the versions of a document at different times.
Read(b, d, part) ==
    /\ backup[b] = "reading" /\ <<d, part>> \notin seen[b].read
    /\ seen' = [seen EXCEPT ![b] =
          [read |-> @.read \cup {<<d, part>>},
           link |-> @.link \cup (IF part = "link" THEN {d} \cap link ELSE {}),
           versions |-> @.versions \cup (IF part = "versions" THEN {d} \cap versions ELSE {})]]
    /\ UNCHANGED <<jobs, up, link, versions, lock, final, backup, restart, owns, purgeVars, faults, before>>

\* The two renames; published=1 follows the second.
Publish(b) ==
    /\ \/ /\ backup[b] = "reading" /\ seen[b].read = Docs \X Parts
          /\ Goto(b, "half")
          /\ final' = [final EXCEPT !.archive = b]
       \/ /\ backup[b] = "half"
          /\ Goto(b, "published")
          /\ final' = [final EXCEPT !.checksum = b]
    /\ UNCHANGED <<jobs, up, link, versions, lock, restart, owns, seen, purgeVars, faults, before>>

\* owns is cleared with published=1: both only guard cleanup's removal.
Restart(b) ==
    /\ backup[b] = "published"
    /\ up' = up \cup restart[b]
    /\ restart' = [restart EXCEPT ![b] = {}]
    /\ owns' = [owns EXCEPT ![b] = FALSE]
    /\ Goto(b, "cleanup")
    /\ UNCHANGED <<jobs, link, versions, lock, final, seen, purgeVars, faults, before>>

Guarded == {"guarded", "owner", "recorded", "reading", "half", "published"}

\* set -e or a trapped signal: the EXIT trap runs.  compose stop may have
\* stopped the adapter before it failed.
Abort(b) ==
    /\ Fault
    /\ backup[b] \in Guarded
    /\ up' \in {up} \cup (IF backup[b] = "recorded" THEN {up \ {"adapter"}} ELSE {})
    /\ owns' = [owns EXCEPT ![b] = @ /\ backup[b] # "published"]
    /\ Goto(b, "cleanup")
    /\ UNCHANGED <<jobs, link, versions, lock, final, restart, seen, purgeVars, before>>

\* A bug of the cleanup: the half-published files are left.
CleanupKeeps(b) ==
    /\ \/ /\ backup[b] = "cleanup"
          /\ up' = up \cup restart[b]
          /\ Goto(b, "restarted")
          /\ UNCHANGED <<jobs, lock, final>>
       \/ /\ backup[b] = "restarted"
          /\ lock' = FALSE
          /\ Goto(b, "ended")
          /\ UNCHANGED <<jobs, up, final>>
    /\ UNCHANGED <<jobs, link, versions, restart, owns, seen, purgeVars, faults, before>>

\* A bug of the cleanup: the services wait for an operator.
CleanupNoRestart(b) ==
    /\ backup[b] = "cleanup"
    /\ final' = IF owns[b] THEN [archive |-> Absent, checksum |-> Absent] ELSE final
    /\ lock' = FALSE
    /\ Goto(b, "ended")
    /\ UNCHANGED <<jobs, up, link, versions, restart, owns, seen, purgeVars, faults, before>>

Cleanup(b) ==
    /\ \/ /\ backup[b] = "cleanup"
          /\ up' = up \cup restart[b]
          /\ Goto(b, "restarted")
          /\ UNCHANGED <<jobs, lock, final>>
       \/ /\ backup[b] = "restarted"
          /\ final' = IF owns[b] THEN [archive |-> Absent, checksum |-> Absent] ELSE final
          /\ lock' = FALSE
          /\ Goto(b, "ended")
          /\ UNCHANGED up
    /\ UNCHANGED <<jobs, link, versions, restart, owns, seen, purgeVars, faults, before>>

\* No trap is set before Guard, and cleanup resets the traps: a signal ends
\* the script on the spot.
Kill(b) ==
    /\ Fault
    /\ backup[b] \in {"locked", "cleanup", "restarted"}
    /\ Goto(b, "ended")
    /\ UNCHANGED <<jobs, up, link, versions, lock, final, restart, owns, seen, purgeVars, before>>

-----------------------------------------------------------------------------
(* purge-expired.sh --execute and the operator's commands around it.       *)

OperatorStop ==
    /\ "purge" \in jobs /\ purge = "idle" /\ ~stopped
    /\ stopped' = TRUE
    /\ up' = {}
    /\ UNCHANGED <<jobs, link, versions, backupVars, purge, expiring, faults, before>>

OperatorStart ==
    /\ purge \in {"idle", "ended"} /\ stopped
    /\ stopped' = FALSE
    /\ up' = before
    /\ UNCHANGED <<jobs, link, versions, backupVars, purge, expiring, faults, before>>

CheckStopped ==
    /\ "purge" \in jobs /\ purge = "idle"
    /\ purge' = IF up = {} THEN "checked" ELSE "ended"
    /\ UNCHANGED <<jobs, up, link, versions, backupVars, expiring, stopped, faults, before>>

Find ==
    /\ purge = "checked"
    /\ purge' = "deleting"
    /\ expiring' = link \cap Expired
    /\ UNCHANGED <<jobs, up, link, versions, backupVars, stopped, faults, before>>

\* A bug of the order: the versions are deleted first.
UnlinkLast(d) ==
    /\ purge = "deleting" /\ d \in expiring /\ expiring \subseteq link
    /\ versions' = versions \ {d} /\ link' = link
    /\ UNCHANGED <<jobs, up, backupVars, purgeVars, faults, before>>

\* rm -f of the symlink
Unlink(d) ==
    /\ purge = "deleting" /\ d \in expiring /\ expiring \subseteq link
    /\ link' = link \ {d}
    /\ UNCHANGED <<jobs, up, versions, backupVars, purgeVars, faults, before>>

\* A bug: the versions are left to a later run.
DropVersionsLater(d) ==
    /\ purge = "deleting" /\ d \in expiring \ link
    /\ expiring' = expiring \ {d}
    /\ UNCHANGED <<jobs, up, link, versions, backupVars, purge, stopped, faults, before>>

\* rm -rf of the version directory
DropVersions(d) ==
    /\ purge = "deleting" /\ d \in expiring \ link
    /\ versions' = versions \ {d}
    /\ expiring' = expiring \ {d}
    /\ UNCHANGED <<jobs, up, link, backupVars, purge, stopped, faults, before>>

PurgeEnds ==
    /\ \/ purge = "deleting" /\ expiring = {} /\ UNCHANGED faults
       \/ purge \in {"checked", "deleting"} /\ Fault
    /\ purge' = "ended"
    /\ UNCHANGED <<jobs, up, link, versions, backupVars, expiring, stopped, before>>

\* The next day's run.
PurgeAgain ==
    /\ purge = "ended"
    /\ purge' = "idle"
    /\ expiring' = {}
    /\ UNCHANGED <<jobs, up, link, versions, backupVars, stopped, faults, before>>

-----------------------------------------------------------------------------
\* demarkus stores a document while it runs, for an adapter that may be gone.
Store(d) ==
    /\ "demarkus" \in up /\ d \notin versions
    /\ link' = link \cup {d} /\ versions' = versions \cup {d}
    /\ UNCHANGED <<jobs, up, backupVars, purgeVars, faults, before>>

Idle ==
    /\ \A b \in Backups : backup[b] \in {"idle", "ended"}
    /\ UNCHANGED vars

BackupStep(b) ==
    \/ Lock(b) \/ Guard(b) \/ Record(b) \/ Stop(b)
    \/ \E d \in Docs, part \in Parts : Read(b, d, part)
    \/ Publish(b) \/ Restart(b) \/ Abort(b) \/ Cleanup(b) \/ Kill(b)

PurgeStep ==
    \/ OperatorStop \/ OperatorStart \/ CheckStopped \/ Find
    \/ \E d \in Docs : Unlink(d) \/ DropVersions(d)
    \/ PurgeEnds \/ PurgeAgain

Next ==
    \/ \E b \in Backups : BackupStep(b)
    \/ PurgeStep
    \/ \E d \in Docs : Store(d)
    \/ Idle

Spec == Init /\ [][Next]_vars

-----------------------------------------------------------------------------
\* Every variable has its type.
TypeOK ==
    /\ jobs \in Jobs
    /\ up \subseteq Services /\ before \subseteq Services
    /\ link \subseteq Docs /\ versions \subseteq Docs
    /\ lock \in BOOLEAN
    /\ final \in [{"archive", "checksum"} -> Backups \cup {Absent, "older"}]
    /\ backup \in [Backups ->
          Guarded \cup {"idle", "locked", "cleanup", "restarted", "ended"}]
    /\ restart \in [Backups -> SUBSET Services]
    /\ owns \in [Backups -> BOOLEAN]
    /\ seen \in [Backups ->
          [read : SUBSET (Docs \X Parts), link : SUBSET Docs, versions : SUBSET Docs]]
    /\ purge \in {"idle", "checked", "deleting", "ended"}
    /\ expiring \subseteq Docs
    /\ stopped \in BOOLEAN
    /\ faults \in 0 .. MaxFaults

\* Backups are serialized: whoever is past the lock is alone and the lock is
\* there, so a loser's exit never opens it (operations.md:89).
Serialized ==
    \A b \in Backups : backup[b] \notin {"idle", "ended"} =>
       lock /\ \A c \in Backups \ {b} : backup[c] \in {"idle", "ended"}

Quiet == \A b \in Backups : backup[b] \in {"idle", "ended"}

\* "reliably restarts previously active services on success, failure, or
\* interruption" (operations.md:89).  While the operator has them stopped for
\* a purge they are the operator's.
ServicesRestored == Quiet /\ ~stopped => up = before

\* An archive and its checksum are published together or not at all, and a
\* file that was there before is never touched (operations.md:89).
PublishedWhole ==
    /\ Quiet => final.archive = final.checksum
    /\ final.archive = "older" <=> final.checksum = "older"

\* "Backups are filesystem-consistent" (operations.md:83): a document is in a
\* published archive with its versions or not at all.
ArchiveConsistent ==
    \A b \in Backups : final.archive = b => seen[b].link = seen[b].versions

\* "--execute ... refuses while either data service runs" (operations.md:155).
DeletesOnlyStopped == [][link' \subseteq link /\ link' # link => up = {}]_vars

\* What demarkus serves is there: no document loses its versions before its
\* symlink, wherever the purge is interrupted (purge-expired.sh:99).
NeverDangling == link \subseteq versions

\* "it removes that current symlink and its matching version directory"
\* (operations.md:166): no run of the purge ends with half of a document.
PurgedWhole == purge \in {"idle", "ended"} => versions = link

-----------------------------------------------------------------------------
(* What makes the properties above inductive, where a backup and a purge   *)
(* do not run together.  Restored and Whole also take at most one fault.   *)

Early == {"idle", "locked", "guarded", "owner", "recorded"}

\* One script at a time, and only a purge takes a document apart.
Apart ==
    /\ ~({"backup", "purge"} \subseteq jobs)
    /\ \A b \in Backups : backup[b] # "idle" => "backup" \in jobs
    /\ purge # "idle" \/ stopped => "purge" \in jobs
    /\ "purge" \notin jobs => versions = link

\* What tar has read is still what is there: nothing runs while it reads.
ReadsStand ==
    \A b \in Backups :
       /\ backup[b] \in {"reading", "half", "published"} => up = {}
       /\ backup[b] \in Early => seen[b] = [read |-> {}, link |-> {}, versions |-> {}]
       /\ backup[b] \in Early \cup {"reading"} => final.archive # b
       /\ backup[b] = "reading" => \A d \in Docs :
             /\ d \in seen[b].link <=> d \in link /\ <<d, "link">> \in seen[b].read
             /\ d \in seen[b].versions <=> d \in versions /\ <<d, "versions">> \in seen[b].read

\* Whoever holds the lock knows what to start again.
Restored ==
    /\ ServicesRestored
    /\ \A b \in Backups :
          /\ backup[b] \in {"locked", "guarded", "owner", "recorded", "restarted"} => up = before
          /\ backup[b] \in {"recorded", "reading", "half", "published"} => restart[b] = before
          /\ backup[b] = "cleanup" => up \cup restart[b] = before /\ (faults = 0 => up = before)
          /\ backup[b] \in {"idle", "locked", "guarded", "owner"} => restart[b] = {}

\* The files are of one kind, or the holder of the lock will remove them.
Whole ==
    /\ PublishedWhole
    /\ \A b \in Backups :
          /\ backup[b] \in {"idle", "locked", "guarded"} => ~owns[b]
          /\ backup[b] \in {"locked", "guarded"} => final.archive = final.checksum
          /\ backup[b] \in {"owner", "recorded", "reading"} =>
                owns[b] /\ final.archive = Absent /\ final.checksum = Absent
          /\ backup[b] = "half" => owns[b] /\ final.archive = b /\ final.checksum = Absent
          /\ backup[b] = "published" => final.archive = b /\ final.checksum = b
          /\ backup[b] \in {"cleanup", "restarted"} =>
                final.archive = final.checksum \/ (owns[b] /\ faults > 0)

IInv == TypeOK /\ Serialized /\ Apart /\ ReadsStand /\ ArchiveConsistent /\ NeverDangling
=============================================================================

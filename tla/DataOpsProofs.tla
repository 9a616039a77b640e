--------------------------- MODULE DataOpsProofs ---------------------------
(***************************************************************************)
(* The scripts for any number of invocations of backup.sh and any          *)
(* documents.  Backups are serialized and no symlink dangles, whatever     *)
(* fails and is interrupted.  Where a backup and a purge do not run        *)
(* together, archives are consistent too; and after one fault services     *)
(* come back, and what is published is whole.                              *)
(***************************************************************************)
EXTENDS DataOps, TLAPS

\* The operators do not begin a backup while they purge.
NotTogether == {"backup", "purge"} \notin Jobs

\* The initial state is well-typed.
LEMMA InitTypes == Init => TypeOK
<1> SUFFICES ASSUME Init PROVE TypeOK
  OBVIOUS
<1> USE OpsAssumption DEF Init
<1>1. final \in [{"archive", "checksum"} -> Backups \cup {Absent, "older"}]
  OBVIOUS
<1>2. /\ backup \in [Backups -> Guarded \cup {"idle", "locked", "cleanup", "restarted", "ended"}]
      /\ restart \in [Backups -> SUBSET Services] /\ owns \in [Backups -> BOOLEAN]
      /\ link \subseteq Docs /\ versions \subseteq Docs /\ expiring \subseteq Docs
  OBVIOUS
<1>3. seen \in [Backups ->
        [read : SUBSET (Docs \X Parts), link : SUBSET Docs, versions : SUBSET Docs]]
  OBVIOUS
<1>4. /\ jobs \in Jobs /\ up \subseteq Services /\ before \subseteq Services
      /\ lock = FALSE /\ purge = "idle" /\ stopped = FALSE /\ faults \in 0 .. MaxFaults
  OBVIOUS
<1> HIDE DEF Init
<1>5. QED
  BY <1>1, <1>2, <1>3, <1>4 DEF TypeOK

\* And satisfies the invariant.
LEMMA InitInv == NotTogether /\ Init => IInv
<1> SUFFICES ASSUME NotTogether, Init PROVE IInv
  OBVIOUS
<1>1. Apart
  <2>1. {"backup", "purge"} \subseteq jobs => jobs = {"backup", "purge"}
    BY OpsAssumption DEF Init
  <2>2. QED
    BY <2>1 DEF Init, Apart, NotTogether
<1>2. Serialized /\ ReadsStand /\ ArchiveConsistent /\ NeverDangling
  BY OpsAssumption DEF Init, Serialized, ReadsStand, ArchiveConsistent, NeverDangling, Early, Absent
<1>3. QED
  BY <1>1, <1>2, InitTypes DEF IInv

\* Types are kept by a backup.
LEMMA BackupTypes ==
  ASSUME TypeOK, NEW b \in Backups, BackupStep(b)
  PROVE  TypeOK'
<1> USE OpsAssumption DEF TypeOK, Goto, Fault, backupVars, purgeVars
<1> DEFINE Steps == Guarded \cup {"idle", "locked", "cleanup", "restarted", "ended"}
<1>1. CASE Lock(b) \/ Stop(b)
  <2>1. backup' \in [Backups -> Steps]
    BY <1>1 DEF Lock, Stop, Guarded
  <2>2. lock' \in BOOLEAN /\ up' \subseteq Services
    BY <1>1 DEF Lock, Stop
  <2>3. QED
    BY <1>1, <2>1, <2>2 DEF Lock, Stop
<1>8. CASE Guard(b)
  <2>1. PICK step \in {"guarded", "owner", "cleanup"} : Goto(b, step)
    BY <1>8 DEF Guard
  <2>2. backup' \in [Backups -> Steps]
    BY <2>1 DEF Guarded
  <2>3. owns' \in [Backups -> BOOLEAN]
    <3>1. owns' \in {owns, [owns EXCEPT ![b] = TRUE]}
      BY <1>8 DEF Guard
    <3>2. QED
      BY <3>1
  <2>4. QED
    BY <1>8, <2>2, <2>3 DEF Guard
<1>9. CASE Record(b)
  BY <1>9 DEF Record, Guarded
<1>2. ASSUME NEW d \in Docs, NEW part \in Parts, Read(b, d, part) PROVE TypeOK'
  <2>1. seen' \in [Backups ->
          [read : SUBSET (Docs \X Parts), link : SUBSET Docs, versions : SUBSET Docs]]
    BY <1>2 DEF Read
  <2>2. QED
    BY <1>2, <2>1 DEF Read
<1>3. CASE Publish(b)
  <2>1. final' \in [{"archive", "checksum"} -> Backups \cup {Absent, "older"}]
    BY <1>3 DEF Publish
  <2>2. QED
    BY <1>3, <2>1 DEF Publish, Guarded
<1>4. CASE Restart(b)
  BY <1>4 DEF Restart, Guarded
<1>10. CASE Kill(b)
  BY <1>10 DEF Kill, Guarded
<1>5. CASE Abort(b)
  BY <1>5 DEF Abort, Guarded
<1>6. CASE Cleanup(b)
  <2>1. final' \in [{"archive", "checksum"} -> Backups \cup {Absent, "older"}]
    BY <1>6 DEF Cleanup
  <2>2. QED
    BY <1>6, <2>1 DEF Cleanup, Guarded
<1>7. QED
  BY <1>1, <1>2, <1>3, <1>4, <1>5, <1>6, <1>8, <1>9, <1>10 DEF BackupStep

\* And by the purge, its operator, and demarkus.
LEMMA OtherTypes ==
  ASSUME TypeOK, PurgeStep \/ (\E d \in Docs : Store(d)) \/ UNCHANGED vars
  PROVE  TypeOK'
<1> USE OpsAssumption DEF TypeOK, Fault, backupVars, purgeVars
<1>1. CASE OperatorStop \/ OperatorStart \/ CheckStopped \/ Find
  BY <1>1 DEF OperatorStop, OperatorStart, CheckStopped, Find, Services
<1>2. ASSUME NEW d \in Docs, Unlink(d) \/ DropVersions(d) PROVE TypeOK'
  BY <1>2 DEF Unlink, DropVersions
<1>3. CASE PurgeEnds \/ PurgeAgain
  BY <1>3 DEF PurgeEnds, PurgeAgain
<1>4. CASE (\E d \in Docs : Store(d)) \/ UNCHANGED vars
  BY <1>4 DEF Store, vars
<1>5. QED
  BY <1>1, <1>2, <1>3, <1>4 DEF PurgeStep

\* Every step keeps them.
LEMMA TypesKept == TypeOK /\ [Next]_vars => TypeOK'
BY BackupTypes, OtherTypes DEF Next, Idle

\* The lock is taken by one at a time, and only its holder opens it.
LEMMA SerializedKept ==
  ASSUME TypeOK, Serialized, [Next]_vars
  PROVE  Serialized'
<1> USE DEF Serialized, TypeOK
<1>1. ASSUME NEW b \in Backups, BackupStep(b) PROVE Serialized'
  <2> USE DEF Goto
  <2>1. CASE Lock(b)
    BY <2>1 DEF Lock
  <2>2. CASE backup[b] \notin {"idle", "ended"} /\ (lock' = lock \/ backup'[b] = "ended")
             /\ \A c \in Backups \ {b} : backup'[c] = backup[c]
    BY <2>2
  <2>3. CASE Guard(b) \/ Record(b) \/ Stop(b) \/ Publish(b) \/ Restart(b)
    BY <2>2, <2>3 DEF Guard, Record, Stop, Publish, Restart
  <2>4. CASE Abort(b) \/ Cleanup(b) \/ Kill(b)
    BY <2>2, <2>4 DEF Abort, Cleanup, Kill, Guarded
  <2>5. CASE \E d \in Docs, part \in Parts : Read(b, d, part)
    BY <2>5 DEF Read
  <2>6. QED
    BY <1>1, <2>1, <2>3, <2>4, <2>5 DEF BackupStep
<1>2. CASE PurgeStep \/ (\E d \in Docs : Store(d)) \/ UNCHANGED vars
  BY <1>2 DEF PurgeStep, OperatorStop, OperatorStart, CheckStopped, Find, Unlink, DropVersions,
              PurgeEnds, PurgeAgain, Store, vars, backupVars
<1>3. QED
  BY <1>1, <1>2 DEF Next, Idle

\* The script that runs at first is the only one that ever runs.
LEMMA ApartKept ==
  ASSUME TypeOK, Apart, [Next]_vars
  PROVE  Apart'
<1> USE DEF Apart, TypeOK
<1>1. ASSUME NEW b \in Backups, BackupStep(b) PROVE Apart'
  <2>1. /\ "backup" \in jobs /\ UNCHANGED <<jobs, purge, stopped, link, versions>>
        /\ \A c \in Backups \ {b} : backup'[c] = backup[c]
    BY <1>1 DEF BackupStep, Lock, Guard, Record, Stop, Read, Publish, Restart, Abort, Cleanup, Kill,
                Goto, purgeVars, Guarded
  <2>2. QED
    BY <2>1
<1>2. CASE PurgeStep
  <2>1. "purge" \in jobs /\ jobs' = jobs /\ backup' = backup
    BY <1>2 DEF PurgeStep, OperatorStop, OperatorStart, CheckStopped, Find, Unlink, DropVersions,
                PurgeEnds, PurgeAgain, backupVars
  <2>2. QED
    BY <2>1
<1>3. CASE (\E d \in Docs : Store(d)) \/ UNCHANGED vars
  <2>1. UNCHANGED <<jobs, backup, purge, stopped>>
    BY <1>3 DEF Store, vars, backupVars, purgeVars
  <2>2. versions = link => versions' = link'
    BY <1>3 DEF Store, vars
  <2>3. QED
    BY <2>1, <2>2
<1>4. QED
  BY <1>1, <1>2, <1>3 DEF Next, Idle

\* A symlink goes before its versions.
LEMMA DanglingKept ==
  ASSUME NeverDangling, [Next]_vars
  PROVE  NeverDangling'
<1> USE DEF NeverDangling
<1>1. ASSUME NEW b \in Backups, BackupStep(b) PROVE NeverDangling'
  BY <1>1 DEF BackupStep, Lock, Guard, Record, Stop, Read, Publish, Restart, Abort, Cleanup, Kill
<1>2. CASE PurgeStep
  BY <1>2 DEF PurgeStep, OperatorStop, OperatorStart, CheckStopped, Find, Unlink, DropVersions,
              PurgeEnds, PurgeAgain
<1>3. CASE (\E d \in Docs : Store(d)) \/ UNCHANGED vars
  BY <1>3 DEF Store, vars
<1>4. QED
  BY <1>1, <1>2, <1>3 DEF Next, Idle

\* What a backup has read stays true until it publishes: nothing runs, and no
\* other script does.
LEMMA ReadsKept ==
  ASSUME IInv, [Next]_vars
  PROVE  ReadsStand' /\ ArchiveConsistent'
<1> USE OpsAssumption DEF IInv, TypeOK, Early
<1>1. ASSUME NEW b \in Backups, BackupStep(b) PROVE ReadsStand' /\ ArchiveConsistent'
  <2>1. /\ "backup" \in jobs /\ versions = link
        /\ UNCHANGED <<link, versions>>
        /\ \A c \in Backups \ {b} : backup'[c] = backup[c] /\ seen'[c] = seen[c]
    <3>1. backup[b] = "idle" => "backup" \in jobs
      BY <1>1 DEF BackupStep, Lock, Guard, Record, Stop, Read, Publish, Restart, Abort,
                  Cleanup, Kill, Guarded
    <3>2. UNCHANGED <<link, versions>>
      BY <1>1 DEF BackupStep, Lock, Guard, Record, Stop, Read, Publish, Restart, Abort,
                  Cleanup, Kill
    <3>3. \A c \in Backups \ {b} : backup'[c] = backup[c]
      <4>1. backup' = backup \/ \E step : Goto(b, step)
        BY <1>1 DEF BackupStep, Lock, Guard, Record, Stop, Read, Publish, Restart, Abort,
                    Cleanup, Kill
      <4>2. QED
        BY <4>1 DEF Goto
    <3>4. \A c \in Backups \ {b} : seen'[c] = seen[c]
      BY <1>1 DEF BackupStep, Lock, Guard, Record, Stop, Read, Publish, Restart, Abort,
                  Cleanup, Kill
    <3>5. QED
      BY <3>1, <3>2, <3>3, <3>4 DEF Apart
  <2>2. \A c \in Backups \ {b} : backup[b] \notin {"idle", "ended"} => backup[c] \in {"idle", "ended"}
    BY DEF Serialized
  <2>3. CASE Lock(b)
    <3>1. UNCHANGED <<up, final, seen>> /\ backup[b] = "idle" /\ backup'[b] \in {"ended", "locked"}
      BY <2>3 DEF Lock, Goto
    <3>2. QED
      BY <2>1, <3>1 DEF ReadsStand, ArchiveConsistent
  <2>4. CASE Guard(b) \/ Record(b) \/ Stop(b)
    <3>1. UNCHANGED <<final, seen>> /\ backup[b] \in {"locked", "guarded", "owner", "recorded"}
      BY <2>4 DEF Guard, Record, Stop
    <3>2. /\ backup'[b] \in {"guarded", "owner", "cleanup", "recorded", "reading"}
          /\ backup'[b] = "reading" => up' = {}
      BY <2>4 DEF Guard, Record, Stop, Goto
    <3>3. ArchiveConsistent'
      BY <3>1 DEF ArchiveConsistent
    <3>4. seen[b] = [read |-> {}, link |-> {}, versions |-> {}] /\ final.archive # b
      BY <3>1 DEF ReadsStand
    <3>5. \A c \in Backups \ {b} : backup'[c] \in {"idle", "ended"}
      BY <2>1, <2>2, <3>1
    <3>6. \A c \in Backups \ {b} : backup[c] = "idle" =>
             seen[c] = [read |-> {}, link |-> {}, versions |-> {}] /\ final.archive # c
      BY DEF ReadsStand
    <3> HIDE DEF IInv, TypeOK
    <3>7. ReadsStand'
      BY <2>1, <3>1, <3>2, <3>4, <3>5, <3>6 DEF ReadsStand
    <3>8. QED
      BY <3>3, <3>7
  <2>5. CASE Restart(b) \/ Abort(b) \/ Kill(b)
    <3>1. /\ UNCHANGED <<final, seen>> /\ backup[b] \notin {"idle", "ended"}
          /\ backup'[b] \in {"cleanup", "ended"}
      BY <2>5 DEF Restart, Abort, Kill, Goto, Guarded
    <3>2. ArchiveConsistent'
      BY <3>1 DEF ArchiveConsistent
    <3>3. \A c \in Backups \ {b} : backup'[c] \in {"idle", "ended"}
      BY <2>1, <2>2, <3>1
    <3>4. \A c \in Backups \ {b} : backup[c] = "idle" =>
             seen[c] = [read |-> {}, link |-> {}, versions |-> {}] /\ final.archive # c
      BY DEF ReadsStand
    <3> HIDE DEF IInv, TypeOK
    <3>5. ReadsStand'
      BY <2>1, <3>1, <3>3, <3>4 DEF ReadsStand
    <3>6. QED
      BY <3>2, <3>5
  <2>6. CASE Cleanup(b)
    BY <2>1, <2>2, <2>6 DEF Cleanup, Goto, ReadsStand, ArchiveConsistent, Absent
  <2>7. CASE Publish(b)
    <3>1. ASSUME backup[b] = "reading" PROVE seen[b].link = seen[b].versions
      <4>1. \A d \in Docs :
               (d \in seen[b].link <=> d \in link) /\ (d \in seen[b].versions <=> d \in versions)
        <5>1. \A d \in Docs : <<d, "link">> \in seen[b].read /\ <<d, "versions">> \in seen[b].read
          BY <2>7, <3>1 DEF Publish, Parts
        <5>2. QED
          BY <3>1, <5>1 DEF ReadsStand
      <4>2. /\ seen[b].link \subseteq Docs /\ seen[b].versions \subseteq Docs
            /\ link \subseteq Docs /\ versions \subseteq Docs
        OBVIOUS
      <4> HIDE DEF IInv, TypeOK
      <4>3. seen[b].link = link /\ seen[b].versions = versions
        BY <4>1, <4>2
      <4>4. QED
        BY <2>1, <4>3
    <3>2. seen' = seen /\ up' = up /\ final'.archive \in {final.archive, b}
          /\ backup'[b] \in {"half", "published"}
      BY <2>7 DEF Publish, Goto
    <3>3. ArchiveConsistent'
      BY <2>7, <3>1, <3>2 DEF Publish, ArchiveConsistent
    <3>4. ReadsStand'
      BY <2>1, <2>2, <2>7, <3>2 DEF Publish, ReadsStand
    <3>5. QED
      BY <3>3, <3>4
  <2>8. ASSUME NEW d \in Docs, NEW part \in Parts, Read(b, d, part)
        PROVE  ReadsStand' /\ ArchiveConsistent'
    <3>1. backup[b] = "reading" /\ UNCHANGED <<up, final, backup>>
      BY <2>8 DEF Read
    <3>2. ArchiveConsistent'
      BY <2>1, <3>1 DEF ArchiveConsistent, ReadsStand
    <3>a. /\ seen'[b].read = seen[b].read \cup {<<d, part>>}
          /\ seen'[b].link = seen[b].link \cup (IF part = "link" THEN {d} \cap link ELSE {})
          /\ seen'[b].versions =
                seen[b].versions \cup (IF part = "versions" THEN {d} \cap versions ELSE {})
      BY <2>8 DEF Read
    <3>c. ASSUME NEW e \in Docs PROVE
             /\ e \in seen'[b].link <=> e \in link /\ <<e, "link">> \in seen'[b].read
             /\ e \in seen'[b].versions <=> e \in versions /\ <<e, "versions">> \in seen'[b].read
      <4>1. /\ e \in seen[b].link <=> e \in link /\ <<e, "link">> \in seen[b].read
            /\ e \in seen[b].versions <=> e \in versions /\ <<e, "versions">> \in seen[b].read
        BY <3>1 DEF ReadsStand
      <4>2. /\ <<e, "link">> \in seen'[b].read <=>
                   <<e, "link">> \in seen[b].read \/ (e = d /\ part = "link")
            /\ <<e, "versions">> \in seen'[b].read <=>
                   <<e, "versions">> \in seen[b].read \/ (e = d /\ part = "versions")
        BY <3>a
      <4>3. /\ e \in seen'[b].link <=>
                   e \in seen[b].link \/ (part = "link" /\ e = d /\ e \in link)
            /\ e \in seen'[b].versions <=>
                   e \in seen[b].versions \/ (part = "versions" /\ e = d /\ e \in versions)
        BY <3>a
      <4> HIDE DEF IInv, TypeOK
      <4>4. QED
        BY <4>1, <4>2, <4>3
    <3>3. ReadsStand'
      BY <2>1, <3>1, <3>c DEF ReadsStand
    <3>4. QED
      BY <3>2, <3>3
  <2>9. QED
    BY <1>1, <2>3, <2>4, <2>5, <2>6, <2>7, <2>8 DEF BackupStep
<1>2. CASE PurgeStep
  <2>1. \A b \in Backups : backup[b] = "idle"
    BY <1>2 DEF Apart, PurgeStep, OperatorStop, OperatorStart, CheckStopped, Find, Unlink,
                DropVersions, PurgeEnds, PurgeAgain
  <2>2. UNCHANGED <<backup, seen, final>>
    BY <1>2 DEF PurgeStep, OperatorStop, OperatorStart, CheckStopped, Find, Unlink,
                DropVersions, PurgeEnds, PurgeAgain, backupVars
  <2>3. QED
    BY <2>1, <2>2 DEF ReadsStand, ArchiveConsistent
<1>3. CASE \E d \in Docs : Store(d)
  BY <1>3 DEF Store, backupVars, ReadsStand, ArchiveConsistent
<1>4. CASE UNCHANGED vars
  BY <1>4 DEF vars, backupVars, ReadsStand, ArchiveConsistent
<1>5. QED
  BY <1>1, <1>2, <1>3, <1>4 DEF Next, Idle

\* The invariant is inductive.
LEMMA NextInv == IInv /\ [Next]_vars => IInv'
<1> SUFFICES ASSUME IInv, [Next]_vars PROVE IInv'
  OBVIOUS
<1>1. TypeOK'
  BY TypesKept DEF IInv
<1>2. Serialized' /\ Apart' /\ NeverDangling'
  BY SerializedKept, ApartKept, DanglingKept DEF IInv
<1>3. QED
  BY <1>1, <1>2, ReadsKept DEF IInv

\* The invariant that carries the theorems below.
THEOREM OpsInvariant == NotTogether => (Spec => []IInv)
<1> SUFFICES ASSUME NotTogether PROVE Spec => []IInv
  OBVIOUS
<1>1. QED
  BY InitInv, NextInv, PTL DEF Spec

\* However many backups are started, whatever fails in them or kills them,
\* and a purge with them or not, one at most is past the lock
\* (operations.md:89).
THEOREM BackupsAreSerialized == Spec => []Serialized
<1>1. Init => TypeOK /\ Serialized
  BY InitTypes DEF Init, Serialized
<1>2. TypeOK /\ Serialized /\ [Next]_vars => (TypeOK /\ Serialized)'
  BY TypesKept, SerializedKept
<1>3. QED
  BY <1>1, <1>2, PTL DEF Spec

\* A published archive holds each document whole, after any faults
\* (operations.md:83).
THEOREM ArchivesAreConsistent == NotTogether => (Spec => []ArchiveConsistent)
<1> SUFFICES ASSUME NotTogether PROVE Spec => []ArchiveConsistent
  OBVIOUS
<1>1. IInv => ArchiveConsistent
  BY DEF IInv
<1>2. QED
  BY <1>1, OpsInvariant, PTL

\* Wherever a purge is interrupted, no symlink is left without its versions
\* (purge-expired.sh:99).
THEOREM NothingDangles == Spec => []NeverDangling
<1>1. Init => NeverDangling
  BY DEF Init, NeverDangling
<1>2. QED
  BY <1>1, DanglingKept, PTL DEF Spec

\* With one fault at most, the holder of the lock knows what to start again.
LEMMA RestoredKept ==
  ASSUME MaxFaults <= 1, IInv, Restored, [Next]_vars
  PROVE  Restored'
<1> USE OpsAssumption DEF IInv, TypeOK, Quiet, ServicesRestored
<1>1. ASSUME NEW b \in Backups, BackupStep(b) PROVE Restored'
  <2> USE DEF Early, Goto
  <2>1. /\ "backup" \in jobs /\ ~stopped /\ ~stopped' /\ before' = before
        /\ \A c \in Backups \ {b} : backup'[c] = backup[c] /\ restart'[c] = restart[c]
    <3>1. backup[b] = "idle" => "backup" \in jobs
      BY <1>1 DEF BackupStep, Lock, Guard, Record, Stop, Read, Publish, Restart, Abort,
                  Cleanup, Kill, Guarded
    <3>2. stopped' = stopped /\ before' = before
      BY <1>1 DEF BackupStep, Lock, Guard, Record, Stop, Read, Publish, Restart, Abort,
                  Cleanup, Kill, purgeVars
    <3>3. \A c \in Backups \ {b} : backup'[c] = backup[c] /\ restart'[c] = restart[c]
      <4>1. /\ backup' = backup \/ \E step : Goto(b, step)
            /\ restart' = restart \/ \E x : restart' = [restart EXCEPT ![b] = x]
        BY <1>1 DEF BackupStep, Lock, Guard, Record, Stop, Read, Publish, Restart, Abort,
                    Cleanup, Kill
      <4>2. QED
        BY <4>1
    <3>4. QED
      BY <3>1, <3>2, <3>3 DEF Apart
  <2>2. \A c \in Backups \ {b} : backup[b] \notin {"idle", "ended"} => backup[c] \in {"idle", "ended"}
    BY DEF Serialized
  <2>3. CASE Lock(b)
    <3>1. /\ backup[b] = "idle" /\ UNCHANGED <<up, restart, faults>>
          /\ backup'[b] = "ended" \/ (~lock /\ backup'[b] = "locked")
      BY <2>3 DEF Lock
    <3>2. backup'[b] = "locked" => up = before
      BY <2>1, <3>1 DEF Serialized, Restored
    <3>3. ServicesRestored'
      BY <2>1, <3>1 DEF Restored
    <3>4. restart'[b] = {}
      BY <3>1 DEF Restored
    <3> HIDE DEF IInv, TypeOK
    <3>5. QED
      BY <2>1, <3>1, <3>2, <3>3, <3>4 DEF Restored
  <2>4. CASE Guard(b) \/ Record(b)
    BY <2>1, <2>2, <2>4 DEF Guard, Record, Restored
  <2>5. CASE Stop(b) \/ Publish(b)
    <3>1. /\ backup[b] \in {"recorded", "reading", "half"} /\ restart' = restart
          /\ backup'[b] \in {"reading", "half", "published"}
      BY <2>5 DEF Stop, Publish
    <3>2. restart[b] = before /\ \A c \in Backups \ {b} : backup'[c] \in {"idle", "ended"}
      BY <2>1, <2>2, <3>1 DEF Restored
    <3>3. \A c \in Backups \ {b} : backup[c] = "idle" => restart[c] = {}
      BY DEF Restored
    <3> HIDE DEF IInv, TypeOK
    <3>4. QED
      BY <2>1, <3>1, <3>2, <3>3 DEF Restored
  <2>6. CASE \E d \in Docs, part \in Parts : Read(b, d, part)
    BY <2>1, <2>6 DEF Read, Restored
  <2>7. CASE Restart(b)
    BY <2>1, <2>2, <2>7 DEF Restart, Restored, ReadsStand
  <2>8. CASE Abort(b)
    BY <2>1, <2>2, <2>8 DEF Abort, Fault, Guarded, Restored, ReadsStand
  <2>9. CASE Cleanup(b)
    <3>1. /\ restart' = restart /\ faults' = faults
          /\ \/ backup[b] = "cleanup" /\ backup'[b] = "restarted" /\ up' = up \cup restart[b]
             \/ backup[b] = "restarted" /\ backup'[b] = "ended" /\ up' = up
      BY <2>9 DEF Cleanup
    <3>2. up' = before /\ \A c \in Backups \ {b} : backup'[c] \in {"idle", "ended"}
      BY <2>1, <2>2, <3>1 DEF Restored
    <3>3. \A c \in Backups \ {b} : backup[c] = "idle" => restart[c] = {}
      BY DEF Restored
    <3> HIDE DEF IInv, TypeOK
    <3>4. QED
      BY <2>1, <3>1, <3>2, <3>3 DEF Restored
  <2>10. CASE Kill(b)
    BY <2>1, <2>2, <2>10 DEF Kill, Fault, Restored
  <2>11. QED
    BY <1>1, <2>3, <2>4, <2>5, <2>6, <2>7, <2>8, <2>9, <2>10 DEF BackupStep
<1>2. CASE PurgeStep
  <2>1. /\ "purge" \in jobs /\ UNCHANGED <<backup, restart, before>>
        /\ ~stopped' => up' = before \/ (~stopped /\ up' = up)
    <3>1. purge # "idle" \/ stopped \/ "purge" \in jobs
      BY <1>2 DEF PurgeStep, OperatorStop, OperatorStart, CheckStopped, Find, Unlink,
                  DropVersions, PurgeEnds, PurgeAgain
    <3>2. UNCHANGED <<backup, restart, before>>
      BY <1>2 DEF PurgeStep, OperatorStop, OperatorStart, CheckStopped, Find, Unlink,
                  DropVersions, PurgeEnds, PurgeAgain, backupVars
    <3>3. ~stopped' => up' = before \/ (~stopped /\ up' = up)
      BY <1>2 DEF PurgeStep, OperatorStop, OperatorStart, CheckStopped, Find, Unlink,
                  DropVersions, PurgeEnds, PurgeAgain, purgeVars
    <3>4. QED
      BY <3>1, <3>2, <3>3 DEF Apart
  <2>2. \A b \in Backups : backup[b] = "idle"
    BY <2>1 DEF Apart
  <2>3. QED
    BY <2>1, <2>2 DEF Restored
<1>3. CASE (\E d \in Docs : Store(d)) \/ UNCHANGED vars
  BY <1>3 DEF Store, vars, backupVars, purgeVars, Restored
<1>4. QED
  BY <1>1, <1>2, <1>3 DEF Next, Idle

\* With one fault at most, half a publication is its owner's to remove.
LEMMA WholeKept ==
  ASSUME MaxFaults <= 1, IInv, Whole, [Next]_vars
  PROVE  Whole'
<1> USE OpsAssumption DEF IInv, TypeOK, Quiet, PublishedWhole
<1>1. ASSUME NEW b \in Backups, BackupStep(b) PROVE Whole'
  <2> USE DEF Goto
  <2>1. \A c \in Backups \ {b} : backup'[c] = backup[c] /\ owns'[c] = owns[c]
    <3>1. /\ backup' = backup \/ \E step : Goto(b, step)
          /\ owns' = owns \/ \E x : owns' = [owns EXCEPT ![b] = x]
      BY <1>1 DEF BackupStep, Lock, Guard, Record, Stop, Read, Publish, Restart, Abort,
                  Cleanup, Kill
    <3>2. QED
      BY <3>1
  <2>2. \A c \in Backups \ {b} : backup[b] \notin {"idle", "ended"} => backup[c] \in {"idle", "ended"}
    BY DEF Serialized
  <2>3. CASE Lock(b)
    <3>1. /\ backup[b] = "idle" /\ UNCHANGED <<final, owns, faults>>
          /\ backup'[b] = "ended" \/ (~lock /\ backup'[b] = "locked")
      BY <2>3 DEF Lock
    <3>2. backup'[b] = "locked" => final.archive = final.checksum
      BY <3>1 DEF Serialized, Whole
    <3>3. PublishedWhole' /\ ~owns[b]
      BY <2>1, <3>1 DEF Whole
    <3> HIDE DEF IInv, TypeOK
    <3>4. QED
      BY <2>1, <3>1, <3>2, <3>3 DEF Whole
  <2>4. CASE Guard(b)
    BY <2>1, <2>2, <2>4 DEF Guard, Whole
  <2>5. CASE Record(b) \/ Stop(b)
    BY <2>1, <2>2, <2>5 DEF Record, Stop, Whole
  <2>6. CASE \E d \in Docs, part \in Parts : Read(b, d, part)
    BY <2>1, <2>6 DEF Read, Whole
  <2>7. CASE Publish(b)
    <3>1. /\ owns' = owns /\ faults' = faults
          /\ \/ backup[b] = "reading" /\ backup'[b] = "half"
                /\ final'.archive = b /\ final'.checksum = final.checksum
             \/ backup[b] = "half" /\ backup'[b] = "published"
                /\ final'.archive = final.archive /\ final'.checksum = b
      BY <2>7 DEF Publish
    <3>2. owns[b] /\ final'.archive = b /\ final'.checksum = IF backup[b] = "half" THEN b ELSE Absent
      BY <3>1 DEF Whole
    <3>3. b # "older" /\ Absent # "older"
      BY DEF Absent
    <3>4. \A c \in Backups \ {b} : backup'[c] \in {"idle", "ended"} /\ owns'[c] = owns[c]
      BY <2>1, <2>2, <3>1
    <3>5. \A c \in Backups \ {b} : backup[c] = "idle" => ~owns[c]
      BY DEF Whole
    <3> HIDE DEF IInv, TypeOK
    <3>6. PublishedWhole'
      BY <3>1, <3>2, <3>3
    <3>7. \A c \in Backups \ {b} : ~owns'[c] \/ backup'[c] = "ended"
      BY <2>1, <3>4, <3>5
    <3>8. QED
      BY <3>1, <3>2, <3>4, <3>6, <3>7 DEF Whole
  <2>8. CASE Restart(b)
    BY <2>1, <2>2, <2>8 DEF Restart, Whole
  <2>9. CASE Abort(b)
    BY <2>1, <2>2, <2>9 DEF Abort, Fault, Guarded, Whole
  <2>10. CASE Cleanup(b)
    BY <2>1, <2>2, <2>10 DEF Cleanup, Whole
  <2>11. CASE Kill(b)
    BY <2>1, <2>2, <2>11 DEF Kill, Fault, Whole
  <2>12. QED
    BY <1>1, <2>3, <2>4, <2>5, <2>6, <2>7, <2>8, <2>9, <2>10, <2>11 DEF BackupStep
<1>2. CASE PurgeStep
  <2>1. "purge" \in jobs /\ UNCHANGED <<backup, final, owns>>
    BY <1>2 DEF Apart, PurgeStep, OperatorStop, OperatorStart, CheckStopped, Find, Unlink,
                DropVersions, PurgeEnds, PurgeAgain, backupVars
  <2>2. \A b \in Backups : backup[b] = "idle"
    BY <2>1 DEF Apart
  <2>3. QED
    BY <2>1, <2>2 DEF Whole
<1>3. CASE (\E d \in Docs : Store(d)) \/ UNCHANGED vars
  BY <1>3 DEF Store, vars, backupVars, purgeVars, Whole
<1>4. QED
  BY <1>1, <1>2, <1>3 DEF Next, Idle

\* After one failed command or one signal, wherever it comes, the services
\* that a backup found running run again (operations.md:89).
THEOREM ServicesComeBack == NotTogether /\ MaxFaults <= 1 => (Spec => []ServicesRestored)
<1> SUFFICES ASSUME NotTogether, MaxFaults <= 1 PROVE Spec => []ServicesRestored
  OBVIOUS
<1>1. Init => Restored
  BY DEF Init, Restored, ServicesRestored, Quiet, Early
<1>2. IInv /\ Restored /\ [Next]_vars => Restored'
  BY RestoredKept
<1>3. Restored => ServicesRestored
  BY DEF Restored
<1>4. QED
  BY <1>1, <1>2, <1>3, OpsInvariant, PTL DEF Spec

\* And what is published is whole or gone.
THEOREM PublicationIsWhole == NotTogether /\ MaxFaults <= 1 => (Spec => []PublishedWhole)
<1> SUFFICES ASSUME NotTogether, MaxFaults <= 1 PROVE Spec => []PublishedWhole
  OBVIOUS
<1>1. Init => Whole
  BY DEF Init, Whole, PublishedWhole, Quiet
<1>2. IInv /\ Whole /\ [Next]_vars => Whole'
  BY WholeKept
<1>3. Whole => PublishedWhole
  BY DEF Whole
<1>4. QED
  BY <1>1, <1>2, <1>3, OpsInvariant, PTL DEF Spec
=============================================================================

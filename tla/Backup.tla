------------------------------- MODULE Backup -------------------------------
(***************************************************************************)
(* Backup: a snapshot is written beside the destination, checked, and      *)
(* published with a hard link.  Several backups may run at once, also to   *)
(* one destination, while the server writes to the database; a backup may  *)
(* be killed between any two steps, and be started again.                  *)
(*                                                                         *)
(* A file is "partial" while VACUUM INTO writes it, and then a "whole"     *)
(* database of one moment (its version), or a "damaged" one if the disk    *)
(* fails.  Left out: permissions, directories, and that CreateTemp may     *)
(* give one name twice (it has 32 random bits).                            *)
(***************************************************************************)
EXTENDS Naturals

CONSTANTS
  Backups,      \* runs of the backup command
  Destination,  \* paths
  MaxVersion    \* bound: transactions of the server

ASSUME BackupAssumption == MaxVersion \in Nat

VARIABLES
  version,   \* of the database: the transactions committed
  backup,    \* of each run: its step, destination, and the version at its start
  staging,   \* of each run: the temporary file
  published  \* of each destination: the file there

backupVars == <<version, backup, staging, published>>

File == [kind : {"absent", "empty", "partial", "damaged", "whole"}, version : 0..MaxVersion]
Absent == [kind |-> "absent", version |-> 0]
Resting == {"idle", "published", "failed", "killed"}

BackupInit ==
  /\ version = 0
  /\ backup \in [Backups -> [at : {"idle"}, to : Destination, since : {0}]]
  /\ staging = [b \in Backups |-> Absent]
  /\ published = [d \in Destination |-> Absent]

Goes(b, at) == backup' = [backup EXCEPT ![b].at = at]

\* The server commits a transaction.
Commit ==
  /\ version < MaxVersion /\ version' = version + 1
  /\ UNCHANGED <<backup, staging, published>>

\* os.Stat: the destination must not exist.
StatDestination(b) ==
  /\ backup[b].at = "idle"
  /\ backup' = [backup EXCEPT ![b].since = version,
       ![b].at = IF published[backup[b].to] = Absent THEN "reserve" ELSE "failed"]
  /\ UNCHANGED <<version, staging, published>>

\* os.CreateTemp, then os.Remove of the same name, for VACUUM INTO.
Reserve(b) ==
  /\ backup[b].at = "reserve"
  /\ staging' = [staging EXCEPT ![b] = [Absent EXCEPT !.kind = "empty"]] /\ Goes(b, "prepare")
  /\ UNCHANGED <<version, published>>

RemovePlaceholder(b) ==
  /\ backup[b].at = "prepare"
  /\ staging' = [staging EXCEPT ![b] = Absent] /\ Goes(b, "vacuum")
  /\ UNCHANGED <<version, published>>

\* VACUUM INTO: reads one version from its start to its end, and writes.
BeginVacuum(b) ==
  /\ backup[b].at = "vacuum"
  /\ staging' = [staging EXCEPT ![b] = [kind |-> "partial", version |-> version]]
  /\ Goes(b, "writing")
  /\ UNCHANGED <<version, published>>

EndVacuum(b) ==
  /\ backup[b].at = "writing"
  /\ \E kind \in {"whole", "damaged"} : staging' = [staging EXCEPT ![b].kind = kind]
  /\ Goes(b, "validate")
  /\ UNCHANGED <<version, published>>

\* integrityCheck of the new file; it may not be able to.
Validate(b) ==
  /\ backup[b].at = "validate" /\ staging[b].kind # "damaged"
  /\ Goes(b, "publish")
  /\ UNCHANGED <<version, staging, published>>

\* os.Link fails if the destination has appeared; the deferred Remove follows.  The
\* mutant renames.
Publish_Mutant(b) ==
  /\ backup[b].at = "publish"
  /\ published' = [published EXCEPT ![backup[b].to] = staging[b]]
  /\ Goes(b, "clean")
  /\ UNCHANGED <<version, staging>>

Publish(b) ==
  /\ backup[b].at = "publish" /\ published[backup[b].to] = Absent
  /\ published' = [published EXCEPT ![backup[b].to] = staging[b]]
  /\ Goes(b, "clean")
  /\ UNCHANGED <<version, staging>>

RemoveStaging(b) ==
  /\ backup[b].at = "clean"
  /\ staging' = [staging EXCEPT ![b] = Absent] /\ Goes(b, "published")
  /\ UNCHANGED <<version, published>>

\* A step fails, and the deferred Remove runs.
Fail(b) ==
  /\ backup[b].at \in {"reserve", "prepare", "vacuum", "writing", "validate", "publish"}
  /\ staging' = [staging EXCEPT ![b] = Absent] /\ Goes(b, "failed")
  /\ UNCHANGED <<version, published>>

\* The process is killed: what it wrote stays.
Kill(b) ==
  /\ backup[b].at \notin Resting
  /\ Goes(b, "killed")
  /\ UNCHANGED <<version, staging, published>>

BackupNext ==
  \/ Commit
  \/ \E b \in Backups :
       \/ StatDestination(b) \/ Reserve(b) \/ RemovePlaceholder(b)
       \/ BeginVacuum(b) \/ EndVacuum(b) \/ Validate(b) \/ Publish(b) \/ RemoveStaging(b)
       \/ Fail(b) \/ Kill(b)

BackupSpec == BackupInit /\ [][BackupNext]_backupVars

-----------------------------------------------------------------------------
(* Properties. *)

BackupTypeOK ==
  /\ version \in 0..MaxVersion
  /\ backup \in [Backups -> [at : Resting \cup {"reserve", "prepare", "vacuum", "writing",
                                               "validate", "publish", "clean"},
                             to : Destination, since : 0..MaxVersion]]
  /\ staging \in [Backups -> File]
  /\ published \in [Destination -> File]

\* What appears under the name of a backup is the whole database as it was at one
\* moment after the command was started, and a file that exists is never
\* overwritten, also not by a backup that found the name free when it began
\* (store/maintenance.go, lines 18-20).
PublishedOnce ==
  [][\A d \in Destination : published'[d] # published[d] =>
       /\ published[d] = Absent /\ published'[d].kind = "whole"
       /\ \E b \in Backups : /\ backup[b].at = "publish" /\ backup[b].to = d
                             /\ backup[b].since <= published'[d].version]_backupVars

-----------------------------------------------------------------------------
(* The inductive invariant behind PublishedOnce. *)

\* The temporary file holds a version that was there when the backup began, or a
\* later one, and is whole once it is to be published.
SnapshotRecent ==
  \A b \in Backups :
    /\ backup[b].since <= version
    /\ backup[b].at \in {"writing", "validate", "publish"} =>
         backup[b].since <= staging[b].version
    /\ backup[b].at = "validate" => staging[b].kind \in {"whole", "damaged"}
    /\ backup[b].at = "publish" => staging[b].kind = "whole"

BackupInv == BackupTypeOK /\ SnapshotRecent

=============================================================================

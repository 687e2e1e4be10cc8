-------------------------------- MODULE Disk --------------------------------
(***************************************************************************)
(* The three machines that must leave a disk in order through crashes: the *)
(* audited store, the backup and activation of its file, and the writer of *)
(* workspace files.  They share no state; each behaviour is one machine's, *)
(* picked at the start, and the others stay as they began, where their     *)
(* invariants hold.                                                        *)
(***************************************************************************)
EXTENDS AuditedStore, FileWriter

CONSTANTS
  \* of Backup, with MaxCrash
  MaxGeneration, MaxCommit, MaxIncident, Refusable

VARIABLES
  machine,
  \* of Backup
  disk, manifest, store, committed, task, incidents, restarts, cut

backup == <<disk, manifest, store, committed, task, incidents, restarts, cut>>

Db == INSTANCE Backup WITH crashes <- restarts

ASSUME DiskAssumption == Db!BackupParameters /\ WriterParameters

DiskInit ==
  /\ machine \in {"store", "backup", "writer"}
  /\ Init /\ Db!Init /\ WriterInit
  /\ machine # "writer" => file = [f \in File |-> Absent]

DiskNext ==
  \/ machine = "store" /\ Next
     /\ UNCHANGED <<machine, backup, writerVars>>
  \/ machine = "backup" /\ Db!Next
     /\ UNCHANGED <<machine, vars, writerVars>>
  \/ machine = "writer" /\ WriterNext
     /\ UNCHANGED <<machine, vars, backup>>

DiskSpec == DiskInit /\ [][DiskNext]_<<machine, vars, backup, writerVars>>

\* The properties of the backup, where they can fail.
OpenIsWhole == machine = "backup" => Db!OpenIsWhole
DatabasesKept == machine = "backup" => Db!DatabasesKept
NothingLost == machine = "backup" => Db!NothingLost
ActivationAtomic == Db!ActivationAtomic

=============================================================================

--------------------------------- MODULE Backup ---------------------------------
(***************************************************************************)
(* The database file and what moves it: createBackup, restoreBackup and    *)
(* activateBackup (packages/persistence/src/backup.ts) and the quarantine  *)
(* of openPersistenceWithRecovery (recovery.ts), with crashes between any  *)
(* two operations on the disk.                                             *)
(*                                                                         *)
(* A directory holds a database file and its write-ahead log; the -shm     *)
(* file moves with the log and carries no data.  A file holds the first    *)
(* upto transactions of one generation of the database; a fresh database   *)
(* and an activated copy start a generation of their own.  Activation runs *)
(* without an open store, as the threat model of the repository demands.   *)
(* A failure of the catch block's own operations is not modelled.          *)
(***************************************************************************)
EXTENDS Naturals

CONSTANTS
  MaxGeneration, \* bound on the databases ever created
  MaxCommit,     \* bound on the transactions of a database
  MaxIncident,   \* bound on the activations and quarantines
  MaxCrash,      \* bound on the crashes
  Refusable      \* renames of activateBackup that the disk may refuse

BackupParameters ==
  /\ MaxGeneration \in Nat \ {0}
  /\ {MaxCommit, MaxIncident, MaxCrash} \subseteq Nat
  /\ Refusable \subseteq {"move main", "move wal", "place"}

VARIABLES
  disk,      \* disk[d][p]: the content of part p in directory d
  manifest,  \* the content whose digest the backup's manifest holds
  store,     \* "closed", "open", "readonly"
  committed, \* transactions committed in each generation, 0 before it exists
  task,      \* the procedure that runs, where it is, and what it moved
  incidents, \* activations and quarantines so far
  crashes,
  cut        \* whether a crash fell in an activation or a quarantine

vars == <<disk, manifest, store, committed, task, incidents, crashes, cut>>

Part == {"main", "wal"}
Incident == 1 .. MaxIncident
Active == <<"active", 0>>
Target == <<"backup", 0>>
Directory ==
  {Active, Target} \cup ({"staging", "rollback", "quarantine"} \X Incident)

Generation == 1 .. MaxGeneration
NoFile == [gen |-> 0, upto |-> 0, health |-> "none"]
Content == [gen : Generation, upto : 1 .. MaxCommit + 1,
            health : {"whole", "torn", "altered", "broken"}]

\* copy is the generation an activation brings in, before what it found: the
\* latter is kept for ActivationAtomic only.
Idle == [at |-> "idle", moved |-> {}, copy |-> 1, outcome |-> "none",
         before |-> [p \in Part |-> NoFile]]

\* Transactions are counted from 1: the creation of the schema is the first.
Init ==
  /\ disk = [d \in Directory |-> [p \in Part |->
       IF d = Active /\ p = "main"
       THEN [gen |-> 1, upto |-> 1, health |-> "whole"] ELSE NoFile]]
  /\ manifest = NoFile
  /\ store = "closed"
  /\ committed = [g \in Generation |-> IF g = 1 THEN 1 ELSE 0]
  /\ task = Idle
  /\ incidents = 0
  /\ crashes = 0
  /\ cut = FALSE

-----------------------------------------------------------------------------
(* Operations on the disk.                                                 *)

Exists(d, p) == disk[d][p] # NoFile

Written(d, p, content) == [disk EXCEPT ![d][p] = content]

\* rename() replaces the target.
Renamed(from, to, p) ==
  [disk EXCEPT ![from][p] = NoFile, ![to][p] = disk[from][p]]

Staging == <<"staging", incidents>>
Rollback == <<"rollback", incidents>>
Quarantine == <<"quarantine", incidents>>

\* What a reader of the directory finds: its log belongs to its database.
Latest(d) ==
  IF disk[d]["wal"].gen = disk[d]["main"].gen
  THEN disk[d]["wal"].upto ELSE disk[d]["main"].upto

\* The next generation, if the bound leaves one.
IsNew(g) == /\ committed[g] = 0
            /\ \A h \in Generation : h < g => committed[h] # 0

-----------------------------------------------------------------------------
(* The store: SQLite in WAL mode.                                          *)

\* A missing database is created, and SQLite deletes a log it finds beside an
\* empty one.
OpenFresh ==
  /\ store = "closed" /\ task.at = "idle" /\ ~Exists(Active, "main")
  /\ \E g \in Generation :
       /\ IsNew(g)
       /\ committed' = [committed EXCEPT ![g] = 1]
       /\ disk' = [disk EXCEPT ![Active] =
            [p \in Part |-> IF p = "main"
               THEN [gen |-> g, upto |-> 1, health |-> "whole"] ELSE NoFile]]
  /\ store' = "open"
  /\ UNCHANGED <<manifest, task, incidents, crashes, cut>>

\* An altered audit chain opens for reading only; a broken database goes to
\* quarantine (BeginQuarantine).
OpenExisting ==
  /\ store = "closed" /\ task.at = "idle" /\ Exists(Active, "main")
  /\ disk[Active]["main"].health # "broken"
  /\ store' = IF disk[Active]["main"].health = "altered"
              THEN "readonly" ELSE "open"
  /\ UNCHANGED <<disk, manifest, committed, task, incidents, crashes, cut>>

Commit ==
  LET g == disk[Active]["main"].gen
  IN /\ store = "open" /\ task.at # "copying"
     /\ committed[g] <= MaxCommit
     /\ committed' = [committed EXCEPT ![g] = @ + 1]
     /\ disk' = Written(Active, "wal",
          [gen |-> g, upto |-> committed[g] + 1, health |-> "whole"])
     /\ UNCHANGED <<manifest, store, task, incidents, crashes, cut>>

\* close() checkpoints the log and removes it.
CloseStore ==
  /\ store # "closed" /\ task.at = "idle"
  /\ store' = "closed"
  /\ disk' = IF store = "open"
             THEN [disk EXCEPT
                    ![Active]["main"].upto = Latest(Active),
                    ![Active]["wal"] = NoFile]
             ELSE disk
  /\ UNCHANGED <<manifest, committed, task, incidents, crashes, cut>>

-----------------------------------------------------------------------------
(* createBackup.                                                           *)

BeginBackup ==
  /\ store = "open" /\ task.at = "idle"
  /\ ~Exists(Target, "main") /\ manifest = NoFile
  /\ task' = [Idle EXCEPT !.at = "copying"]
  /\ disk' = Written(Target, "main",
       [gen |-> disk[Active]["main"].gen, upto |-> Latest(Active),
        health |-> "torn"])
  /\ UNCHANGED <<manifest, store, committed, incidents, crashes, cut>>

\* The copy ends, or fails and leaves what it had written.
EndCopy(ok) ==
  /\ task.at = "copying"
  /\ disk' = IF ok
             THEN Written(Target, "main",
                    [gen |-> disk[Active]["main"].gen,
                     upto |-> Latest(Active), health |-> "whole"])
             ELSE disk
  /\ task' = [Idle EXCEPT !.at = "inspect"]
  /\ UNCHANGED <<manifest, store, committed, incidents, crashes, cut>>

\* The inspection of the copy throws, or its digest goes into a new manifest.
WriteManifest ==
  /\ task.at = "inspect"
  /\ manifest' = IF disk[Target]["main"].health = "whole"
                 THEN disk[Target]["main"] ELSE NoFile
  /\ task' = Idle
  /\ UNCHANGED <<disk, store, committed, incidents, crashes, cut>>

-----------------------------------------------------------------------------
(* restoreBackup and activateBackup.                                       *)

\* validateBackup: the manifest is there, the digest matches, the database
\* and its audit chain are whole.
ValidBackup ==
  /\ manifest # NoFile
  /\ disk[Target]["main"] = manifest
  /\ manifest.health = "whole"

BeginActivation ==
  /\ store = "closed" /\ task.at = "idle" /\ incidents < MaxIncident
  /\ ValidBackup
  /\ \E g \in Generation :
       /\ IsNew(g)
       /\ disk' = Written(<<"staging", incidents + 1>>, "main",
            [manifest EXCEPT !.gen = g, !.health = "torn"])
       /\ task' = [Idle EXCEPT !.at = "staging", !.copy = g,
                               !.before = disk[Active]]
  /\ incidents' = incidents + 1
  /\ UNCHANGED <<manifest, store, committed, crashes, cut>>

\* The copy is validated; a bad one is removed and nothing else was touched.
Stage(ok) ==
  /\ task.at = "staging"
  /\ disk' = IF ok THEN [disk EXCEPT ![Staging]["main"].health = "whole"]
             ELSE Written(Staging, "main", NoFile)
  /\ task' = IF ok THEN [task EXCEPT !.at = "move main"]
             ELSE [task EXCEPT !.at = "idle", !.outcome = "threw"]
  /\ UNCHANGED <<manifest, store, committed, incidents, crashes, cut>>

After(p) == IF p = "main" THEN "move wal" ELSE "place"

\* Mutant of MoveAside: the log stays beside the database that comes in.
MoveAside_MainOnly(p) ==
  /\ task.at = IF p = "main" THEN "move main" ELSE "move wal"
  /\ task' = [task EXCEPT !.at = After(p),
       !.moved = IF p = "main" /\ Exists(Active, p) THEN @ \cup {p} ELSE @]
  /\ disk' = IF p = "main" /\ Exists(Active, p)
             THEN Renamed(Active, Rollback, p) ELSE disk
  /\ UNCHANGED <<manifest, store, committed, incidents, crashes, cut>>

\* One turn of the loop that moves the active database aside.
MoveAside(p) ==
  /\ task.at = IF p = "main" THEN "move main" ELSE "move wal"
  /\ task' = [task EXCEPT !.at = After(p),
       !.moved = IF Exists(Active, p) THEN @ \cup {p} ELSE @]
  /\ disk' = IF Exists(Active, p) THEN Renamed(Active, Rollback, p) ELSE disk
  /\ UNCHANGED <<manifest, store, committed, incidents, crashes, cut>>

Place ==
  /\ task.at = "place"
  /\ disk' = Renamed(Staging, Active, "main")
  /\ committed' = [committed EXCEPT ![task.copy] = disk[Staging]["main"].upto]
  /\ task' = [task EXCEPT !.at = "verify"]
  /\ UNCHANGED <<manifest, store, incidents, crashes, cut>>

\* The disk refuses one of the renames: the catch block.
RenameRefused ==
  /\ task.at \in Refusable
  /\ task.at = "move main" => Exists(Active, "main")
  /\ task.at = "move wal" => Exists(Active, "wal")
  /\ task' = [task EXCEPT !.at = "remove"]
  /\ UNCHANGED <<disk, manifest, store, committed, incidents, crashes, cut>>

\* The inspection of the activated database or its rollback manifest fails,
\* or the activation returns.
Verify(ok) ==
  /\ task.at = "verify"
  /\ task' = IF ok THEN [task EXCEPT !.at = "idle", !.outcome = "returned"]
             ELSE [task EXCEPT !.at = "remove"]
  /\ UNCHANGED <<disk, manifest, store, committed, incidents, crashes, cut>>

\* rm(activePath, { force: true }), whatever is there.
RemoveActive ==
  /\ task.at = "remove"
  /\ disk' = Written(Active, "main", NoFile)
  /\ committed' = [committed EXCEPT ![task.copy] = 0]
  /\ task' = [task EXCEPT !.at = "put wal back"]
  /\ UNCHANGED <<manifest, store, incidents, crashes, cut>>

\* Mutant of PutBack: the log is left in the rollback directory.
PutBack_MainOnly(p) ==
  /\ task.at = IF p = "wal" THEN "put wal back" ELSE "put main back"
  /\ disk' = IF p \in task.moved /\ p = "main"
             THEN Renamed(Rollback, Active, p) ELSE disk
  /\ task' = [task EXCEPT !.at = IF p = "wal" THEN "put main back" ELSE "clean"]
  /\ UNCHANGED <<manifest, store, committed, incidents, crashes, cut>>

\* The moved files come back in the reverse order.
PutBack(p) ==
  /\ task.at = IF p = "wal" THEN "put wal back" ELSE "put main back"
  /\ disk' = IF p \in task.moved THEN Renamed(Rollback, Active, p) ELSE disk
  /\ task' = [task EXCEPT !.at = IF p = "wal" THEN "put main back" ELSE "clean"]
  /\ UNCHANGED <<manifest, store, committed, incidents, crashes, cut>>

\* The finally block, and the error that goes on.
RemoveStaging ==
  /\ task.at = "clean"
  /\ disk' = Written(Staging, "main", NoFile)
  /\ task' = [task EXCEPT !.at = "idle", !.outcome = "threw"]
  /\ UNCHANGED <<manifest, store, committed, incidents, crashes, cut>>

-----------------------------------------------------------------------------
(* openPersistenceWithRecovery on a database that cannot be opened.        *)

BeginQuarantine ==
  /\ store = "closed" /\ task.at = "idle" /\ incidents < MaxIncident
  /\ Exists(Active, "main") /\ disk[Active]["main"].health = "broken"
  /\ incidents' = incidents + 1
  /\ task' = [Idle EXCEPT !.at = "quarantine main"]
  /\ UNCHANGED <<disk, manifest, store, committed, crashes, cut>>

\* Mutant of QuarantineMove: the database that cannot be read is deleted.
QuarantineMove_Deletes(p) ==
  /\ task.at = IF p = "main" THEN "quarantine main" ELSE "quarantine wal"
  /\ disk' = Written(Active, p, NoFile)
  /\ task' = IF p = "main" THEN [task EXCEPT !.at = "quarantine wal"] ELSE Idle
  /\ UNCHANGED <<manifest, store, committed, incidents, crashes, cut>>

\* Mutant of QuarantineMove: the log is left behind.
QuarantineMove_MainOnly(p) ==
  /\ task.at = IF p = "main" THEN "quarantine main" ELSE "quarantine wal"
  /\ disk' = IF p = "main" THEN Renamed(Active, Quarantine, p) ELSE disk
  /\ task' = IF p = "main" THEN [task EXCEPT !.at = "quarantine wal"] ELSE Idle
  /\ UNCHANGED <<manifest, store, committed, incidents, crashes, cut>>

\* The manifest of the incident and the opening of a fresh database follow.
QuarantineMove(p) ==
  /\ task.at = IF p = "main" THEN "quarantine main" ELSE "quarantine wal"
  /\ disk' = IF Exists(Active, p) THEN Renamed(Active, Quarantine, p) ELSE disk
  /\ task' = IF p = "main" THEN [task EXCEPT !.at = "quarantine wal"] ELSE Idle
  /\ UNCHANGED <<manifest, store, committed, incidents, crashes, cut>>

-----------------------------------------------------------------------------
(* The world.                                                              *)

Crash ==
  /\ crashes < MaxCrash
  /\ store # "closed" \/ task.at # "idle"
  /\ crashes' = crashes + 1
  /\ cut' = (cut \/ task.at \notin {"idle", "copying", "inspect", "staging"})
  /\ store' = "closed"
  /\ task' = Idle
  /\ UNCHANGED <<disk, manifest, committed, incidents>>

\* A file of a closed database is damaged on the disk.
Damage(d, health) ==
  /\ store = "closed" /\ task.at = "idle"
  /\ disk[d]["main"].health = "whole"
  /\ disk' = [disk EXCEPT ![d]["main"].health = health]
  /\ UNCHANGED <<manifest, store, committed, task, incidents, crashes, cut>>

-----------------------------------------------------------------------------
Next ==
  \/ OpenFresh \/ OpenExisting \/ Commit \/ CloseStore
  \/ BeginBackup \/ WriteManifest
  \/ \E ok \in BOOLEAN : EndCopy(ok)
  \/ BeginActivation \/ Place \/ RenameRefused \/ RemoveActive \/ RemoveStaging
  \/ \E ok \in BOOLEAN : Stage(ok)
  \/ \E ok \in BOOLEAN : Verify(ok)
  \/ \E p \in Part : MoveAside(p)
  \/ \E p \in Part : PutBack(p)
  \/ BeginQuarantine
  \/ \E p \in Part : QuarantineMove(p)
  \/ Crash
  \/ \E d \in {Active, Target}, health \in {"altered", "broken"} :
       Damage(d, health)

Spec == Init /\ [][Next]_vars

-----------------------------------------------------------------------------
(* Properties.                                                             *)

\* A store that is open for writing works on a whole database that holds every
\* transaction ever committed to it, whatever crashes and failing activations
\* came before, and any log beside it is that database's own: neither a
\* half-copied backup, nor a database without its log, nor a backup with the
\* log of the database it replaced is ever opened.
OpenIsWhole ==
  store = "open" =>
    /\ disk[Active]["main"].health = "whole"
    /\ disk[Active]["wal"].gen \in {0, disk[Active]["main"].gen}
    /\ Latest(Active) = committed[disk[Active]["main"].gen]

\* No database file disappears: whatever crashes, every database that was ever
\* the active one is still at its path, in a rollback or in a quarantine.
DatabasesKept ==
  \A g \in Generation : committed[g] # 0 =>
    \E d \in {Active} \cup ({"rollback", "quarantine"} \X Incident) :
      disk[d]["main"].gen = g

\* Unless a crash cuts an activation or a quarantine in two, every database can
\* be found whole to its last transaction, its file and log in one directory.
NothingLost ==
  ~cut /\ task.at = "idle" =>
    \A g \in Generation : committed[g] # 0 =>
      \E d \in Directory : /\ disk[d]["main"].gen = g
                           /\ Latest(d) = committed[g]

\* activateBackup is all or nothing: a return leaves the copy active, without
\* a log, and what it replaced in the rollback directory; a throw leaves the
\* database and its log as they were.
ActivationAtomic ==
  [][task.at # "idle" /\ task'.at = "idle" =>
       /\ task'.outcome = "returned" =>
            /\ disk'[Active]["main"].gen = task.copy
            /\ disk'[Active]["wal"] = NoFile
            /\ disk'[Rollback] = task.before
       /\ task'.outcome = "threw" => disk'[Active] = task.before]_vars

=============================================================================

----------------------------- MODULE FileWriter -----------------------------
(***************************************************************************)
(* AtomicWorkspaceWriter (packages/workspace/src/file-hardening.ts):       *)
(* files of a workspace are replaced through a journal kept outside of it, *)
(* with crashes, refusals of the disk and other programs between any two   *)
(* operations.                                                             *)
(*                                                                         *)
(* A caller's snapshot that no longer matches has write() throw before it  *)
(* does anything, so a write begins with what the file holds.  Temporary   *)
(* files, which are written, flushed and renamed, appear by their rename;  *)
(* a crash may leave one behind that nobody reads.                         *)
(***************************************************************************)
EXTENDS Naturals

CONSTANTS
  File,
  Tx,       \* transaction ids
  Body,     \* contents that may be written, maybe Empty
  Empty,
  Absent,   \* the content of a file that is not there
  Racing,   \* whether others may change a file while a call runs
  MaxEdits, \* bound on what others do
  MaxCrash  \* bound on the crashes

WriterParameters ==
  /\ Absent \notin Body
  /\ Racing \in BOOLEAN
  /\ {MaxEdits, MaxCrash} \subseteq Nat

VARIABLES
  file,     \* the content of each file
  journal,  \* the journals in the recovery directory
  call,     \* the call under way, or what the last one came to
  used,     \* the ids taken so far
  known,    \* the ids write() has returned and the caller still holds
  edits, crashes,
  \* for the properties
  replaced, \* what each write that is neither final nor undone has replaced
  settled,  \* the content of each file when nothing was pending on it
  blurred   \* files that others changed during a write, or with two writes

others == <<edits, crashes>>
ghosts == <<replaced, settled, blurred>>
writerVars == <<file, journal, call, used, known, others, ghosts>>

NoEntry == [tx |-> "none"]
Nothing == "nothing"

NoCall == [at |-> "idle", outcome |-> "none", tx |-> Nothing, file |-> Nothing,
           before |-> Absent, after |-> Absent, todo |-> {}]

WriterInit ==
  /\ file \in [File -> Body \cup {Absent}]
  /\ journal = [t \in Tx |-> NoEntry]
  /\ call = NoCall
  /\ used = {} /\ known = {}
  /\ edits = 0 /\ crashes = 0
  /\ replaced = [t \in Tx |-> Nothing]
  /\ settled = file
  /\ blurred = {}

-----------------------------------------------------------------------------
(* Files, journals and calls.                                              *)

\* The digest of a file that is not there is that of an empty one.
FileDigest(content) == IF content = Absent THEN Empty ELSE content

Journalled == {t \in Tx : journal[t] # NoEntry}
Pending(f) == \E t \in Journalled : journal[t].file = f

Idle == call.at = "idle"
Goto(at) == call' = [call EXCEPT !.at = at]
Return(outcome) == call' = [NoCall EXCEPT !.outcome = outcome]

-----------------------------------------------------------------------------
(* write()                                                                 *)

\* Mutant of BeginWrite: the journal is left for later.
BeginWrite_Unjournalled(t, f, content) ==
  /\ Idle /\ t \notin used
  /\ used' = used \cup {t}
  /\ call' = [NoCall EXCEPT !.at = "place", !.tx = t, !.file = f,
                            !.before = file[f], !.after = content]
  /\ UNCHANGED <<file, journal, known, others, ghosts>>

BeginWrite(t, f, content) ==
  /\ Idle /\ t \notin used
  /\ used' = used \cup {t}
  /\ call' = [NoCall EXCEPT !.at = "journal", !.tx = t, !.file = f,
                            !.before = file[f], !.after = content]
  /\ blurred' = IF Pending(f) THEN blurred \cup {f} ELSE blurred
  /\ UNCHANGED <<file, journal, known, others, replaced, settled>>

SaveJournal ==
  /\ call.at = "journal"
  /\ journal' = [journal EXCEPT ![call.tx] =
       [tx |-> call.tx, file |-> call.file, before |-> call.before,
        after |-> call.after, sound |-> TRUE]]
  /\ Goto("place")
  /\ UNCHANGED <<file, used, known, others, ghosts>>

\* The target is looked at once more, for links only, and replaced.
Place ==
  /\ call.at = "place"
  /\ file' = [file EXCEPT ![call.file] = call.after]
  /\ replaced' = [replaced EXCEPT ![call.tx] = file[call.file]]
  /\ Goto("check")
  /\ UNCHANGED <<journal, used, known, others, settled, blurred>>

\* The caller gets the id, or an exception.
CheckWrite ==
  /\ call.at = "check"
  /\ IF FileDigest(file[call.file]) = FileDigest(call.after)
     THEN known' = known \cup {call.tx} /\ Return("written")
     ELSE Return("threw") /\ UNCHANGED known
  /\ UNCHANGED <<file, journal, used, others, ghosts>>

-----------------------------------------------------------------------------
(* finalize(), rollback(), recoverPending()                                *)

Finalize(t) ==
  /\ Idle /\ t \in known
  /\ known' = known \ {t}
  /\ journal' = [journal EXCEPT ![t] = NoEntry]
  /\ replaced' = [replaced EXCEPT ![t] = Nothing]
  /\ settled' = IF journal[t] = NoEntry THEN settled
                ELSE [settled EXCEPT ![journal[t].file] = file[journal[t].file]]
  /\ Return("final")
  /\ UNCHANGED <<file, used, others, blurred>>

\* A rollback whose journal is gone or corrupt, or whose target has changed,
\* throws before it does anything.
RollbackWrite(t) ==
  /\ Idle /\ t \in known
  /\ journal[t] # NoEntry /\ journal[t].sound
  /\ FileDigest(file[journal[t].file]) = FileDigest(journal[t].after)
  /\ call' = [NoCall EXCEPT !.at = "restore", !.tx = t]
  /\ UNCHANGED <<file, journal, used, known, others, ghosts>>

BeginRecovery ==
  /\ Idle
  /\ call' = [NoCall EXCEPT !.at = "recover", !.outcome = "recovering",
                            !.todo = Journalled]
  /\ UNCHANGED <<file, journal, used, known, others, ghosts>>

\* Mutant of RecoverNext: what a recovery that was cut short has put back is
\* not recognised.
RecoverNext_Forgetful(t) ==
  LET current == file[journal[t].file]
  IN /\ call.at = "recover" /\ t \in call.todo
     /\ IF journal[t].sound /\ FileDigest(current) = FileDigest(journal[t].after)
        THEN call' = [call EXCEPT !.at = "restore", !.tx = t]
        ELSE Return("refused")
     /\ UNCHANGED <<file, journal, used, known, others, ghosts>>

\* One journal after the other, in the order of the directory, which is that
\* of random ids.
RecoverNext(t) ==
  LET current == file[journal[t].file]
  IN /\ call.at = "recover" /\ t \in call.todo
     /\ \/ /\ journal[t].sound /\ current = journal[t].before
           /\ call' = [call EXCEPT !.at = "final", !.tx = t]
        \/ /\ journal[t].sound /\ current # journal[t].before
           /\ FileDigest(current) = FileDigest(journal[t].after)
           /\ call' = [call EXCEPT !.at = "restore", !.tx = t]
        \/ /\ \/ ~journal[t].sound
              \/ /\ current # journal[t].before
                 /\ FileDigest(current) # FileDigest(journal[t].after)
           /\ Return("refused")
     /\ UNCHANGED <<file, journal, used, known, others, ghosts>>

\* #restore()
Restore ==
  /\ call.at = "restore"
  /\ file' = [file EXCEPT ![journal[call.tx].file] = journal[call.tx].before]
  /\ replaced' = [replaced EXCEPT ![call.tx] = Nothing]
  /\ Goto("final")
  /\ UNCHANGED <<journal, used, known, others, settled, blurred>>

RemoveJournal ==
  /\ call.at = "final"
  /\ journal' = [journal EXCEPT ![call.tx] = NoEntry]
  /\ replaced' = [replaced EXCEPT ![call.tx] = Nothing]
  /\ IF call.outcome = "recovering"
     THEN call' = [call EXCEPT !.at = "recover", !.todo = @ \ {call.tx}]
     ELSE Return("undone")
  /\ UNCHANGED <<file, used, known, others, settled, blurred>>

EndRecovery ==
  /\ call.at = "recover" /\ call.todo = {}
  /\ Return("recovered")
  /\ UNCHANGED <<file, journal, used, known, others, ghosts>>

\* The disk refuses an operation, or the target has become a link.
Fails ==
  /\ call.at \in {"journal", "place", "check", "recover", "restore", "final"}
  /\ Return("threw")
  /\ UNCHANGED <<file, journal, used, known, others, ghosts>>

-----------------------------------------------------------------------------
(* The world.                                                              *)

\* The caller's ids are lost with the process.
Crash ==
  /\ crashes < MaxCrash
  /\ crashes' = crashes + 1
  /\ call' = NoCall
  /\ known' = {}
  /\ UNCHANGED <<file, journal, used, edits, ghosts>>

\* Somebody else writes or removes a file.
Edit(f, content) ==
  /\ edits < MaxEdits
  /\ Idle \/ Racing
  /\ content # file[f]
  /\ edits' = edits + 1
  /\ file' = [file EXCEPT ![f] = content]
  /\ IF Pending(f) \/ call.file = f
     THEN blurred' = blurred \cup {f} /\ UNCHANGED settled
     ELSE settled' = [settled EXCEPT ![f] = content] /\ UNCHANGED blurred
  /\ UNCHANGED <<journal, call, used, known, crashes, replaced>>

\* A journal is damaged.
Corrupt(t) ==
  /\ edits < MaxEdits /\ Idle
  /\ t \in Journalled
  /\ edits' = edits + 1
  /\ journal' = [journal EXCEPT ![t].sound = FALSE]
  /\ UNCHANGED <<file, call, used, known, crashes, ghosts>>

-----------------------------------------------------------------------------
WriterNext ==
  \/ \E t \in Tx, f \in File, content \in Body : BeginWrite(t, f, content)
  \/ SaveJournal \/ Place \/ CheckWrite
  \/ \E t \in Tx : Finalize(t) \/ RollbackWrite(t) \/ RecoverNext(t) \/ Corrupt(t)
  \/ BeginRecovery \/ Restore \/ RemoveJournal \/ EndRecovery \/ Fails
  \/ Crash
  \/ \E f \in File, content \in Body \cup {Absent} : Edit(f, content)

WriterSpec == WriterInit /\ [][WriterNext]_writerVars

-----------------------------------------------------------------------------
(* Properties.                                                             *)

\* From the moment a write has replaced a file until it is final or undone, a
\* journal is there that holds what was replaced, whatever crashes or fails
\* in between, unless others changed the file during the write.
JournalCoversWrites ==
  \A t \in Tx :
    replaced[t] # Nothing =>
      /\ journal[t] # NoEntry
      /\ journal[t].file \in blurred \/ journal[t].before = replaced[t]

\* A recovery that returns has undone every write that was not final, and it
\* refuses only what others have done or two writes of one file: no crash, of
\* a write, a rollback or an earlier recovery, leaves it stuck.
RecoveryUndoes ==
  /\ call.outcome = "recovered" =>
       \A f \in File \ blurred : file[f] = settled[f]
  /\ call.outcome = "refused" =>
       blurred # {} \/ \E t \in Journalled : ~journal[t].sound

\* "Recovery or rollback are refused if the target no longer matches"
\* (docs/architecture/adr/0010-windows-hardening-and-release-gates.md): only
\* what the write itself has left is replaced.
OnlyOwnIsUndone ==
  [][call.at = "restore" /\ call'.at = "final" =>
       \A f \in File :
         file'[f] # file[f] => file[f] = journal[call.tx].after]_writerVars

=============================================================================

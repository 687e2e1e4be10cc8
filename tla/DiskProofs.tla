------------------------------ MODULE DiskProofs ------------------------------
(***************************************************************************)
(* Proofs about what must leave a disk in order: the writer of workspace   *)
(* files, for any files, contents and numbers of writes, crashes and       *)
(* changes by others, and the database file, for any numbers of databases, *)
(* transactions, activations, quarantines and crashes.                     *)
(***************************************************************************)
EXTENDS Disk, TLAPS


-----------------------------------------------------------------------------
(* The writer of workspace files: the inductive invariant                  *)

Holding == Body \cup {Absent}
JournalEntry ==
  [tx : Tx, file : File, before : Holding, after : Body, sound : BOOLEAN]

WriterTypes ==
  /\ file \in [File -> Holding]
  /\ journal \in [Tx -> JournalEntry \cup {NoEntry}]
  /\ call \in [at : {"idle", "journal", "place", "check", "recover", "restore",
                     "final"},
               outcome : {"none", "written", "threw", "final", "recovering",
                          "refused", "undone", "recovered"},
               tx : Tx \cup {Nothing}, file : File \cup {Nothing},
               before : Holding, after : Holding, todo : SUBSET Tx]
  /\ used \subseteq Tx
  /\ replaced \in [Tx -> Holding \cup {Nothing}]
  /\ settled \in [File -> Holding]
  /\ blurred \subseteq File

\* What a call that writes, or one that undoes, is about.
CallInv ==
  /\ call.at \in {"journal", "place", "check"} =>
       call.tx \in used /\ call.file \in File /\ call.after \in Body
  /\ call.at = "journal" =>
       journal[call.tx] = NoEntry /\ replaced[call.tx] = Nothing
  /\ call.at = "place" =>
       /\ journal[call.tx] # NoEntry
       /\ journal[call.tx].file = call.file
       /\ journal[call.tx].before = call.before
       /\ journal[call.tx].after = call.after
  /\ call.at \in {"journal", "place"} =>
       call.file \in blurred \/ file[call.file] = call.before
  /\ call.at \in {"restore", "final"} => call.tx \in Journalled
  /\ call.todo \subseteq Journalled
  /\ call.at = "recover" => call.outcome = "recovering"
  /\ call.outcome = "recovering" =>
       /\ call.todo = Journalled
       /\ call.at \in {"recover", "restore", "final"}
  /\ call.outcome \notin {"none", "recovering"} => call.at = "idle"
  /\ call.outcome = "recovered" => Journalled = {}
  /\ call.at = "idle" => call.file = Nothing

\* An id that was not given out has left no trace.
FreshInv ==
  \A t \in Tx \ used : journal[t] = NoEntry /\ replaced[t] = Nothing

\* What a file that nobody else has touched holds: what it held when nothing
\* was pending on it or, by the one write that is, what that has put there.
UndoInv ==
  \A f \in File \ blurred :
    /\ ~Pending(f) => file[f] = settled[f]
    /\ call.at = "journal" /\ call.file = f => ~Pending(f)
    /\ \A t \in Journalled : journal[t].file = f =>
         /\ journal[t].before = settled[f]
         /\ file[f] \in {journal[t].before, journal[t].after}
         /\ call.at = "final" /\ call.tx = t => file[f] = settled[f]
         /\ \A u \in Journalled : journal[u].file = f => u = t

WriterInv ==
  /\ WriterTypes /\ CallInv /\ FreshInv /\ UndoInv
  /\ JournalCoversWrites /\ RecoveryUndoes

-----------------------------------------------------------------------------
\* An entry is not the missing entry, having more fields.
LEMMA EntryIsSome == \A e \in JournalEntry : e # NoEntry
<1> SUFFICES ASSUME NEW e \in JournalEntry, e = NoEntry PROVE FALSE
  OBVIOUS
<1>1. "file" \in DOMAIN e
  BY DEF JournalEntry
<1>2. DOMAIN e = {"tx"}
  BY DEF NoEntry
<1> QED BY <1>1, <1>2


LEMMA WriterInitHolds == WriterInit => WriterInv
BY
DEF WriterInit, WriterInv, WriterTypes, CallInv, FreshInv, UndoInv,
    JournalCoversWrites,
  RecoveryUndoes, NoCall, Journalled, Pending, Holding

LEMMA WriteKeeps ==
  ASSUME WriterInv, NEW t \in Tx, NEW f \in File, NEW content \in Body,
         BeginWrite(t, f, content)
  PROVE  WriterInv'
<1> USE DEF BeginWrite, Idle, NoCall, others, ghosts, Journalled
<1>0. /\ WriterTypes /\ CallInv /\ FreshInv /\ UndoInv
      /\ JournalCoversWrites /\ RecoveryUndoes
  BY DEF WriterInv
<1>1. WriterTypes'
  BY <1>0 DEF WriterTypes, CallInv, JournalEntry, Holding
<1>2. CallInv'
  BY <1>0, EntryIsSome DEF WriterTypes, CallInv, FreshInv, JournalEntry
<1>3. FreshInv'
  BY <1>0, EntryIsSome DEF WriterTypes, CallInv, FreshInv
<1>4. UndoInv'
  BY <1>0, EntryIsSome DEF WriterTypes, CallInv, UndoInv, Pending, JournalEntry
<1>5. JournalCoversWrites'
  BY <1>0, EntryIsSome
  DEF WriterTypes, CallInv, FreshInv, JournalCoversWrites, JournalEntry
<1>6. RecoveryUndoes'
  BY <1>0 DEF WriterTypes, CallInv, UndoInv, Pending, RecoveryUndoes
<1> QED BY <1>1, <1>2, <1>3, <1>4, <1>5, <1>6 DEF WriterInv

LEMMA SaveJournalKeeps ==
  ASSUME WriterInv, SaveJournal
  PROVE  WriterInv'
<1> USE DEF SaveJournal, Goto, others, ghosts, Journalled
<1>0. /\ WriterTypes /\ CallInv /\ FreshInv /\ UndoInv
      /\ JournalCoversWrites /\ RecoveryUndoes
  BY DEF WriterInv
<1>1. WriterTypes'
  BY <1>0 DEF WriterTypes, CallInv, JournalEntry, Holding
<1>2. CallInv'
  BY <1>0, EntryIsSome DEF WriterTypes, CallInv, FreshInv, JournalEntry
<1>3. FreshInv'
  BY <1>0, EntryIsSome DEF WriterTypes, CallInv, FreshInv
<1>4. UndoInv'
  BY <1>0, EntryIsSome DEF WriterTypes, CallInv, UndoInv, Pending, JournalEntry
<1>5. JournalCoversWrites'
  BY <1>0, EntryIsSome
  DEF WriterTypes, CallInv, FreshInv, JournalCoversWrites, JournalEntry
<1>6. RecoveryUndoes'
  BY <1>0 DEF WriterTypes, CallInv, UndoInv, Pending, RecoveryUndoes
<1> QED BY <1>1, <1>2, <1>3, <1>4, <1>5, <1>6 DEF WriterInv

LEMMA PlaceFileKeeps ==
  ASSUME WriterInv, Place
  PROVE  WriterInv'
<1> USE DEF Place, Goto, others, ghosts, Journalled
<1>0. /\ WriterTypes /\ CallInv /\ FreshInv /\ UndoInv
      /\ JournalCoversWrites /\ RecoveryUndoes
  BY DEF WriterInv
<1>1. WriterTypes'
  BY <1>0 DEF WriterTypes, CallInv, JournalEntry, Holding
<1>2. CallInv'
  BY <1>0, EntryIsSome DEF WriterTypes, CallInv, FreshInv, JournalEntry
<1>3. FreshInv'
  BY <1>0, EntryIsSome DEF WriterTypes, CallInv, FreshInv
<1>4. UndoInv'
  BY <1>0, EntryIsSome DEF WriterTypes, CallInv, UndoInv, Pending, JournalEntry
<1>5. JournalCoversWrites'
  BY <1>0, EntryIsSome
  DEF WriterTypes, CallInv, FreshInv, JournalCoversWrites, JournalEntry
<1>6. RecoveryUndoes'
  BY <1>0 DEF WriterTypes, CallInv, UndoInv, Pending, RecoveryUndoes
<1> QED BY <1>1, <1>2, <1>3, <1>4, <1>5, <1>6 DEF WriterInv

LEMMA CheckWriteKeeps ==
  ASSUME WriterInv, CheckWrite
  PROVE  WriterInv'
<1> USE DEF CheckWrite, Return, NoCall, others, ghosts, Journalled
<1>0. /\ WriterTypes /\ CallInv /\ FreshInv /\ UndoInv
      /\ JournalCoversWrites /\ RecoveryUndoes
  BY DEF WriterInv
<1>1. WriterTypes'
  BY <1>0 DEF WriterTypes, CallInv, JournalEntry, Holding
<1>2. CallInv'
  BY <1>0, EntryIsSome DEF WriterTypes, CallInv, FreshInv, JournalEntry
<1>3. FreshInv'
  BY <1>0, EntryIsSome DEF WriterTypes, CallInv, FreshInv
<1>4. UndoInv'
  BY <1>0, EntryIsSome DEF WriterTypes, CallInv, UndoInv, Pending, JournalEntry
<1>5. JournalCoversWrites'
  BY <1>0, EntryIsSome
  DEF WriterTypes, CallInv, FreshInv, JournalCoversWrites, JournalEntry
<1>6. RecoveryUndoes'
  BY <1>0 DEF WriterTypes, CallInv, UndoInv, Pending, RecoveryUndoes
<1> QED BY <1>1, <1>2, <1>3, <1>4, <1>5, <1>6 DEF WriterInv

LEMMA FinalizeKeeps ==
  ASSUME WriterInv, NEW t \in Tx, Finalize(t)
  PROVE  WriterInv'
<1> USE DEF Finalize, Idle, Return, NoCall, others, ghosts, Journalled
<1>0. /\ WriterTypes /\ CallInv /\ FreshInv /\ UndoInv
      /\ JournalCoversWrites /\ RecoveryUndoes
  BY DEF WriterInv
<1>1. WriterTypes'
  BY <1>0 DEF WriterTypes, CallInv, JournalEntry, Holding
<1>2. CallInv'
  BY <1>0, EntryIsSome DEF WriterTypes, CallInv, FreshInv, JournalEntry
<1>3. FreshInv'
  BY <1>0, EntryIsSome DEF WriterTypes, CallInv, FreshInv
<1>4. UndoInv'
  BY <1>0, EntryIsSome DEF WriterTypes, CallInv, UndoInv, Pending, JournalEntry
<1>5. JournalCoversWrites'
  BY <1>0, EntryIsSome
  DEF WriterTypes, CallInv, FreshInv, JournalCoversWrites, JournalEntry
<1>6. RecoveryUndoes'
  BY <1>0 DEF WriterTypes, CallInv, UndoInv, Pending, RecoveryUndoes
<1> QED BY <1>1, <1>2, <1>3, <1>4, <1>5, <1>6 DEF WriterInv

LEMMA RollbackKeeps ==
  ASSUME WriterInv, NEW t \in Tx, RollbackWrite(t)
  PROVE  WriterInv'
<1> USE DEF RollbackWrite, Idle, NoCall, others, ghosts, Journalled
<1>0. /\ WriterTypes /\ CallInv /\ FreshInv /\ UndoInv
      /\ JournalCoversWrites /\ RecoveryUndoes
  BY DEF WriterInv
<1>1. WriterTypes'
  BY <1>0 DEF WriterTypes, CallInv, JournalEntry, Holding
<1>2. CallInv'
  BY <1>0, EntryIsSome DEF WriterTypes, CallInv, FreshInv, JournalEntry
<1>3. FreshInv'
  BY <1>0, EntryIsSome DEF WriterTypes, CallInv, FreshInv
<1>4. UndoInv'
  BY <1>0, EntryIsSome DEF WriterTypes, CallInv, UndoInv, Pending, JournalEntry
<1>5. JournalCoversWrites'
  BY <1>0, EntryIsSome
  DEF WriterTypes, CallInv, FreshInv, JournalCoversWrites, JournalEntry
<1>6. RecoveryUndoes'
  BY <1>0 DEF WriterTypes, CallInv, UndoInv, Pending, RecoveryUndoes
<1> QED BY <1>1, <1>2, <1>3, <1>4, <1>5, <1>6 DEF WriterInv

LEMMA BeginRecoveryKeeps ==
  ASSUME WriterInv, BeginRecovery
  PROVE  WriterInv'
<1> USE DEF BeginRecovery, Idle, NoCall, others, ghosts, Journalled
<1>0. /\ WriterTypes /\ CallInv /\ FreshInv /\ UndoInv
      /\ JournalCoversWrites /\ RecoveryUndoes
  BY DEF WriterInv
<1>1. WriterTypes'
  BY <1>0 DEF WriterTypes, CallInv, JournalEntry, Holding
<1>2. CallInv'
  BY <1>0, EntryIsSome DEF WriterTypes, CallInv, FreshInv, JournalEntry
<1>3. FreshInv'
  BY <1>0, EntryIsSome DEF WriterTypes, CallInv, FreshInv
<1>4. UndoInv'
  BY <1>0, EntryIsSome DEF WriterTypes, CallInv, UndoInv, Pending, JournalEntry
<1>5. JournalCoversWrites'
  BY <1>0, EntryIsSome
  DEF WriterTypes, CallInv, FreshInv, JournalCoversWrites, JournalEntry
<1>6. RecoveryUndoes'
  BY <1>0 DEF WriterTypes, CallInv, UndoInv, Pending, RecoveryUndoes
<1> QED BY <1>1, <1>2, <1>3, <1>4, <1>5, <1>6 DEF WriterInv

LEMMA RecoverNextKeeps ==
  ASSUME WriterInv, NEW t \in Tx, RecoverNext(t)
  PROVE  WriterInv'
<1> DEFINE current == file[journal[t].file]
           entry == journal[t]
<1> USE DEF RecoverNext, Return, NoCall, others, ghosts, Journalled
<1>0. /\ WriterTypes /\ CallInv /\ FreshInv /\ UndoInv
      /\ JournalCoversWrites /\ RecoveryUndoes
  BY DEF WriterInv
<1>1. /\ UNCHANGED <<file, journal, used, replaced, settled, blurred>>
      /\ t \in call.todo /\ entry # NoEntry /\ entry \in JournalEntry
      /\ call.outcome = "recovering" /\ call.todo = Journalled
  BY <1>0 DEF WriterTypes, CallInv
<1>2. /\ FreshInv' /\ JournalCoversWrites'
  BY <1>0, <1>1 DEF FreshInv, JournalCoversWrites
<1>3. CASE call' = [call EXCEPT !.at = "final", !.tx = t] /\ current = entry.before
  <2>1. WriterTypes' /\ CallInv' /\ RecoveryUndoes'
    BY <1>0, <1>1, <1>3 DEF WriterTypes, CallInv, RecoveryUndoes
  <2>2. UndoInv'
    BY <1>0, <1>1, <1>3 DEF WriterTypes, UndoInv, Pending, JournalEntry
  <2> QED BY <1>2, <2>1, <2>2 DEF WriterInv
<1>4. CASE call' = [call EXCEPT !.at = "restore", !.tx = t]
  <2>1. WriterTypes' /\ CallInv' /\ RecoveryUndoes'
    BY <1>0, <1>1, <1>4 DEF WriterTypes, CallInv, RecoveryUndoes
  <2>2. UndoInv'
    BY <1>0, <1>1, <1>4 DEF WriterTypes, UndoInv, Pending, JournalEntry
  <2> QED BY <1>2, <2>1, <2>2 DEF WriterInv
<1>5. CASE /\ Return("refused")
           /\ \/ ~entry.sound
              \/ current # entry.before /\ FileDigest(current) # FileDigest(entry.after)
  <2>1. WriterTypes' /\ CallInv'
    BY <1>0, <1>1, <1>5 DEF WriterTypes, CallInv, Holding
  <2>2. UndoInv'
    BY <1>0, <1>1, <1>5 DEF WriterTypes, UndoInv, Pending, JournalEntry
  <2>3. entry.file \in blurred \/ ~entry.sound
    BY <1>0, <1>1, <1>5 DEF UndoInv, JournalEntry
  <2>4. RecoveryUndoes'
    BY <1>1, <1>5, <2>3 DEF RecoveryUndoes
  <2> QED BY <1>2, <2>1, <2>2, <2>4 DEF WriterInv
<1> QED BY <1>3, <1>4, <1>5

LEMMA RestoreKeeps ==
  ASSUME WriterInv, Restore
  PROVE  WriterInv'
<1> USE DEF Restore, Goto, others, ghosts, Journalled
<1>0. /\ WriterTypes /\ CallInv /\ FreshInv /\ UndoInv
      /\ JournalCoversWrites /\ RecoveryUndoes
  BY DEF WriterInv
<1>1. WriterTypes'
  BY <1>0 DEF WriterTypes, CallInv, JournalEntry, Holding
<1>2. CallInv'
  BY <1>0, EntryIsSome DEF WriterTypes, CallInv, FreshInv, JournalEntry
<1>3. FreshInv'
  BY <1>0, EntryIsSome DEF WriterTypes, CallInv, FreshInv
<1>4. UndoInv'
  BY <1>0, EntryIsSome DEF WriterTypes, CallInv, UndoInv, Pending, JournalEntry
<1>5. JournalCoversWrites'
  BY <1>0, EntryIsSome
  DEF WriterTypes, CallInv, FreshInv, JournalCoversWrites, JournalEntry
<1>6. RecoveryUndoes'
  BY <1>0 DEF WriterTypes, CallInv, UndoInv, Pending, RecoveryUndoes
<1> QED BY <1>1, <1>2, <1>3, <1>4, <1>5, <1>6 DEF WriterInv

LEMMA RemoveJournalKeeps ==
  ASSUME WriterInv, RemoveJournal
  PROVE  WriterInv'
<1> DEFINE t == call.tx
<1> USE DEF RemoveJournal, Return, NoCall, others, ghosts, Journalled
<1>0. /\ WriterTypes /\ CallInv /\ FreshInv /\ UndoInv
      /\ JournalCoversWrites /\ RecoveryUndoes
  BY DEF WriterInv
<1>1. /\ t \in Tx /\ journal' = [journal EXCEPT ![t] = NoEntry]
      /\ Journalled' = Journalled \ {t}
      /\ UNCHANGED <<file, used, settled, blurred>>
  BY <1>0 DEF WriterTypes, CallInv
<1>2. FreshInv' /\ JournalCoversWrites'
  BY <1>0, <1>1 DEF WriterTypes, FreshInv, JournalCoversWrites
<1>3. \/ /\ call.outcome = "recovering" /\ call'.outcome = "recovering"
         /\ call'.at = "recover"
         /\ call'.todo = call.todo \ {t}
      \/ /\ call.outcome # "recovering" /\ call'.outcome = "undone"
         /\ call'.at = "idle" /\ call'.file = Nothing
         /\ call'.todo = {}
  BY <1>0 DEF WriterTypes
<1>4. WriterTypes'
  <2>1. /\ journal' \in [Tx -> JournalEntry \cup {NoEntry}]
        /\ replaced' \in [Tx -> Holding \cup {Nothing}]
    BY <1>0, <1>1 DEF WriterTypes
  <2>2. CASE call.outcome = "recovering"
    <3> DEFINE rest == call.todo \ {t}
    <3>1. rest \subseteq Tx /\ call' = [call EXCEPT !.at = "recover", !.todo = rest]
      BY <1>0, <2>2 DEF WriterTypes
    <3> HIDE DEF rest
    <3> QED BY <1>0, <1>1, <2>1, <3>1 DEF WriterTypes
  <2>3. CASE call.outcome # "recovering"
    BY <1>0, <1>1, <2>1, <2>3 DEF WriterTypes, Holding
  <2> QED BY <2>2, <2>3
<1>5. CallInv'
  BY <1>0, <1>1, <1>3 DEF WriterTypes, CallInv
<1>6. UndoInv'
  <2> SUFFICES ASSUME NEW f \in File \ blurred
               PROVE  /\ ~Pending(f)' => file[f] = settled[f]
                      /\ \A u \in Journalled' : journal[u].file = f =>
                           /\ journal[u].before = settled[f]
                           /\ file[f] \in {journal[u].before, journal[u].after}
                           /\ \A v \in Journalled' : journal[v].file = f => v = u
    BY <1>0, <1>1, <1>3 DEF WriterTypes, UndoInv, Pending
  <2>1. CASE t \in Journalled /\ journal[t].file = f
    BY <1>0, <1>1, <2>1 DEF UndoInv, CallInv
  <2>2. CASE ~(t \in Journalled /\ journal[t].file = f)
    BY <1>0, <1>1, <2>2 DEF WriterTypes, UndoInv, Pending
  <2> QED BY <2>1, <2>2
<1>7. RecoveryUndoes'
  BY <1>0, <1>1, <1>3 DEF CallInv, RecoveryUndoes
<1> QED BY <1>2, <1>4, <1>5, <1>6, <1>7 DEF WriterInv

LEMMA EndRecoveryKeeps ==
  ASSUME WriterInv, EndRecovery
  PROVE  WriterInv'
<1> USE DEF EndRecovery, Return, NoCall, others, ghosts, Journalled
<1>0. /\ WriterTypes /\ CallInv /\ FreshInv /\ UndoInv
      /\ JournalCoversWrites /\ RecoveryUndoes
  BY DEF WriterInv
<1>1. WriterTypes'
  BY <1>0 DEF WriterTypes, CallInv, JournalEntry, Holding
<1>2. CallInv'
  BY <1>0, EntryIsSome DEF WriterTypes, CallInv, FreshInv, JournalEntry
<1>3. FreshInv'
  BY <1>0, EntryIsSome DEF WriterTypes, CallInv, FreshInv
<1>4. UndoInv'
  BY <1>0, EntryIsSome DEF WriterTypes, CallInv, UndoInv, Pending, JournalEntry
<1>5. JournalCoversWrites'
  BY <1>0, EntryIsSome
  DEF WriterTypes, CallInv, FreshInv, JournalCoversWrites, JournalEntry
<1>6. RecoveryUndoes'
  BY <1>0 DEF WriterTypes, CallInv, UndoInv, Pending, RecoveryUndoes
<1> QED BY <1>1, <1>2, <1>3, <1>4, <1>5, <1>6 DEF WriterInv

LEMMA FailsKeeps ==
  ASSUME WriterInv, Fails
  PROVE  WriterInv'
<1> USE DEF Fails, Return, NoCall, others, ghosts, Journalled
<1>0. /\ WriterTypes /\ CallInv /\ FreshInv /\ UndoInv
      /\ JournalCoversWrites /\ RecoveryUndoes
  BY DEF WriterInv
<1>1. WriterTypes'
  BY <1>0 DEF WriterTypes, CallInv, JournalEntry, Holding
<1>2. CallInv'
  BY <1>0, EntryIsSome DEF WriterTypes, CallInv, FreshInv, JournalEntry
<1>3. FreshInv'
  BY <1>0, EntryIsSome DEF WriterTypes, CallInv, FreshInv
<1>4. UndoInv'
  BY <1>0, EntryIsSome DEF WriterTypes, CallInv, UndoInv, Pending, JournalEntry
<1>5. JournalCoversWrites'
  BY <1>0, EntryIsSome
  DEF WriterTypes, CallInv, FreshInv, JournalCoversWrites, JournalEntry
<1>6. RecoveryUndoes'
  BY <1>0 DEF WriterTypes, CallInv, UndoInv, Pending, RecoveryUndoes
<1> QED BY <1>1, <1>2, <1>3, <1>4, <1>5, <1>6 DEF WriterInv

LEMMA WriterCrashKeeps ==
  ASSUME WriterInv, Crash
  PROVE  WriterInv'
<1> USE DEF Crash, NoCall, others, ghosts, Journalled
<1>0. /\ WriterTypes /\ CallInv /\ FreshInv /\ UndoInv
      /\ JournalCoversWrites /\ RecoveryUndoes
  BY DEF WriterInv
<1>1. WriterTypes'
  BY <1>0 DEF WriterTypes, CallInv, JournalEntry, Holding
<1>2. CallInv'
  BY <1>0, EntryIsSome DEF WriterTypes, CallInv, FreshInv, JournalEntry
<1>3. FreshInv'
  BY <1>0, EntryIsSome DEF WriterTypes, CallInv, FreshInv
<1>4. UndoInv'
  BY <1>0, EntryIsSome DEF WriterTypes, CallInv, UndoInv, Pending, JournalEntry
<1>5. JournalCoversWrites'
  BY <1>0, EntryIsSome
  DEF WriterTypes, CallInv, FreshInv, JournalCoversWrites, JournalEntry
<1>6. RecoveryUndoes'
  BY <1>0 DEF WriterTypes, CallInv, UndoInv, Pending, RecoveryUndoes
<1> QED BY <1>1, <1>2, <1>3, <1>4, <1>5, <1>6 DEF WriterInv

LEMMA EditKeeps ==
  ASSUME WriterInv, NEW f \in File, NEW content \in Holding, Edit(f, content)
  PROVE  WriterInv'
<1> USE DEF Edit, Idle, others, ghosts, Journalled
<1>0. /\ WriterTypes /\ CallInv /\ FreshInv /\ UndoInv
      /\ JournalCoversWrites /\ RecoveryUndoes
  BY DEF WriterInv
<1>1. WriterTypes'
  BY <1>0 DEF WriterTypes, CallInv, JournalEntry, Holding
<1>2. CallInv'
  BY <1>0, EntryIsSome DEF WriterTypes, CallInv, FreshInv, JournalEntry
<1>3. FreshInv'
  BY <1>0, EntryIsSome DEF WriterTypes, CallInv, FreshInv
<1>4. UndoInv'
  BY <1>0, EntryIsSome DEF WriterTypes, CallInv, UndoInv, Pending, JournalEntry
<1>5. JournalCoversWrites'
  BY <1>0, EntryIsSome
  DEF WriterTypes, CallInv, FreshInv, JournalCoversWrites, JournalEntry
<1>6. RecoveryUndoes'
  BY <1>0 DEF WriterTypes, CallInv, UndoInv, Pending, RecoveryUndoes
<1> QED BY <1>1, <1>2, <1>3, <1>4, <1>5, <1>6 DEF WriterInv

LEMMA CorruptKeeps ==
  ASSUME WriterInv, NEW t \in Tx, Corrupt(t)
  PROVE  WriterInv'
<1> USE DEF Corrupt, Idle, others, ghosts, Journalled
<1>0. /\ WriterTypes /\ CallInv /\ FreshInv /\ UndoInv
      /\ JournalCoversWrites /\ RecoveryUndoes
  BY DEF WriterInv
<1>1. /\ journal[t] \in JournalEntry
      /\ journal'[t] = [journal[t] EXCEPT !.sound = FALSE]
      /\ \A u \in Tx \ {t} : journal'[u] = journal[u]
      /\ UNCHANGED <<file, call, used, replaced, settled, blurred>>
  BY <1>0 DEF WriterTypes
<1>2. /\ journal'[t] \in JournalEntry /\ ~journal'[t].sound
      /\ journal'[t].file = journal[t].file
      /\ journal'[t].before = journal[t].before
      /\ journal'[t].after = journal[t].after
  <2>1. \A e \in JournalEntry : LET d == [e EXCEPT !.sound = FALSE]
                        IN /\ d \in JournalEntry /\ ~d.sound
                           /\ d.file = e.file
                           /\ d.before = e.before /\ d.after = e.after
    BY DEF JournalEntry
  <2> QED BY <1>1, <2>1
<1>3. Journalled' = Journalled
  BY <1>1, <1>2, EntryIsSome
<1>4. WriterTypes'
  BY <1>0, <1>1, <1>2 DEF WriterTypes
<1>5. CallInv' /\ FreshInv'
  BY <1>0, <1>1, <1>3 DEF CallInv, FreshInv
<1>6. /\ \A u \in Journalled : /\ journal'[u].file = journal[u].file
                               /\ journal'[u].before = journal[u].before
                               /\ journal'[u].after = journal[u].after
      /\ \A f \in File : Pending(f)' <=> Pending(f)
  BY <1>1, <1>2, <1>3 DEF Pending
<1>7. UndoInv'
  BY <1>0, <1>1, <1>3, <1>6 DEF UndoInv
<1>8. JournalCoversWrites'
  BY <1>0, <1>1, <1>3, <1>6 DEF JournalCoversWrites
<1>9. RecoveryUndoes'
  BY <1>0, <1>1, <1>2, <1>3 DEF RecoveryUndoes
<1> QED BY <1>4, <1>5, <1>7, <1>8, <1>9 DEF WriterInv


-----------------------------------------------------------------------------
(* The theorems about the writer                                           *)

LEMMA WriterNextKeeps == WriterInv /\ [WriterNext]_writerVars => WriterInv'
<1> SUFFICES ASSUME WriterInv, [WriterNext]_writerVars PROVE WriterInv'
  OBVIOUS
<1>1. CASE UNCHANGED writerVars
  BY <1>1
  DEF writerVars, others, ghosts, WriterInv, WriterTypes, CallInv, FreshInv,
      UndoInv,
    JournalCoversWrites, RecoveryUndoes, Journalled, Pending
<1>2. CASE WriterNext
  BY <1>2, WriteKeeps, SaveJournalKeeps, PlaceFileKeeps, CheckWriteKeeps,
    FinalizeKeeps, RollbackKeeps, BeginRecoveryKeeps, RecoverNextKeeps,
    RestoreKeeps, RemoveJournalKeeps, EndRecoveryKeeps, FailsKeeps, WriterCrashKeeps,
    EditKeeps, CorruptKeeps DEF WriterNext, Holding
<1> QED BY <1>1, <1>2

\* Each write that has replaced a file and is neither final nor undone has a
\* journal, at every crash and failure, and the journal holds what the write
\* replaced unless others have changed the file meanwhile.
THEOREM JournalsCover == WriterSpec => []JournalCoversWrites
<1>1. WriterInv => JournalCoversWrites
  BY DEF WriterInv
<1> QED BY <1>1, WriterInitHolds, WriterNextKeeps, PTL DEF WriterSpec

\* A recovery that returns has undone every write that was not final, and it
\* refuses only what others, or two writes of one file, have done.
THEOREM RecoveriesUndo == WriterSpec => []RecoveryUndoes
<1>1. WriterInv => RecoveryUndoes
  BY DEF WriterInv
<1> QED BY <1>1, WriterInitHolds, WriterNextKeeps, PTL DEF WriterSpec

-----------------------------------------------------------------------------
(* The database file: the inductive invariant                              *)

Kept == {"rollback", "quarantine"} \X Db!Incident
Copy == Db!Content \cup {Db!NoFile}
Pair == [Db!Part -> Copy]
Untouched == [p \in Db!Part |-> Db!NoFile]

Activating == {"staging", "move main", "move wal", "place", "verify", "remove",
               "put wal back", "put main back", "clean"}
Quarantining == {"quarantine main", "quarantine wal"}

Tasks ==
  [at : {"idle", "copying", "inspect"} \cup Activating \cup Quarantining,
   moved : SUBSET Db!Part, copy : Db!Generation,
   outcome : {"none", "returned", "threw"}, before : Pair]

BackupTypes ==
  /\ disk \in [Db!Directory -> Pair]
  /\ manifest \in Copy
  /\ store \in {"closed", "open", "readonly"}
  /\ committed \in [Db!Generation -> 0 .. MaxCommit + 1]
  /\ task \in Tasks
  /\ incidents \in 0 .. MaxIncident

\* A log that lies beside a database is its own.
LogBelongs(pair) ==
  pair["main"] # Db!NoFile => pair["wal"].gen \in {0, pair["main"].gen}

\* What an open store needs of its file, and what is never at its place.
OpenInv ==
  /\ store # "closed" => /\ disk[Db!Active]["main"] # Db!NoFile
                         /\ task.at \in {"idle", "copying", "inspect"}
  /\ task.at \in {"copying", "inspect"} => store # "closed"
  /\ store = "open" => disk[Db!Active]["main"].health = "whole"
  /\ disk[Db!Active]["main"].health # "torn" /\ LogBelongs(disk[Db!Active])
  /\ task.before["main"].health # "torn" /\ LogBelongs(task.before)

\* The directories of incidents to come are empty.
IncidentInv ==
  /\ task.at \in Activating \cup Quarantining => incidents \in Db!Incident
  /\ \A i \in Db!Incident : i > incidents =>
       \A k \in {"staging", "rollback", "quarantine"} :
         disk[<<k, i>>] = Untouched

\* What an activation found lies where its next step or the catch block
\* expects it: at its place, moved aside, or one of the two.
InPlace == \A p \in Db!Part : disk[Db!Active][p] = task.before[p]

Unmoved ==
  \A p \in Db!Part : disk[Db!Rollback][p] = Db!NoFile /\ p \notin task.moved

HalfMoved ==
  /\ disk[Db!Active]["main"] = Db!NoFile
  /\ disk[Db!Rollback]["main"] = task.before["main"]
  /\ "main" \in task.moved <=> task.before["main"] # Db!NoFile
  /\ disk[Db!Active]["wal"] = task.before["wal"]
  /\ disk[Db!Rollback]["wal"] = Db!NoFile /\ "wal" \notin task.moved

Moved ==
  /\ \A p \in Db!Part :
       /\ disk[Db!Rollback][p] = task.before[p]
       /\ p \in task.moved <=> task.before[p] # Db!NoFile
  /\ disk[Db!Active]["wal"] = Db!NoFile

MovedOrInPlace ==
  /\ \A p \in Db!Part :
       disk[Db!Rollback][p] = IF p \in task.moved THEN task.before[p]
                              ELSE Db!NoFile
  /\ "main" \notin task.moved => task.before["main"] = Db!NoFile
  /\ "wal" \notin task.moved => disk[Db!Active]["wal"] = task.before["wal"]

LogBack ==
  /\ disk[Db!Active]["wal"] = task.before["wal"]
  /\ disk[Db!Rollback]["main"] = IF "main" \in task.moved
                                 THEN task.before["main"] ELSE Db!NoFile
  /\ "main" \notin task.moved => task.before["main"] = Db!NoFile

MovingInv ==
  /\ task.at \in {"staging", "move main"} => InPlace /\ Unmoved
  /\ task.at = "move wal" => HalfMoved
  /\ task.at \in {"place", "verify"} => Moved
  /\ task.at \in {"remove", "put wal back"} => MovedOrInPlace
  /\ task.at = "put main back" => LogBack
  /\ task.at \in {"place", "put wal back", "put main back"} =>
       disk[Db!Active]["main"] = Db!NoFile
  /\ task.at = "clean" => InPlace

\* The copy that comes in, until it is there or has gone.
CopyInv ==
  LET staged == disk[Db!Staging]["main"]
      active == disk[Db!Active]["main"]
  IN /\ task.at \in {"staging", "move main", "move wal", "place"} =>
          committed[task.copy] = 0 /\ staged.gen = task.copy
     /\ task.at \in {"move main", "move wal", "place"} =>
          staged.health = "whole"
     /\ task.at = "verify" =>
          active.gen = task.copy /\ active.upto = committed[task.copy]
     /\ task.at = "remove" => active.gen \in {0, task.copy}

\* A quarantine finds its directories empty, and the database before its log.
QuarantineInv ==
  /\ task.at = "quarantine main" =>
       \A p \in Db!Part : /\ disk[Db!Quarantine][p] = Db!NoFile
                          /\ disk[Db!Rollback][p] = Db!NoFile
  /\ task.at = "quarantine wal" =>
       /\ disk[Db!Active]["main"] = Db!NoFile
       /\ disk[Db!Quarantine]["wal"] = Db!NoFile

\* A database and its log have every transaction of a generation.
Whole(main, wal, g) ==
  /\ main.gen = g
  /\ committed[g] = IF wal.gen = g THEN wal.upto ELSE main.upto

WholeIn(d, g) == Whole(disk[d]["main"], disk[d]["wal"], g)

\* Where a database is whole to its last transaction: at its place or moved
\* aside, and during an activation or a quarantine among what was found.
WholeInv ==
  ~cut => \A g \in Db!Generation : committed[g] # 0 =>
    \/ \E d \in Kept \ {Db!Rollback, Db!Quarantine} : WholeIn(d, g)
    \/ /\ task.at \notin Activating \cup {"quarantine wal"}
       /\ \E d \in {Db!Active, Db!Rollback, Db!Quarantine} \cap Db!Directory :
            WholeIn(d, g)
    \/ /\ task.at \in Activating
       /\ Whole(task.before["main"], task.before["wal"], g)
    \/ task.at \in {"verify", "remove"} /\ g = task.copy
    \/ /\ task.at = "quarantine wal"
       /\ Whole(disk[Db!Quarantine]["main"], disk[Db!Active]["wal"], g)

\* WholeInv while nothing is moved.
RestWhole ==
  ~cut => \A g \in Db!Generation : committed[g] # 0 =>
    \E d \in {Db!Active} \cup Kept : WholeIn(d, g)

\* DatabasesKept, on the directories named above.
KeptInv ==
  \A g \in Db!Generation : committed[g] # 0 =>
    \/ disk[Db!Active]["main"].gen = g
    \/ \E d \in Kept : disk[d]["main"].gen = g

BackupInv ==
  /\ BackupTypes /\ OpenInv /\ IncidentInv /\ MovingInv /\ CopyInv
  /\ QuarantineInv /\ WholeInv /\ KeptInv

-----------------------------------------------------------------------------
(* The database file: directories, contents and operations on the disk     *)

\* The directories of an incident are different, and none is the active one or
\* the backup's.
LEMMA Places ==
  ASSUME incidents \in Nat
  PROVE  /\ Db!Active \in Db!Directory /\ Db!Target \in Db!Directory
         /\ \A d \in Kept : d \in Db!Directory
         /\ Db!Active # Db!Target
         /\ Db!Staging # Db!Active /\ Db!Staging # Db!Target
         /\ Db!Rollback # Db!Active /\ Db!Rollback # Db!Target
         /\ Db!Quarantine # Db!Active /\ Db!Quarantine # Db!Target
         /\ Db!Staging # Db!Rollback /\ Db!Staging # Db!Quarantine
         /\ Db!Rollback # Db!Quarantine
         /\ Db!Active \notin Kept /\ Db!Target \notin Kept
         /\ Db!Staging \notin Kept
         /\ incidents \in Db!Incident =>
              /\ Db!Rollback \in Kept /\ Db!Quarantine \in Kept
              /\ Db!Staging \in Db!Directory
BY DEF Db!Active, Db!Target, Db!Directory, Db!Staging, Db!Rollback,
       Db!Quarantine, Kept

\* The directories of an incident to come are none of those in use.
LEMMA LaterPlaces ==
  ASSUME incidents \in Nat, NEW i \in Db!Incident, i > incidents,
         NEW k \in {"staging", "rollback", "quarantine"}
  PROVE  /\ <<k, i>> \in Db!Directory
         /\ <<k, i>> \notin {Db!Active, Db!Target, Db!Staging, Db!Rollback,
                             Db!Quarantine}
BY DEF Db!Active, Db!Target, Db!Directory, Db!Staging, Db!Rollback,
       Db!Quarantine, Db!Incident

\* There is at least one generation, the first database.
LEMMA Bounds ==
  /\ MaxGeneration \in Nat /\ 1 \in Db!Generation
  /\ MaxCommit \in Nat /\ MaxIncident \in Nat
<1>1. /\ MaxGeneration \in Nat /\ MaxGeneration # 0
      /\ MaxCommit \in Nat /\ MaxIncident \in Nat
  BY DiskAssumption DEF Db!BackupParameters
<1>2. 1 \in 1 .. MaxGeneration
  BY <1>1
<1> QED BY <1>1, <1>2 DEF Db!Generation

\* What can lie at a place: nothing, or a content of some generation.
LEMMA Copies ==
  /\ Db!NoFile \in Copy /\ Db!NoFile.gen = 0 /\ Db!NoFile.health = "none"
  /\ \A c \in Copy :
       /\ c.gen \in Nat /\ c.upto \in Nat
       /\ c = Db!NoFile <=> c.gen = 0
       /\ c # Db!NoFile =>
            c \in Db!Content /\ c.gen \in Db!Generation /\ c.health # "none"
<1>2. /\ Db!NoFile \in Copy /\ Db!NoFile.gen = 0 /\ Db!NoFile.upto = 0
      /\ Db!NoFile.health = "none"
  BY DEF Copy, Db!NoFile
<1>3. \A c \in Db!Content : /\ c.gen \in Db!Generation /\ c.gen \in Nat
                           /\ c.gen # 0 /\ c.upto \in Nat
                           /\ c.health # "none"
  BY Bounds DEF Db!Content, Db!Generation
<1> QED BY <1>2, <1>3 DEF Copy

\* Directories with the same files are the same.
LEMMA SamePair ==
  ASSUME NEW x \in Pair, NEW y \in Pair, \A p \in Db!Part : x[p] = y[p]
  PROVE  x = y
BY DEF Pair

\* What a write and a rename leave in the directories, file by file.
LEMMA Writes ==
  ASSUME disk \in [Db!Directory -> Pair],
         NEW d \in Db!Directory, NEW p \in Db!Part, NEW c \in Copy
  PROVE  LET after == Db!Written(d, p, c)
         IN /\ after \in [Db!Directory -> Pair]
            /\ after[d][p] = c
            /\ \A q \in Db!Part \ {p} : after[d][q] = disk[d][q]
            /\ \A e \in Db!Directory \ {d} : after[e] = disk[e]
BY DEF Db!Written, Pair

LEMMA Renames ==
  ASSUME disk \in [Db!Directory -> Pair], NEW p \in Db!Part,
         NEW from \in Db!Directory, NEW to \in Db!Directory, from # to
  PROVE  LET after == Db!Renamed(from, to, p)
         IN /\ after \in [Db!Directory -> Pair]
            /\ after[from][p] = Db!NoFile /\ after[to][p] = disk[from][p]
            /\ \A q \in Db!Part \ {p} :
                 after[from][q] = disk[from][q] /\ after[to][q] = disk[to][q]
            /\ \A e \in Db!Directory \ {from, to} : after[e] = disk[e]
BY Copies DEF Db!Renamed, Pair

-----------------------------------------------------------------------------
(* The database file: every step keeps the invariant                       *)

\* The directories of the incident under way stay what they are.
LEMMA SamePlaces ==
  ASSUME UNCHANGED incidents
  PROVE  /\ Db!Active' = Db!Active /\ Db!Target' = Db!Target
         /\ Db!Staging' = Db!Staging
         /\ Db!Rollback' = Db!Rollback /\ Db!Quarantine' = Db!Quarantine
BY DEF Db!Active, Db!Target, Db!Staging, Db!Rollback, Db!Quarantine

\* An incident is under way in an activation or a quarantine.
LEMMA UnderWay ==
  ASSUME BackupInv
  PROVE  /\ incidents \in Nat /\ disk \in [Db!Directory -> Pair]
         /\ task.at \in Activating \cup Quarantining =>
              /\ incidents \in Db!Incident /\ store = "closed"
              /\ Db!Rollback \in Kept /\ Db!Quarantine \in Kept
              /\ Db!Staging \in Db!Directory /\ Db!Rollback \in Db!Directory
              /\ Db!Quarantine \in Db!Directory
<1>1. incidents \in Nat /\ disk \in [Db!Directory -> Pair]
  BY DEF BackupInv, BackupTypes
<1>2. task.at \in Activating \cup Quarantining =>
        incidents \in Db!Incident /\ store = "closed"
  BY DEF BackupInv, OpenInv, IncidentInv, Activating, Quarantining
<1> QED BY <1>1, <1>2, Places

LEMMA MoveAsideKeeps ==
  ASSUME BackupInv, NEW p \in Db!Part, Db!MoveAside(p)
  PROVE  BackupInv'
<1> USE DEF Db!Part
<1>0. BackupTypes /\ OpenInv /\ IncidentInv /\ MovingInv /\ CopyInv /\ WholeInv
      /\ KeptInv
  BY DEF BackupInv
<1>1. /\ task.at = IF p = "main" THEN "move main" ELSE "move wal"
      /\ UNCHANGED <<manifest, store, committed, incidents, restarts, cut>>
  BY DEF Db!MoveAside
<1>2. /\ incidents \in Nat /\ incidents \in Db!Incident /\ store = "closed"
      /\ Db!Rollback \in Kept /\ Db!Quarantine \in Kept
      /\ Db!Staging \in Db!Directory /\ Db!Rollback \in Db!Directory
      /\ Db!Quarantine \in Db!Directory
      /\ disk \in [Db!Directory -> Pair]
  BY <1>1, UnderWay DEF Activating
<1>3. /\ disk[Db!Active][p] = task.before[p] /\ disk[Db!Rollback][p] = Db!NoFile
      /\ task.moved \subseteq Db!Part
  BY <1>0, <1>1
  DEF MovingInv, InPlace, Unmoved, HalfMoved, Moved, BackupTypes, Tasks
<1>4. /\ disk' \in [Db!Directory -> Pair]
      /\ disk'[Db!Active][p] = Db!NoFile
      /\ disk'[Db!Rollback][p] = disk[Db!Active][p]
      /\ \A q \in Db!Part \ {p} : /\ disk'[Db!Active][q] = disk[Db!Active][q]
                                  /\ disk'[Db!Rollback][q] = disk[Db!Rollback][q]
      /\ \A e \in Db!Directory \ {Db!Active, Db!Rollback} : disk'[e] = disk[e]
  <2>1. CASE Db!Exists(Db!Active, p)
    <3>1. disk' = Db!Renamed(Db!Active, Db!Rollback, p)
      BY <2>1 DEF Db!MoveAside
    <3> QED BY <1>2, <3>1, Places, Renames
  <2>2. CASE ~Db!Exists(Db!Active, p)
    BY <1>2, <1>3, <2>2 DEF Db!MoveAside, Db!Exists
  <2> QED BY <2>1, <2>2
<1>5. /\ task' = [task EXCEPT !.at = task'.at, !.moved = task'.moved]
      /\ task'.at = IF p = "main" THEN "move wal" ELSE "place"
      /\ task'.moved = IF disk[Db!Active][p] # Db!NoFile
                       THEN task.moved \cup {p} ELSE task.moved
      /\ task'.before = task.before /\ task'.copy = task.copy
  BY <1>0 DEF Db!MoveAside, Db!Exists, Db!After, BackupTypes, Tasks
<1>6. BackupTypes'
  <2>1. task'.at \in {"move wal", "place"} /\ task'.moved \in SUBSET Db!Part
    BY <1>3, <1>5
  <2>2. task' \in Tasks
    BY <1>0, <1>5, <2>1 DEF BackupTypes, Tasks, Activating
  <2> QED BY <1>0, <1>1, <1>4, <2>2 DEF BackupTypes
<1>7. OpenInv'
  BY <1>0, <1>1, <1>2, <1>4, <1>5, Copies, Places, SamePlaces
  DEF BackupTypes, OpenInv, LogBelongs, Pair
<1>8. IncidentInv'
  BY <1>0, <1>1, <1>2, <1>4, <1>5, LaterPlaces DEF IncidentInv, Activating
<1>9. MovingInv'
  <2>1. CASE p = "main"
    <3>1. /\ task.at = "move main" /\ task'.at = "move wal"
          /\ disk[Db!Active]["wal"] = task.before["wal"]
          /\ disk[Db!Rollback]["wal"] = Db!NoFile
          /\ "wal" \notin task.moved /\ "main" \notin task.moved
      BY <1>0, <1>1, <1>5, <2>1
      DEF MovingInv, InPlace, Unmoved, HalfMoved, Moved
    <3>2. /\ disk'[Db!Active]["main"] = Db!NoFile
          /\ disk'[Db!Rollback]["main"] = task.before["main"]
          /\ disk'[Db!Active]["wal"] = task.before["wal"]
          /\ disk'[Db!Rollback]["wal"] = Db!NoFile
      BY <1>3, <1>4, <2>1, <3>1
    <3>3. /\ "main" \in task'.moved <=> task.before["main"] # Db!NoFile
          /\ "wal" \notin task'.moved
      <4>1. CASE task.before["main"] # Db!NoFile
        <5>1. task'.moved = task.moved \cup {"main"}
          BY <1>3, <1>5, <2>1, <4>1
        <5> QED BY <3>1, <4>1, <5>1
      <4>2. CASE task.before["main"] = Db!NoFile
        <5>1. task'.moved = task.moved
          BY <1>3, <1>5, <2>1, <4>2
        <5> QED BY <3>1, <4>2, <5>1
      <4> QED BY <4>1, <4>2
    <3> QED BY <1>1, <1>5, <3>1, <3>2, <3>3, SamePlaces
            DEF MovingInv, InPlace, Unmoved, HalfMoved, Moved
  <2>2. CASE p = "wal"
    <3>1. /\ task.at = "move wal" /\ task'.at = "place"
          /\ disk[Db!Active]["main"] = Db!NoFile
          /\ disk[Db!Rollback]["main"] = task.before["main"]
          /\ "wal" \notin task.moved
          /\ "main" \in task.moved <=> task.before["main"] # Db!NoFile
      BY <1>0, <1>1, <1>5, <2>2
      DEF MovingInv, InPlace, Unmoved, HalfMoved, Moved
    <3>2. /\ disk'[Db!Active]["main"] = Db!NoFile
          /\ disk'[Db!Rollback]["main"] = task.before["main"]
          /\ disk'[Db!Active]["wal"] = Db!NoFile
          /\ disk'[Db!Rollback]["wal"] = task.before["wal"]
      BY <1>3, <1>4, <2>2, <3>1
    <3>3. /\ "main" \in task'.moved <=> task.before["main"] # Db!NoFile
          /\ "wal" \in task'.moved <=> task.before["wal"] # Db!NoFile
      <4>1. CASE task.before["wal"] # Db!NoFile
        <5>1. task'.moved = task.moved \cup {"wal"}
          BY <1>3, <1>5, <2>2, <4>1
        <5> QED BY <3>1, <4>1, <5>1
      <4>2. CASE task.before["wal"] = Db!NoFile
        <5>1. task'.moved = task.moved
          BY <1>3, <1>5, <2>2, <4>2
        <5> QED BY <3>1, <4>2, <5>1
      <4> QED BY <4>1, <4>2
    <3> QED BY <1>1, <1>5, <3>1, <3>2, <3>3, SamePlaces
            DEF MovingInv, InPlace, Unmoved, HalfMoved, Moved
  <2> QED BY <2>1, <2>2
<1>10. CopyInv'
  <2>1. disk'[Db!Staging] = disk[Db!Staging]
    BY <1>2, <1>4, Places
  <2> QED BY <1>0, <1>1, <1>5, <2>1, SamePlaces DEF CopyInv
<1>11. QuarantineInv'
  BY <1>5 DEF QuarantineInv
<1>12. WholeInv'
  <2> SUFFICES ASSUME ~cut, NEW g \in Db!Generation, committed[g] # 0
               PROVE  \/ \E d \in Kept \ {Db!Rollback, Db!Quarantine} : WholeIn(d, g)'
                      \/ Whole(task.before["main"], task.before["wal"], g)
    BY <1>1, <1>5, SamePlaces DEF WholeInv, Activating, Whole
  <2>1. \/ \E d \in Kept \ {Db!Rollback, Db!Quarantine} : WholeIn(d, g)
        \/ Whole(task.before["main"], task.before["wal"], g)
    BY <1>0, <1>1 DEF WholeInv, Activating
  <2>2. \A d \in Kept \ {Db!Rollback, Db!Quarantine} : disk'[d] = disk[d]
    BY <1>2, <1>4, Places
  <2> QED BY <1>1, <2>1, <2>2 DEF WholeIn, Whole
<1>13. KeptInv'
  <2> SUFFICES ASSUME NEW g \in Db!Generation, committed[g] # 0
               PROVE  \/ disk'[Db!Active]["main"].gen = g
                      \/ \E d \in Kept : disk'[d]["main"].gen = g
    BY <1>1, SamePlaces DEF KeptInv
  <2>1. g # 0
    BY DEF Db!Generation
  <2>2. \A d \in Kept \ {Db!Rollback} : disk'[d] = disk[d]
    BY <1>2, <1>4, Places
  <2>3. disk[Db!Rollback]["main"].gen = g => p # "main"
    BY <1>3, <2>1, Copies
  <2> QED BY <1>0, <1>2, <1>4, <2>2, <2>3 DEF KeptInv
<1> QED BY <1>6, <1>7, <1>8, <1>9, <1>10, <1>11, <1>12, <1>13 DEF BackupInv

\* Nothing is said of an activation or a quarantine when none is under way.
LEMMA AtRest ==
  ASSUME task'.at \in {"idle", "copying", "inspect"}
  PROVE  MovingInv' /\ CopyInv' /\ QuarantineInv'
BY DEF MovingInv, CopyInv, QuarantineInv

LEMMA WholeAtRest ==
  ASSUME incidents \in Nat, task.at \notin Activating \cup {"quarantine wal"}
  PROVE  WholeInv => RestWhole
<1>1. /\ Db!Rollback \in Db!Directory => Db!Rollback \in Kept
      /\ Db!Quarantine \in Db!Directory => Db!Quarantine \in Kept
  BY DEF Db!Rollback, Db!Quarantine, Db!Directory, Db!Active, Db!Target, Kept
<1>2. "verify" \in Activating /\ "remove" \in Activating
  BY DEF Activating
<1> QED BY <1>1, <1>2 DEF WholeInv, RestWhole

LEMMA RestIsWhole ==
  ASSUME incidents' \in Nat, task'.at \notin Activating \cup {"quarantine wal"},
         RestWhole'
  PROVE  WholeInv'
<1>1. Db!Active' \in Db!Directory
  BY DEF Db!Active, Db!Directory
<1>2. \A d \in Kept : d \in Db!Directory
  BY DEF Kept, Db!Directory
<1> SUFFICES ASSUME NEW g \in Db!Generation, committed'[g] # 0, ~cut',
                    NEW d \in {Db!Active'} \cup Kept, WholeIn(d, g)'
             PROVE  \/ \E e \in Kept \ {Db!Rollback', Db!Quarantine'} : WholeIn(e, g)'
                    \/ \E e \in {Db!Active', Db!Rollback', Db!Quarantine'}
                                  \cap Db!Directory : WholeIn(e, g)'
  BY DEF WholeInv, RestWhole
<1> QED BY <1>1, <1>2

LEMMA OpenFreshKeeps ==
  ASSUME BackupInv, Db!OpenFresh
  PROVE  BackupInv'
<1> USE DEF Db!Part
<1>0. BackupTypes /\ OpenInv /\ IncidentInv /\ WholeInv /\ KeptInv
  BY DEF BackupInv
<1>1. /\ store' = "open" /\ task.at = "idle" /\ disk[Db!Active]["main"] = Db!NoFile
      /\ UNCHANGED <<manifest, task, incidents, restarts, cut>>
      /\ incidents \in Nat /\ disk \in [Db!Directory -> Pair]
  BY UnderWay DEF Db!OpenFresh, Db!Exists
<1> DEFINE fresh(g) == [gen |-> g, upto |-> 1, health |-> "whole"]
           pair(g) == [p \in Db!Part |-> IF p = "main" THEN fresh(g) ELSE Db!NoFile]
<1>2. PICK g \in Db!Generation :
        /\ committed[g] = 0 /\ committed' = [committed EXCEPT ![g] = 1]
        /\ disk' = [disk EXCEPT ![Db!Active] = pair(g)]
  BY DEF Db!OpenFresh, Db!IsNew
<1>3. /\ fresh(g) \in Db!Content /\ fresh(g) # Db!NoFile
      /\ pair(g) \in Pair /\ pair(g)["main"] = fresh(g)
      /\ pair(g)["wal"] = Db!NoFile
  <2>1. 1 \in 1 .. MaxCommit + 1
    BY Bounds
  <2>2. fresh(g) \in Db!Content
    BY <2>1 DEF Db!Content
  <2> HIDE DEF fresh
  <2>3. pair(g) \in Pair
    BY <2>2 DEF Pair, Copy
  <2>4. fresh(g) # Db!NoFile
    BY DEF fresh, Db!NoFile, Db!Generation
  <2> QED BY <2>2, <2>3, <2>4
<1>4. fresh(g).gen = g /\ fresh(g).upto = 1 /\ fresh(g).health = "whole"
  OBVIOUS
<1> HIDE DEF fresh, pair
<1>5. /\ disk' \in [Db!Directory -> Pair]
      /\ disk'[Db!Active]["main"] = fresh(g) /\ disk'[Db!Active]["wal"] = Db!NoFile
      /\ \A e \in Db!Directory \ {Db!Active} : disk'[e] = disk[e]
  BY <1>1, <1>2, <1>3, Places
<1>6. BackupTypes'
  <2>1. committed' \in [Db!Generation -> 0 .. MaxCommit + 1]
    BY <1>0, <1>2, Bounds DEF BackupTypes
  <2> QED BY <1>0, <1>1, <1>5, <2>1 DEF BackupTypes
<1>7. OpenInv'
  BY <1>0, <1>1, <1>3, <1>4, <1>5, Copies, SamePlaces DEF OpenInv, LogBelongs
<1>8. IncidentInv'
  BY <1>0, <1>1, <1>5, LaterPlaces DEF IncidentInv
<1>9. MovingInv' /\ CopyInv' /\ QuarantineInv'
  BY <1>1, AtRest
<1>10. \A d \in Kept : disk'[d] = disk[d]
  BY <1>1, <1>5, Places
<1>11. WholeInv'
  <2>1. RestWhole
    BY <1>0, <1>1, WholeAtRest DEF Activating
  <2>2. RestWhole'
    BY <1>1, <1>2, <1>4, <1>5, <1>10, <2>1, Copies, SamePlaces
    DEF RestWhole, WholeIn, Whole, Db!Generation
  <2> QED BY <1>1, <2>2, RestIsWhole DEF Activating
<1>12. KeptInv'
  BY <1>0, <1>1, <1>2, <1>4, <1>5, <1>10, Copies, SamePlaces
  DEF KeptInv, Db!Generation
<1> QED BY <1>6, <1>7, <1>8, <1>9, <1>11, <1>12 DEF BackupInv

LEMMA OpenExistingKeeps ==
  ASSUME BackupInv, Db!OpenExisting
  PROVE  BackupInv'
<1>0. BackupTypes /\ OpenInv /\ IncidentInv /\ WholeInv /\ KeptInv
  BY DEF BackupInv
<1>1. /\ task.at = "idle" /\ disk[Db!Active]["main"] # Db!NoFile
      /\ disk[Db!Active]["main"].health # "broken"
      /\ store' = IF disk[Db!Active]["main"].health = "altered"
                  THEN "readonly" ELSE "open"
      /\ UNCHANGED <<disk, manifest, committed, task, incidents, restarts, cut>>
      /\ incidents \in Nat /\ disk \in [Db!Directory -> Pair]
  BY UnderWay DEF Db!OpenExisting, Db!Exists
<1>2. disk[Db!Active]["main"].health \in {"whole", "altered"}
  BY <1>0, <1>1, Copies, Places DEF OpenInv, Pair, Db!Part, Db!Content
<1>3. BackupTypes'
  BY <1>0, <1>1 DEF BackupTypes
<1>4. OpenInv'
  BY <1>0, <1>1, <1>2, SamePlaces DEF OpenInv, LogBelongs
<1>5. IncidentInv'
  BY <1>0, <1>1 DEF IncidentInv
<1>6. MovingInv' /\ CopyInv' /\ QuarantineInv'
  BY <1>1, AtRest
<1>7. RestWhole
  BY <1>0, <1>1, WholeAtRest DEF Activating
<1>8. RestWhole' /\ KeptInv'
  BY <1>0, <1>1, <1>7, SamePlaces DEF RestWhole, WholeIn, Whole, KeptInv
<1>9. WholeInv'
  BY <1>1, <1>8, RestIsWhole DEF Activating
<1> QED BY <1>3, <1>4, <1>5, <1>6, <1>8, <1>9 DEF BackupInv

\* A procedure that begins or ends has found nothing and moved nothing yet.
LEMMA IdleTask ==
  ASSUME NEW at \in {"idle", "copying", "inspect", "quarantine main"}
  PROVE  LET t == [Db!Idle EXCEPT !.at = at]
         IN /\ t \in Tasks
            /\ t.at = at /\ t.before["main"] = Db!NoFile
            /\ t.before["wal"] = Db!NoFile
<1>1. [p \in Db!Part |-> Db!NoFile] \in Pair
  BY DEF Pair, Copy
<1> QED BY <1>1, Bounds DEF Tasks, Db!Idle, Db!Part, Quarantining

LEMMA IdleIsIdle == Db!Idle = [Db!Idle EXCEPT !.at = "idle"] /\ Db!Idle.at = "idle"
BY DEF Db!Idle

LEMMA CommitKeeps ==
  ASSUME BackupInv, Db!Commit
  PROVE  BackupInv'
<1> USE DEF Db!Part
<1> DEFINE g == disk[Db!Active]["main"].gen
           log == [gen |-> g, upto |-> committed[g] + 1, health |-> "whole"]
<1>0. BackupTypes /\ OpenInv /\ IncidentInv /\ WholeInv /\ KeptInv
  BY DEF BackupInv
<1>1. /\ store = "open" /\ task.at \in {"idle", "inspect"}
      /\ disk[Db!Active]["main"] # Db!NoFile
      /\ UNCHANGED <<manifest, store, task, incidents, restarts, cut>>
      /\ incidents \in Nat /\ disk \in [Db!Directory -> Pair]
  BY <1>0, UnderWay DEF Db!Commit, OpenInv
<1>2. g \in Db!Generation
  BY <1>1, Copies, Places DEF Pair
<1>3. /\ committed[g] <= MaxCommit /\ committed[g] \in 0 .. MaxCommit + 1
      /\ committed' = [committed EXCEPT ![g] = committed[g] + 1]
      /\ disk' = Db!Written(Db!Active, "wal", log)
  BY <1>0, <1>2 DEF Db!Commit, BackupTypes
<1>4. log \in Copy /\ log.gen = g /\ log.upto = committed[g] + 1
  BY <1>2, <1>3, Bounds DEF Copy, Db!Content
<1> HIDE DEF log
<1>5. /\ disk' \in [Db!Directory -> Pair]
      /\ disk'[Db!Active]["main"] = disk[Db!Active]["main"]
      /\ disk'[Db!Active]["wal"] = log
      /\ \A e \in Db!Directory \ {Db!Active} : disk'[e] = disk[e]
  BY <1>1, <1>3, <1>4, Places, Writes
<1>6. BackupTypes'
  <2>1. committed' \in [Db!Generation -> 0 .. MaxCommit + 1]
    BY <1>0, <1>2, <1>3, Bounds DEF BackupTypes
  <2> QED BY <1>0, <1>1, <1>5, <2>1 DEF BackupTypes
<1>7. OpenInv'
  BY <1>0, <1>1, <1>4, <1>5, SamePlaces DEF OpenInv, LogBelongs
<1>8. IncidentInv'
  BY <1>0, <1>1, <1>5, LaterPlaces DEF IncidentInv
<1>9. MovingInv' /\ CopyInv' /\ QuarantineInv'
  BY <1>1, AtRest
<1>10. \A d \in Kept : disk'[d] = disk[d]
  BY <1>1, <1>5, Places
<1>11. WholeInv'
  <2>1. RestWhole
    BY <1>0, <1>1, WholeAtRest DEF Activating
  <2>2. RestWhole'
    <3> SUFFICES ASSUME ~cut, NEW h \in Db!Generation, committed'[h] # 0
                 PROVE  \E d \in {Db!Active} \cup Kept : WholeIn(d, h)'
      BY <1>1, SamePlaces DEF RestWhole
    <3>1. CASE h = g
      BY <1>0, <1>2, <1>3, <1>4, <1>5, <3>1 DEF WholeIn, Whole, BackupTypes
    <3>2. CASE h # g
      <4>1. committed'[h] = committed[h]
        BY <1>0, <1>2, <1>3, <3>2 DEF BackupTypes
      <4>2. ~WholeIn(Db!Active, h)
        BY <3>2 DEF WholeIn, Whole
      <4> QED BY <1>10, <2>1, <4>1, <4>2 DEF RestWhole, WholeIn, Whole
    <3> QED BY <3>1, <3>2
  <2> QED BY <1>1, <2>2, RestIsWhole DEF Activating
<1>12. KeptInv'
  <2> SUFFICES ASSUME NEW h \in Db!Generation, committed'[h] # 0
               PROVE  \/ disk'[Db!Active]["main"].gen = h
                      \/ \E d \in Kept : disk'[d]["main"].gen = h
    BY SamePlaces, <1>1 DEF KeptInv
  <2>1. h = g \/ committed[h] # 0
    BY <1>0, <1>2, <1>3 DEF BackupTypes
  <2> QED BY <1>0, <1>5, <1>10, <2>1 DEF KeptInv
<1> QED BY <1>6, <1>7, <1>8, <1>9, <1>11, <1>12 DEF BackupInv

LEMMA CloseStoreKeeps ==
  ASSUME BackupInv, Db!CloseStore
  PROVE  BackupInv'
<1> USE DEF Db!Part
<1> DEFINE main == disk[Db!Active]["main"]
           wal == disk[Db!Active]["wal"]
           latest == Db!Latest(Db!Active)
           closed == [main EXCEPT !.upto = latest]
<1>0. BackupTypes /\ OpenInv /\ IncidentInv /\ WholeInv /\ KeptInv
  BY DEF BackupInv
<1>1. /\ store # "closed" /\ store' = "closed" /\ task.at = "idle"
      /\ main # Db!NoFile
      /\ UNCHANGED <<manifest, committed, task, incidents, restarts, cut>>
      /\ incidents \in Nat /\ disk \in [Db!Directory -> Pair]
  BY <1>0, UnderWay DEF Db!CloseStore, OpenInv
<1>2. main \in Db!Content /\ wal \in Copy /\ (wal.gen = main.gen => wal \in Db!Content)
  BY <1>1, Copies, Places DEF Pair, Db!Generation
<1>3. latest = IF wal.gen = main.gen THEN wal.upto ELSE main.upto
  BY DEF Db!Latest
<1>4. latest \in 1 .. MaxCommit + 1
  BY <1>2, <1>3 DEF Db!Content
<1> HIDE DEF latest
<1>5. /\ closed \in Db!Content /\ closed.gen = main.gen /\ closed.upto = latest
      /\ closed.health = main.health
  BY <1>2, <1>4 DEF Db!Content
<1>6. /\ disk' \in [Db!Directory -> Pair]
      /\ disk'[Db!Active]["main"].gen = main.gen
      /\ disk'[Db!Active]["main"].health = main.health
      /\ \/ /\ disk'[Db!Active]["main"].upto = latest
            /\ disk'[Db!Active]["wal"] = Db!NoFile
         \/ disk' = disk
      /\ \A e \in Db!Directory \ {Db!Active} : disk'[e] = disk[e]
  <2>1. CASE store = "open"
    <3> DEFINE pair == [disk[Db!Active] EXCEPT !["main"] = closed, !["wal"] = Db!NoFile]
    <3>1. disk' = [disk EXCEPT ![Db!Active] = pair]
      BY <1>1, <2>1, Places DEF Db!CloseStore, latest, Pair
    <3>2. disk[Db!Active] \in Pair /\ Db!NoFile \in Copy /\ closed \in Copy
      BY <1>1, <1>5, Places, Copies DEF Copy
    <3>3. pair \in Pair /\ pair["main"] = closed /\ pair["wal"] = Db!NoFile
      <4> HIDE DEF closed
      <4> QED BY <3>2 DEF Pair
    <3> HIDE DEF pair, closed
    <3>4. /\ disk' \in [Db!Directory -> Pair] /\ disk'[Db!Active] = pair
          /\ \A e \in Db!Directory \ {Db!Active} : disk'[e] = disk[e]
      BY <1>1, <3>1, <3>3, Places
    <3> QED BY <1>5, <3>3, <3>4
  <2>2. CASE store # "open"
    BY <1>1, <2>2 DEF Db!CloseStore
  <2> QED BY <2>1, <2>2
<1> HIDE DEF closed
<1>7. BackupTypes'
  BY <1>0, <1>1, <1>6 DEF BackupTypes
<1>8. OpenInv'
  BY <1>0, <1>1, <1>2, <1>6, SamePlaces, Copies DEF OpenInv, LogBelongs
<1>9. IncidentInv'
  BY <1>0, <1>1, <1>6, LaterPlaces DEF IncidentInv
<1>10. MovingInv' /\ CopyInv' /\ QuarantineInv'
  BY <1>1, AtRest
<1>11. \A d \in Kept : disk'[d] = disk[d]
  BY <1>1, <1>6, Places
<1>12. WholeInv'
  <2>1. RestWhole
    BY <1>0, <1>1, WholeAtRest DEF Activating
  <2>2. \A g \in Db!Generation : WholeIn(Db!Active, g) => WholeIn(Db!Active, g)'
    BY <1>1, <1>3, <1>6, Copies, SamePlaces DEF WholeIn, Whole, Db!Generation
  <2>3. RestWhole'
    BY <1>1, <1>11, <2>1, <2>2, SamePlaces DEF RestWhole, WholeIn, Whole
  <2> QED BY <1>1, <2>3, RestIsWhole DEF Activating
<1>13. KeptInv'
  BY <1>0, <1>1, <1>6, <1>11, SamePlaces DEF KeptInv
<1> QED BY <1>7, <1>8, <1>9, <1>10, <1>12, <1>13 DEF BackupInv

\* A step of a backup: only the directory it goes to is written.
LEMMA BackupStepKeeps ==
  ASSUME BackupInv,
         task.at \in {"idle", "copying", "inspect"}, store \in {"open", "readonly"},
         UNCHANGED <<store, committed, incidents, restarts, cut>>,
         manifest' \in Copy, disk' \in [Db!Directory -> Pair],
         \A e \in Db!Directory \ {Db!Target} : disk'[e] = disk[e],
         NEW at \in {"idle", "copying", "inspect"},
         task' = [Db!Idle EXCEPT !.at = at]
  PROVE  BackupInv'
<1> USE DEF Db!Part
<1>0. BackupTypes /\ OpenInv /\ IncidentInv /\ WholeInv /\ KeptInv
  BY DEF BackupInv
<1>1. /\ incidents \in Nat /\ disk'[Db!Active] = disk[Db!Active]
      /\ \A d \in Kept : disk'[d] = disk[d]
  BY UnderWay, Places
<1>2. /\ task'.at \in {"idle", "copying", "inspect"}
      /\ task'.before["main"] = Db!NoFile /\ task'.before["wal"] = Db!NoFile
  BY IdleTask
<1>3. BackupTypes'
  BY <1>0, IdleTask DEF BackupTypes
<1>4. OpenInv'
  BY <1>0, <1>1, <1>2, SamePlaces, Copies DEF OpenInv, LogBelongs
<1>5. IncidentInv'
  BY <1>0, <1>1, <1>2, LaterPlaces DEF IncidentInv, Activating, Quarantining
<1>6. MovingInv' /\ CopyInv' /\ QuarantineInv'
  BY <1>2, AtRest
<1>7. RestWhole
  BY <1>0, <1>1, WholeAtRest DEF Activating
<1>8. RestWhole' /\ KeptInv'
  BY <1>0, <1>1, <1>7, SamePlaces DEF RestWhole, WholeIn, Whole, KeptInv
<1>9. WholeInv'
  BY <1>1, <1>2, <1>8, RestIsWhole DEF Activating
<1> QED BY <1>3, <1>4, <1>5, <1>6, <1>8, <1>9 DEF BackupInv

\* What is read of the active database is a content.
LEMMA LatestIsThere ==
  ASSUME BackupInv, disk[Db!Active]["main"] # Db!NoFile,
         NEW health \in {"torn", "whole"}
  PROVE  [gen |-> disk[Db!Active]["main"].gen, upto |-> Db!Latest(Db!Active),
          health |-> health] \in Copy
<1> DEFINE main == disk[Db!Active]["main"]
           wal == disk[Db!Active]["wal"]
<1>1. main \in Db!Content /\ (wal.gen = main.gen => wal \in Db!Content)
  BY UnderWay, Copies, Places DEF Pair, Db!Generation, Db!Part
<1>2. main.gen \in Db!Generation /\ Db!Latest(Db!Active) \in 1 .. MaxCommit + 1
  BY <1>1 DEF Db!Content, Db!Latest
<1> HIDE DEF main
<1> QED BY <1>2 DEF Copy, Db!Content, main

LEMMA BackupKeeps ==
  ASSUME BackupInv,
         Db!BeginBackup \/ (\E ok \in BOOLEAN : Db!EndCopy(ok)) \/ Db!WriteManifest
  PROVE  BackupInv'
<1>0. BackupTypes /\ OpenInv
  BY DEF BackupInv
<1>1. incidents \in Nat /\ disk \in [Db!Directory -> Pair] /\ "main" \in Db!Part
  BY UnderWay DEF Db!Part
<1>2. Db!Target \in Db!Directory /\ Db!NoFile \in Copy
  BY <1>1, Places, Copies
<1>3. CASE Db!BeginBackup
  <2> DEFINE copy == [gen |-> disk[Db!Active]["main"].gen,
                      upto |-> Db!Latest(Db!Active), health |-> "torn"]
  <2>1. /\ store = "open" /\ task.at = "idle"
        /\ UNCHANGED <<manifest, store, committed, incidents, restarts, cut>>
        /\ task' = [Db!Idle EXCEPT !.at = "copying"]
        /\ disk' = Db!Written(Db!Target, "main", copy)
    BY <1>3 DEF Db!BeginBackup
  <2>2. copy \in Copy
    BY <1>0, <2>1, LatestIsThere DEF OpenInv
  <2> HIDE DEF copy
  <2>3. /\ disk' \in [Db!Directory -> Pair]
        /\ \A e \in Db!Directory \ {Db!Target} : disk'[e] = disk[e]
    BY <1>1, <1>2, <2>1, <2>2, Writes
  <2>4. manifest' \in Copy
    BY <1>0, <2>1 DEF BackupTypes
  <2> QED BY <2>1, <2>3, <2>4, BackupStepKeeps
<1>4. ASSUME NEW ok \in BOOLEAN, Db!EndCopy(ok) PROVE BackupInv'
  <2> DEFINE copy == [gen |-> disk[Db!Active]["main"].gen,
                      upto |-> Db!Latest(Db!Active), health |-> "whole"]
  <2>1. /\ store \in {"open", "readonly"} /\ task.at = "copying"
        /\ UNCHANGED <<manifest, store, committed, incidents, restarts, cut>>
        /\ task' = [Db!Idle EXCEPT !.at = "inspect"]
        /\ disk' = IF ok THEN Db!Written(Db!Target, "main", copy) ELSE disk
    BY <1>0, <1>4 DEF Db!EndCopy, OpenInv, BackupTypes
  <2>2. copy \in Copy
    BY <1>0, <2>1, LatestIsThere DEF OpenInv
  <2> HIDE DEF copy
  <2>3. /\ disk' \in [Db!Directory -> Pair]
        /\ \A e \in Db!Directory \ {Db!Target} : disk'[e] = disk[e]
    BY <1>1, <1>2, <2>1, <2>2, Writes
  <2>4. manifest' \in Copy
    BY <1>0, <2>1 DEF BackupTypes
  <2> QED BY <2>1, <2>3, <2>4, BackupStepKeeps
<1>5. CASE Db!WriteManifest
  <2>1. /\ store \in {"open", "readonly"} /\ task.at = "inspect"
        /\ UNCHANGED <<disk, store, committed, incidents, restarts, cut>>
        /\ task' = [Db!Idle EXCEPT !.at = "idle"]
        /\ manifest' \in {disk[Db!Target]["main"], Db!NoFile}
    BY <1>0, <1>5, IdleIsIdle DEF Db!WriteManifest, OpenInv, BackupTypes
  <2>2. manifest' \in Copy
    BY <1>1, <1>2, <2>1 DEF Pair
  <2> QED BY <1>1, <2>1, <2>2, BackupStepKeeps
<1> QED BY <1>3, <1>4, <1>5

LEMMA DamageKeeps ==
  ASSUME BackupInv, NEW d \in {Db!Active, Db!Target},
         NEW health \in {"altered", "broken"}, Db!Damage(d, health)
  PROVE  BackupInv'
<1> USE DEF Db!Part
<1> DEFINE main == disk[d]["main"]
           damaged == [main EXCEPT !.health = health]
<1>0. BackupTypes /\ OpenInv /\ IncidentInv /\ WholeInv /\ KeptInv
  BY DEF BackupInv
<1>1. /\ store = "closed" /\ task.at = "idle" /\ main.health = "whole"
      /\ UNCHANGED <<manifest, store, committed, task, incidents, restarts, cut>>
      /\ incidents \in Nat /\ disk \in [Db!Directory -> Pair]
      /\ d \in Db!Directory
  BY UnderWay, Places DEF Db!Damage
<1>2. main \in Db!Content
  BY <1>1, Copies DEF Pair
<1>3. /\ damaged \in Db!Content /\ damaged.gen = main.gen
      /\ damaged.upto = main.upto /\ damaged.health = health
  BY <1>2 DEF Db!Content
<1>4. disk' = Db!Written(d, "main", damaged)
  BY <1>1 DEF Db!Damage, Db!Written, Pair
<1> HIDE DEF damaged
<1>5. /\ disk' \in [Db!Directory -> Pair]
      /\ disk'[d]["main"] = damaged /\ disk'[d]["wal"] = disk[d]["wal"]
      /\ \A e \in Db!Directory \ {d} : disk'[e] = disk[e]
  BY <1>1, <1>3, <1>4, Writes DEF Copy
<1>6. /\ disk'[Db!Active]["main"].gen = disk[Db!Active]["main"].gen
      /\ disk'[Db!Active]["main"].upto = disk[Db!Active]["main"].upto
      /\ disk'[Db!Active]["wal"] = disk[Db!Active]["wal"]
      /\ disk'[Db!Active]["main"].health # "torn"
      /\ disk'[Db!Active]["main"] # Db!NoFile
           => disk[Db!Active]["main"] # Db!NoFile
      /\ \A e \in Kept : disk'[e] = disk[e]
  <2>1. d = Db!Active \/ disk'[Db!Active] = disk[Db!Active]
    BY <1>1, <1>5, Places
  <2>2. \A e \in Kept : disk'[e] = disk[e]
    BY <1>1, <1>5, Places
  <2> QED BY <1>0, <1>1, <1>2, <1>3, <1>5, <2>1, <2>2, Copies DEF OpenInv
<1>7. BackupTypes'
  BY <1>0, <1>1, <1>5 DEF BackupTypes
<1>8. OpenInv'
  BY <1>0, <1>1, <1>6, SamePlaces DEF OpenInv, LogBelongs
<1>9. IncidentInv'
  BY <1>0, <1>1, <1>5, LaterPlaces DEF IncidentInv
<1>10. MovingInv' /\ CopyInv' /\ QuarantineInv'
  BY <1>1, AtRest
<1>11. RestWhole
  BY <1>0, <1>1, WholeAtRest DEF Activating
<1>12. RestWhole' /\ KeptInv'
  BY <1>0, <1>1, <1>6, <1>11, SamePlaces DEF RestWhole, WholeIn, Whole, KeptInv
<1>13. WholeInv'
  BY <1>1, <1>12, RestIsWhole DEF Activating
<1> QED BY <1>7, <1>8, <1>9, <1>10, <1>12, <1>13 DEF BackupInv

LEMMA CrashKeeps ==
  ASSUME BackupInv, Db!Crash
  PROVE  BackupInv'
<1> USE DEF Db!Part
<1>0. BackupTypes /\ OpenInv /\ IncidentInv /\ MovingInv /\ WholeInv /\ KeptInv
  BY DEF BackupInv
<1>1. /\ store' = "closed" /\ task' = [Db!Idle EXCEPT !.at = "idle"]
      /\ cut' = (cut \/ task.at \notin {"idle", "copying", "inspect", "staging"})
      /\ UNCHANGED <<disk, manifest, committed, incidents>>
      /\ incidents \in Nat /\ disk \in [Db!Directory -> Pair]
  BY UnderWay, IdleIsIdle DEF Db!Crash
<1>2. /\ task'.at = "idle" /\ task'.before["main"] = Db!NoFile
      /\ task'.before["wal"] = Db!NoFile
  BY <1>1, IdleTask
<1>3. BackupTypes'
  BY <1>0, <1>1, IdleTask DEF BackupTypes
<1>4. OpenInv'
  BY <1>0, <1>1, <1>2, SamePlaces, Copies DEF OpenInv, LogBelongs
<1>5. IncidentInv'
  BY <1>0, <1>1, <1>2 DEF IncidentInv, Activating, Quarantining
<1>6. MovingInv' /\ CopyInv' /\ QuarantineInv'
  BY <1>2, AtRest
<1>7. KeptInv'
  BY <1>0, <1>1, SamePlaces DEF KeptInv
<1>8. RestWhole'
  <2> SUFFICES ASSUME ~cut, task.at \in {"idle", "copying", "inspect", "staging"}
               PROVE  RestWhole
    BY <1>1, SamePlaces DEF RestWhole, WholeIn, Whole
  <2>1. CASE task.at # "staging"
    BY <1>0, <1>1, <2>1, WholeAtRest DEF Activating
  <2>2. CASE task.at = "staging"
    <3>1. \A p \in Db!Part : task.before[p] = disk[Db!Active][p]
      BY <1>0, <2>2 DEF MovingInv, InPlace, Unmoved, Moved
    <3> QED BY <1>0, <2>2, <3>1 DEF WholeInv, RestWhole, WholeIn, Activating
  <2> QED BY <2>1, <2>2
<1>9. WholeInv'
  BY <1>1, <1>2, <1>8, RestIsWhole DEF Activating
<1> QED BY <1>3, <1>4, <1>5, <1>6, <1>7, <1>9 DEF BackupInv

LEMMA BeginActivationKeeps ==
  ASSUME BackupInv, Db!BeginActivation
  PROVE  BackupInv'
<1> USE DEF Db!Part
<1> DEFINE now == incidents + 1
           staging == <<"staging", now>>
           rollback == <<"rollback", now>>
           quarantine == <<"quarantine", now>>
           copyOf(g) == [manifest EXCEPT !.gen = g, !.health = "torn"]
<1>0. BackupTypes /\ OpenInv /\ IncidentInv /\ WholeInv /\ KeptInv
  BY DEF BackupInv
<1>1. /\ store = "closed" /\ task.at = "idle" /\ incidents < MaxIncident
      /\ incidents' = now /\ manifest # Db!NoFile
      /\ UNCHANGED <<manifest, store, committed, restarts, cut>>
      /\ incidents \in Nat /\ disk \in [Db!Directory -> Pair]
  BY UnderWay DEF Db!BeginActivation, Db!ValidBackup
<1>2. PICK g \in Db!Generation :
        /\ committed[g] = 0
        /\ disk' = Db!Written(staging, "main", copyOf(g))
        /\ task' = [Db!Idle EXCEPT !.at = "staging", !.copy = g,
                                   !.before = disk[Db!Active]]
  BY DEF Db!BeginActivation, Db!IsNew
<1> DEFINE copy == copyOf(g)
<1>3. copy \in Copy /\ copy.gen = g
  BY <1>0, <1>1, Copies DEF BackupTypes, Db!Content, Copy
<1> HIDE DEF copyOf
<1>4. now \in Db!Incident /\ now > incidents /\ now \in Nat
  BY <1>1, Bounds DEF Db!Incident
<1>5. /\ Db!Staging' = staging /\ Db!Rollback' = rollback
      /\ Db!Quarantine' = quarantine /\ Db!Active' = Db!Active
      /\ staging # rollback /\ staging # quarantine
  BY <1>1 DEF Db!Staging, Db!Rollback, Db!Quarantine, Db!Active
<1>6. /\ staging \in Db!Directory /\ rollback \in Db!Directory
      /\ quarantine \in Db!Directory
      /\ staging # Db!Active /\ staging \notin Kept
      /\ disk[rollback] = Untouched /\ disk[quarantine] = Untouched
  <2>1. staging \notin Kept
    BY DEF Kept
  <2> HIDE DEF now
  <2> QED BY <1>0, <1>1, <1>4, <2>1, LaterPlaces DEF IncidentInv
<1> HIDE DEF staging, rollback, quarantine
<1>7. /\ disk' \in [Db!Directory -> Pair] /\ disk'[staging]["main"] = copy
      /\ \A e \in Db!Directory \ {staging} : disk'[e] = disk[e]
  BY <1>1, <1>2, <1>3, <1>6, Writes
<1>8. /\ disk'[Db!Active] = disk[Db!Active]
      /\ disk'[rollback] = Untouched /\ disk'[quarantine] = Untouched
      /\ \A d \in Kept : disk'[d] = disk[d]
  BY <1>1, <1>5, <1>6, <1>7, Places
<1>9. /\ task' \in Tasks
      /\ task'.at = "staging" /\ task'.copy = g /\ task'.moved = {}
      /\ task'.before = disk[Db!Active]
  <2>1. disk[Db!Active] \in Pair
    BY <1>1, Places
  <2>2. /\ Db!Idle \in Tasks /\ Db!Idle.moved = {}
    BY IdleTask, IdleIsIdle DEF Db!Idle
  <2> QED BY <1>2, <2>1, <2>2 DEF Tasks, Activating
<1>10. BackupTypes'
  BY <1>0, <1>1, <1>4, <1>7, <1>9 DEF BackupTypes, Db!Incident
<1>11. OpenInv'
  BY <1>0, <1>1, <1>5, <1>8, <1>9 DEF OpenInv, LogBelongs
<1>12. IncidentInv'
  <2> SUFFICES ASSUME NEW i \in Db!Incident, i > now,
                      NEW k \in {"staging", "rollback", "quarantine"}
               PROVE  disk'[<<k, i>>] = Untouched
    BY <1>1, <1>4 DEF IncidentInv
  <2>1. i > incidents /\ <<k, i>> # staging
    BY <1>1, <1>4 DEF staging, Db!Incident
  <2> QED BY <1>0, <1>1, <1>7, <2>1, LaterPlaces DEF IncidentInv
<1>13. MovingInv'
  BY <1>5, <1>8, <1>9 DEF MovingInv, InPlace, Unmoved, Moved, Untouched
<1>14. CopyInv'
  BY <1>1, <1>2, <1>3, <1>5, <1>7, <1>9 DEF CopyInv
<1>15. QuarantineInv'
  BY <1>9 DEF QuarantineInv
<1>16. WholeInv'
  <2> SUFFICES ASSUME ~cut, NEW h \in Db!Generation, committed[h] # 0
               PROVE  \/ \E d \in Kept \ {rollback, quarantine} : WholeIn(d, h)'
                      \/ Whole(disk[Db!Active]["main"], disk[Db!Active]["wal"], h)
    BY <1>1, <1>5, <1>9 DEF WholeInv, Activating, Whole
  <2>1. PICK d \in {Db!Active} \cup Kept : WholeIn(d, h)
    BY <1>0, <1>1, WholeAtRest DEF RestWhole, Activating
  <2>2. CASE d = Db!Active
    BY <2>1, <2>2 DEF WholeIn
  <2>3. CASE d \in Kept
    <3>1. d # rollback /\ d # quarantine
      BY <1>6, <2>1, Copies DEF WholeIn, Whole, Untouched, Db!Generation
    <3> QED BY <1>1, <1>8, <2>1, <2>3, <3>1 DEF WholeIn, Whole
  <2> QED BY <2>2, <2>3
<1>17. KeptInv'
  BY <1>0, <1>1, <1>5, <1>8 DEF KeptInv
<1> QED BY <1>10, <1>11, <1>12, <1>13, <1>14, <1>15, <1>16, <1>17 DEF BackupInv

LEMMA StageKeeps ==
  ASSUME BackupInv, NEW ok \in BOOLEAN, Db!Stage(ok)
  PROVE  BackupInv'
<1> USE DEF Db!Part
<1>0. /\ BackupTypes /\ OpenInv /\ IncidentInv /\ MovingInv /\ CopyInv /\ WholeInv
      /\ KeptInv
  BY DEF BackupInv
<1>1. /\ task.at = "staging"
      /\ UNCHANGED <<manifest, store, committed, incidents, restarts, cut>>
  BY DEF Db!Stage
<1>2. /\ incidents \in Nat /\ incidents \in Db!Incident /\ store = "closed"
      /\ Db!Rollback \in Kept /\ Db!Rollback \in Db!Directory
      /\ Db!Staging \in Db!Directory /\ disk \in [Db!Directory -> Pair]
  BY <1>1, UnderWay DEF Activating
<1> DEFINE staged == disk[Db!Staging]["main"]
           sound == [staged EXCEPT !.health = "whole"]
<1>3. /\ staged \in Db!Content /\ staged.gen = task.copy
      /\ committed[task.copy] = 0
  BY <1>0, <1>1, <1>2, Copies
  DEF CopyInv, BackupTypes, Tasks, Pair, Db!Generation
<1>4. sound \in Copy /\ sound.gen = task.copy /\ sound.health = "whole"
  BY <1>3 DEF Db!Content, Copy
<1>5. disk' = Db!Written(Db!Staging, "main", IF ok THEN sound ELSE Db!NoFile)
  BY <1>2 DEF Db!Stage, Db!Written, Pair
<1> HIDE DEF sound
<1>6. /\ disk' \in [Db!Directory -> Pair]
      /\ disk'[Db!Staging]["main"] = IF ok THEN sound ELSE Db!NoFile
      /\ \A e \in Db!Directory \ {Db!Staging} : disk'[e] = disk[e]
  BY <1>2, <1>4, <1>5, Writes, Copies
<1>7. /\ disk'[Db!Active] = disk[Db!Active] /\ disk'[Db!Rollback] = disk[Db!Rollback]
      /\ \A d \in Kept : disk'[d] = disk[d]
  BY <1>2, <1>6, Places
<1>8. /\ task' \in Tasks
      /\ task'.at = IF ok THEN "move main" ELSE "idle"
      /\ task'.moved = task.moved /\ task'.copy = task.copy
      /\ task'.before = task.before
  <2>1. task \in Tasks
    BY <1>0 DEF BackupTypes
  <2> QED BY <2>1 DEF Db!Stage, Tasks, Activating
<1>9. BackupTypes'
  BY <1>0, <1>1, <1>6, <1>8 DEF BackupTypes
<1>10. OpenInv'
  BY <1>0, <1>1, <1>2, <1>7, <1>8, SamePlaces DEF OpenInv, LogBelongs
<1>11. IncidentInv'
  BY <1>0, <1>1, <1>2, <1>6, LaterPlaces DEF IncidentInv
<1>12. \A p \in Db!Part : /\ disk[Db!Active][p] = task.before[p]
                          /\ disk[Db!Rollback][p] = Db!NoFile
                          /\ p \notin task.moved
  BY <1>0, <1>1 DEF MovingInv, InPlace, Unmoved, Moved
<1>13. MovingInv'
  BY <1>1, <1>7, <1>8, <1>12, SamePlaces DEF MovingInv, InPlace, Unmoved, Moved
<1>14. CopyInv'
  BY <1>1, <1>3, <1>4, <1>6, <1>8, SamePlaces DEF CopyInv
<1>15. QuarantineInv'
  BY <1>8 DEF QuarantineInv
<1>16. WholeInv'
  <2>1. ~cut => \A g \in Db!Generation : committed[g] # 0 =>
          \/ \E d \in Kept \ {Db!Rollback, Db!Quarantine} : WholeIn(d, g)
          \/ Whole(task.before["main"], task.before["wal"], g)
    BY <1>0, <1>1 DEF WholeInv, Activating
  <2>2. CASE ok
    <3> SUFFICES ASSUME ~cut, NEW g \in Db!Generation, committed[g] # 0
                 PROVE  \/ \E d \in Kept \ {Db!Rollback, Db!Quarantine} : WholeIn(d, g)'
                        \/ Whole(task.before["main"], task.before["wal"], g)
      BY <1>1, <1>8, <2>2, SamePlaces DEF WholeInv, Activating, Whole
    <3> QED BY <1>1, <1>7, <2>1 DEF WholeIn, Whole
  <2>3. CASE ~ok
    <3>1. RestWhole'
      BY <1>1, <1>7, <1>12, <2>1, SamePlaces DEF RestWhole, WholeIn, Whole
    <3> QED BY <1>1, <1>2, <1>8, <2>3, <3>1, RestIsWhole DEF Activating
  <2> QED BY <2>2, <2>3
<1>17. KeptInv'
  BY <1>0, <1>1, <1>7, SamePlaces DEF KeptInv
<1> QED BY <1>9, <1>10, <1>11, <1>13, <1>14, <1>15, <1>16, <1>17 DEF BackupInv

LEMMA PlaceKeeps ==
  ASSUME BackupInv, Db!Place
  PROVE  BackupInv'
<1> USE DEF Db!Part
<1>0. /\ BackupTypes /\ OpenInv /\ IncidentInv /\ MovingInv /\ CopyInv /\ WholeInv
      /\ KeptInv
  BY DEF BackupInv
<1> DEFINE staged == disk[Db!Staging]["main"]
           copy == task.copy
<1>1. /\ task.at = "place"
      /\ disk' = Db!Renamed(Db!Staging, Db!Active, "main")
      /\ committed' = [committed EXCEPT ![copy] = staged.upto]
      /\ task' = [task EXCEPT !.at = "verify"]
      /\ UNCHANGED <<manifest, store, incidents, restarts, cut>>
  BY DEF Db!Place
<1>2. /\ incidents \in Nat /\ incidents \in Db!Incident /\ store = "closed"
      /\ Db!Rollback \in Kept /\ Db!Rollback \in Db!Directory
      /\ Db!Staging \in Db!Directory /\ disk \in [Db!Directory -> Pair]
  BY <1>1, UnderWay DEF Activating
<1>3. /\ copy \in Db!Generation /\ staged \in Db!Content /\ staged.gen = copy
      /\ staged.health = "whole" /\ committed[copy] = 0
  BY <1>0, <1>1, <1>2, Copies
  DEF CopyInv, BackupTypes, Tasks, Pair, Db!Generation
<1>4. staged.upto \in 1 .. MaxCommit + 1
  BY <1>3 DEF Db!Content
<1>5. /\ disk' \in [Db!Directory -> Pair]
      /\ disk'[Db!Active]["main"] = staged
      /\ disk'[Db!Active]["wal"] = disk[Db!Active]["wal"]
      /\ \A e \in Db!Directory \ {Db!Active, Db!Staging} : disk'[e] = disk[e]
  BY <1>1, <1>2, Places, Renames
<1>6. /\ disk'[Db!Rollback] = disk[Db!Rollback]
      /\ \A d \in Kept : disk'[d] = disk[d]
  BY <1>2, <1>5, Places
<1>7. /\ task' \in Tasks /\ task'.at = "verify"
      /\ task'.moved = task.moved /\ task'.copy = copy
      /\ task'.before = task.before
  <2>1. task \in Tasks
    BY <1>0 DEF BackupTypes
  <2> QED BY <1>1, <2>1 DEF Tasks, Activating
<1>8. /\ \A p \in Db!Part : /\ disk[Db!Rollback][p] = task.before[p]
                            /\ p \in task.moved <=> task.before[p] # Db!NoFile
      /\ disk[Db!Active]["wal"] = Db!NoFile
      /\ disk[Db!Active]["main"] = Db!NoFile
  <2>1. Moved /\ disk[Db!Active]["main"] = Db!NoFile
    BY <1>0, <1>1 DEF MovingInv
  <2> QED BY <2>1 DEF Moved
<1>9. BackupTypes'
  <2>1. committed' \in [Db!Generation -> 0 .. MaxCommit + 1]
    BY <1>0, <1>1, <1>3, <1>4, Bounds DEF BackupTypes
  <2> QED BY <1>0, <1>1, <1>5, <1>7, <2>1 DEF BackupTypes
<1>10. OpenInv'
  BY <1>0, <1>1, <1>2, <1>3, <1>5, <1>7, <1>8, SamePlaces, Copies
  DEF OpenInv, LogBelongs
<1>11. IncidentInv'
  BY <1>0, <1>1, <1>2, <1>5, LaterPlaces DEF IncidentInv
<1>12. MovingInv'
  BY <1>1, <1>5, <1>6, <1>7, <1>8, SamePlaces
  DEF MovingInv, InPlace, Unmoved, Moved
<1>13. committed'[copy] = staged.upto
       /\ \A g \in Db!Generation \ {copy} : committed'[g] = committed[g]
  BY <1>0, <1>1, <1>3 DEF BackupTypes
<1>14. CopyInv'
  BY <1>1, <1>3, <1>5, <1>7, <1>13, SamePlaces DEF CopyInv
<1>15. QuarantineInv'
  BY <1>7 DEF QuarantineInv
<1>16. WholeInv'
  <2>1. ~cut => \A g \in Db!Generation : committed[g] # 0 =>
          \/ \E d \in Kept \ {Db!Rollback, Db!Quarantine} : WholeIn(d, g)
          \/ Whole(task.before["main"], task.before["wal"], g)
    BY <1>0, <1>1 DEF WholeInv, Activating
  <2> SUFFICES ASSUME ~cut, NEW g \in Db!Generation \ {copy}, committed'[g] # 0
               PROVE  \/ \E d \in Kept \ {Db!Rollback, Db!Quarantine} : WholeIn(d, g)'
                      \/ Whole(task.before["main"], task.before["wal"], g)'
    BY <1>1, <1>7, SamePlaces DEF WholeInv, Activating, Whole
  <2> QED BY <1>1, <1>6, <1>7, <1>13, <2>1 DEF WholeIn, Whole
<1>17. KeptInv'
  <2> SUFFICES ASSUME NEW g \in Db!Generation \ {copy}, committed'[g] # 0
               PROVE  \E d \in Kept : disk'[d]["main"].gen = g
    BY <1>1, <1>3, <1>5, SamePlaces DEF KeptInv
  <2> QED BY <1>0, <1>6, <1>8, <1>13, Copies DEF KeptInv, Db!Generation
<1> QED BY <1>9, <1>10, <1>11, <1>12, <1>14, <1>15, <1>16, <1>17 DEF BackupInv

\* A step of an activation that touches no file.
LEMMA RenameRefusedKeeps ==
  ASSUME BackupInv, "move main" \notin Refusable, Db!RenameRefused
  PROVE  BackupInv'
<1> USE DEF Db!Part
<1>0. /\ BackupTypes /\ OpenInv /\ IncidentInv /\ MovingInv /\ WholeInv /\ KeptInv
  BY DEF BackupInv
<1>1. /\ task.at \in {"move wal", "place"}
      /\ task' = [task EXCEPT !.at = "remove"]
      /\ UNCHANGED <<disk, manifest, store, committed, incidents, restarts, cut>>
  BY DiskAssumption DEF Db!RenameRefused, Db!BackupParameters
<1>2. incidents \in Nat /\ incidents \in Db!Incident /\ store = "closed"
  BY <1>1, UnderWay DEF Activating
<1>3. /\ task' \in Tasks /\ task'.at = "remove"
      /\ task'.moved = task.moved /\ task'.copy = task.copy
      /\ task'.before = task.before
  <2>1. task \in Tasks
    BY <1>0 DEF BackupTypes
  <2> QED BY <1>1, <2>1 DEF Tasks, Activating
<1>4. HalfMoved \/ Moved
  BY <1>0, <1>1 DEF MovingInv
<1>5. MovedOrInPlace /\ disk[Db!Active]["main"] = Db!NoFile
  <2>1. disk[Db!Active]["main"] = Db!NoFile
    BY <1>0, <1>1 DEF MovingInv, HalfMoved
  <2> QED BY <1>4, <2>1 DEF HalfMoved, Moved, MovedOrInPlace
<1>6. BackupTypes'
  BY <1>0, <1>1, <1>3 DEF BackupTypes
<1>7. OpenInv'
  BY <1>0, <1>1, <1>2, <1>3, SamePlaces DEF OpenInv, LogBelongs
<1>8. IncidentInv'
  BY <1>0, <1>1, <1>2 DEF IncidentInv
<1>9. MovingInv'
  <2>1. MovedOrInPlace'
    BY <1>1, <1>3, <1>5, SamePlaces DEF MovedOrInPlace
  <2> QED BY <1>3, <2>1 DEF MovingInv
<1>10. CopyInv'
  BY <1>1, <1>3, <1>5, SamePlaces, Copies DEF CopyInv
<1>11. QuarantineInv'
  BY <1>3 DEF QuarantineInv
<1>12. WholeInv'
  <2>1. ~cut => \A g \in Db!Generation : committed[g] # 0 =>
          \/ \E d \in Kept \ {Db!Rollback, Db!Quarantine} : WholeIn(d, g)
          \/ Whole(task.before["main"], task.before["wal"], g)
    BY <1>0, <1>1 DEF WholeInv, Activating
  <2> SUFFICES ASSUME ~cut, NEW g \in Db!Generation, committed[g] # 0
               PROVE  \/ \E d \in Kept \ {Db!Rollback, Db!Quarantine} : WholeIn(d, g)'
                      \/ Whole(task.before["main"], task.before["wal"], g)
    BY <1>1, <1>3, SamePlaces DEF WholeInv, Activating, Whole
  <2> QED BY <1>1, <2>1 DEF WholeIn, Whole
<1>13. KeptInv'
  BY <1>0, <1>1, SamePlaces DEF KeptInv
<1> QED BY <1>6, <1>7, <1>8, <1>9, <1>10, <1>11, <1>12, <1>13 DEF BackupInv

LEMMA VerifyKeeps ==
  ASSUME BackupInv, NEW ok \in BOOLEAN, Db!Verify(ok)
  PROVE  BackupInv'
<1> USE DEF Db!Part
<1>0. /\ BackupTypes /\ OpenInv /\ IncidentInv /\ MovingInv /\ CopyInv /\ WholeInv
      /\ KeptInv
  BY DEF BackupInv
<1>1. /\ task.at = "verify"
      /\ UNCHANGED <<disk, manifest, store, committed, incidents, restarts, cut>>
  BY DEF Db!Verify
<1>2. /\ incidents \in Nat /\ incidents \in Db!Incident /\ store = "closed"
      /\ Db!Rollback \in Kept
  BY <1>1, UnderWay DEF Activating
<1>3. /\ task' \in Tasks /\ task'.at = IF ok THEN "idle" ELSE "remove"
      /\ task'.moved = task.moved /\ task'.copy = task.copy
      /\ task'.before = task.before
  <2>1. task \in Tasks
    BY <1>0 DEF BackupTypes
  <2> QED BY <2>1 DEF Db!Verify, Tasks, Activating
<1>4. Moved
  BY <1>0, <1>1 DEF MovingInv
<1>5. /\ disk[Db!Active]["main"].gen = task.copy
      /\ disk[Db!Active]["main"].upto = committed[task.copy]
  BY <1>0, <1>1 DEF CopyInv
<1>6. BackupTypes'
  BY <1>0, <1>1, <1>3 DEF BackupTypes
<1>7. OpenInv'
  BY <1>0, <1>1, <1>2, <1>3, SamePlaces DEF OpenInv, LogBelongs
<1>8. IncidentInv'
  BY <1>0, <1>1, <1>2 DEF IncidentInv
<1>9. MovingInv'
  <2>1. MovedOrInPlace
    BY <1>4 DEF Moved, MovedOrInPlace
  <2>2. MovedOrInPlace'
    BY <1>1, <1>3, <2>1, SamePlaces DEF MovedOrInPlace
  <2> QED BY <1>3, <2>2 DEF MovingInv
<1>10. CopyInv'
  BY <1>1, <1>3, <1>5, SamePlaces DEF CopyInv
<1>11. QuarantineInv'
  BY <1>3 DEF QuarantineInv
<1>12. WholeInv'
  <2>1. ~cut => \A g \in Db!Generation : committed[g] # 0 =>
          \/ \E d \in Kept \ {Db!Rollback, Db!Quarantine} : WholeIn(d, g)
          \/ Whole(task.before["main"], task.before["wal"], g)
          \/ g = task.copy
    BY <1>0, <1>1 DEF WholeInv, Activating
  <2>2. CASE ok
    <3>1. \A g \in Db!Generation :
            Whole(task.before["main"], task.before["wal"], g) => WholeIn(Db!Rollback, g)
      BY <1>4 DEF Moved, WholeIn
    <3>2. task.copy \in Db!Generation => WholeIn(Db!Active, task.copy)
      BY <1>4, <1>5, Copies DEF Moved, WholeIn, Whole, Db!Generation
    <3>3. RestWhole
      BY <1>2, <2>1, <3>1, <3>2 DEF RestWhole
    <3>4. RestWhole'
      BY <1>1, <3>3, SamePlaces DEF RestWhole, WholeIn, Whole
    <3> QED BY <1>1, <1>2, <1>3, <2>2, <3>4, RestIsWhole DEF Activating
  <2>3. CASE ~ok
    <3> SUFFICES ASSUME ~cut, NEW g \in Db!Generation, committed[g] # 0
                 PROVE  \/ \E d \in Kept \ {Db!Rollback, Db!Quarantine} : WholeIn(d, g)'
                        \/ Whole(task.before["main"], task.before["wal"], g)
                        \/ g = task.copy
      BY <1>1, <1>3, <2>3, SamePlaces DEF WholeInv, Activating, Whole
    <3> QED BY <1>1, <2>1 DEF WholeIn, Whole
  <2> QED BY <2>2, <2>3
<1>13. KeptInv'
  BY <1>0, <1>1, SamePlaces DEF KeptInv
<1> QED BY <1>6, <1>7, <1>8, <1>9, <1>10, <1>11, <1>12, <1>13 DEF BackupInv

LEMMA RemoveActiveKeeps ==
  ASSUME BackupInv, Db!RemoveActive
  PROVE  BackupInv'
<1> USE DEF Db!Part
<1>0. /\ BackupTypes /\ OpenInv /\ IncidentInv /\ MovingInv /\ CopyInv /\ WholeInv
      /\ KeptInv
  BY DEF BackupInv
<1>1. /\ task.at = "remove"
      /\ disk' = Db!Written(Db!Active, "main", Db!NoFile)
      /\ committed' = [committed EXCEPT ![task.copy] = 0]
      /\ task' = [task EXCEPT !.at = "put wal back"]
      /\ UNCHANGED <<manifest, store, incidents, restarts, cut>>
  BY DEF Db!RemoveActive
<1>2. /\ incidents \in Nat /\ incidents \in Db!Incident /\ store = "closed"
      /\ Db!Rollback \in Kept /\ Db!Rollback \in Db!Directory
      /\ disk \in [Db!Directory -> Pair]
  BY <1>1, UnderWay DEF Activating
<1>3. /\ task' \in Tasks /\ task'.at = "put wal back"
      /\ task'.moved = task.moved /\ task'.copy = task.copy
      /\ task'.before = task.before /\ task.copy \in Db!Generation
  <2>1. task \in Tasks
    BY <1>0 DEF BackupTypes
  <2> QED BY <1>1, <2>1 DEF Tasks, Activating
<1>4. /\ disk' \in [Db!Directory -> Pair]
      /\ disk'[Db!Active]["main"] = Db!NoFile
      /\ disk'[Db!Active]["wal"] = disk[Db!Active]["wal"]
      /\ \A e \in Db!Directory \ {Db!Active} : disk'[e] = disk[e]
  <2>1. Db!Active \in Db!Directory /\ Db!NoFile \in Copy
    BY <1>2, Places, Copies
  <2> DEFINE after == Db!Written(Db!Active, "main", Db!NoFile)
  <2>2. /\ after \in [Db!Directory -> Pair] /\ after[Db!Active]["main"] = Db!NoFile
        /\ after[Db!Active]["wal"] = disk[Db!Active]["wal"]
        /\ \A e \in Db!Directory \ {Db!Active} : after[e] = disk[e]
    BY <1>2, <2>1, Writes
  <2> HIDE DEF after
  <2>3. disk' = after
    BY <1>1 DEF after
  <2> QED BY <2>2, <2>3
<1>5. /\ disk'[Db!Rollback] = disk[Db!Rollback]
      /\ \A d \in Kept : disk'[d] = disk[d]
  BY <1>2, <1>4, Places
<1>6. /\ committed' \in [Db!Generation -> 0 .. MaxCommit + 1]
      /\ committed'[task.copy] = 0
      /\ \A g \in Db!Generation \ {task.copy} : committed'[g] = committed[g]
  <2>1. committed \in [Db!Generation -> 0 .. MaxCommit + 1]
    BY <1>0 DEF BackupTypes
  <2>2. 0 \in 0 .. MaxCommit + 1
    BY Bounds
  <2> QED BY <1>1, <1>3, <2>1, <2>2
<1>7. BackupTypes'
  BY <1>0, <1>1, <1>3, <1>4, <1>6 DEF BackupTypes
<1>8. OpenInv'
  BY <1>0, <1>1, <1>2, <1>3, <1>4, SamePlaces, Copies DEF OpenInv, LogBelongs
<1>9. IncidentInv'
  BY <1>0, <1>1, <1>2, <1>4, LaterPlaces DEF IncidentInv
<1>10. MovingInv'
  <2>1. MovedOrInPlace
    BY <1>0, <1>1 DEF MovingInv
  <2>2. MovedOrInPlace'
    BY <1>1, <1>3, <1>4, <1>5, <2>1, SamePlaces DEF MovedOrInPlace
  <2> QED BY <1>1, <1>3, <1>4, <2>2, SamePlaces DEF MovingInv
<1>11. CopyInv'
  BY <1>3 DEF CopyInv
<1>12. QuarantineInv'
  BY <1>3 DEF QuarantineInv
<1>13. WholeInv'
  <2>1. ~cut => \A g \in Db!Generation : committed[g] # 0 =>
          \/ \E d \in Kept \ {Db!Rollback, Db!Quarantine} : WholeIn(d, g)
          \/ Whole(task.before["main"], task.before["wal"], g)
          \/ g = task.copy
    BY <1>0, <1>1 DEF WholeInv, Activating
  <2> SUFFICES ASSUME ~cut, NEW g \in Db!Generation \ {task.copy}, committed'[g] # 0
               PROVE  \/ \E d \in Kept \ {Db!Rollback, Db!Quarantine} : WholeIn(d, g)'
                      \/ Whole(task.before["main"], task.before["wal"], g)'
    BY <1>1, <1>3, <1>6, SamePlaces DEF WholeInv, Activating, Whole
  <2>2. committed'[g] = committed[g] /\ g # task.copy
    BY <1>6
  <2>3. \/ \E d \in Kept \ {Db!Rollback, Db!Quarantine} : WholeIn(d, g)
        \/ Whole(task.before["main"], task.before["wal"], g)
    BY <2>1, <2>2
  <2> QED BY <1>3, <1>5, <2>2, <2>3 DEF WholeIn, Whole
<1>14. KeptInv'
  <2> SUFFICES ASSUME NEW g \in Db!Generation \ {task.copy}, committed'[g] # 0
               PROVE  \E d \in Kept : disk'[d]["main"].gen = g
    BY <1>1, <1>6, SamePlaces DEF KeptInv
  <2>1. disk[Db!Active]["main"].gen \in {0, task.copy}
    BY <1>0, <1>1 DEF CopyInv
  <2>2. g # 0 /\ g # task.copy
    BY DEF Db!Generation
  <2> QED BY <1>0, <1>5, <1>6, <2>1, <2>2 DEF KeptInv
<1> QED BY <1>7, <1>8, <1>9, <1>10, <1>11, <1>12, <1>13, <1>14 DEF BackupInv

\* One turn of the loop that puts back what was moved; what was not moved is
\* where it belongs.
LEMMA PutBackKeeps ==
  ASSUME BackupInv, NEW p \in Db!Part, Db!PutBack(p)
  PROVE  BackupInv'
<1> USE DEF Db!Part
<1>0. /\ BackupTypes /\ OpenInv /\ IncidentInv /\ MovingInv /\ WholeInv /\ KeptInv
  BY DEF BackupInv
<1>1. /\ task.at = IF p = "wal" THEN "put wal back" ELSE "put main back"
      /\ disk' = IF p \in task.moved THEN Db!Renamed(Db!Rollback, Db!Active, p)
                 ELSE disk
      /\ UNCHANGED <<manifest, store, committed, incidents, restarts, cut>>
  BY DEF Db!PutBack
<1>2. /\ incidents \in Nat /\ incidents \in Db!Incident /\ store = "closed"
      /\ Db!Rollback \in Kept /\ Db!Rollback \in Db!Directory
      /\ disk \in [Db!Directory -> Pair]
  BY <1>1, UnderWay DEF Activating
<1>3. /\ task' \in Tasks
      /\ task'.at = IF p = "wal" THEN "put main back" ELSE "clean"
      /\ task'.moved = task.moved /\ task'.before = task.before
  <2>1. task \in Tasks
    BY <1>0 DEF BackupTypes
  <2> QED BY <2>1 DEF Db!PutBack, Tasks, Activating
<1>4. disk[Db!Active]["main"] = Db!NoFile
  BY <1>0, <1>1 DEF MovingInv
<1>5. /\ p \in task.moved => disk[Db!Rollback][p] = task.before[p]
      /\ p \notin task.moved => disk[Db!Active][p] = task.before[p]
  <2>1. CASE p = "wal"
    <3>1. MovedOrInPlace
      BY <1>0, <1>1, <2>1 DEF MovingInv
    <3> QED BY <2>1, <3>1 DEF MovedOrInPlace
  <2>2. CASE p = "main"
    <3>1. LogBack
      BY <1>0, <1>1, <2>2 DEF MovingInv
    <3> QED BY <1>4, <2>2, <3>1 DEF LogBack
  <2> QED BY <2>1, <2>2
<1>6. /\ disk' \in [Db!Directory -> Pair]
      /\ disk'[Db!Active][p] = task.before[p]
      /\ \A q \in Db!Part \ {p} : /\ disk'[Db!Active][q] = disk[Db!Active][q]
                                  /\ disk'[Db!Rollback][q] = disk[Db!Rollback][q]
      /\ \A e \in Db!Directory \ {Db!Active, Db!Rollback} : disk'[e] = disk[e]
  <2>1. CASE p \in task.moved
    <3>1. disk' = Db!Renamed(Db!Rollback, Db!Active, p)
      BY <1>1, <2>1
    <3> QED BY <1>2, <1>5, <2>1, <3>1, Places, Renames
  <2>2. CASE p \notin task.moved
    BY <1>1, <1>2, <1>5, <2>2
  <2> QED BY <2>1, <2>2
<1>7. \A d \in Kept \ {Db!Rollback} : disk'[d] = disk[d]
  BY <1>2, <1>6, Places
<1>8. BackupTypes'
  BY <1>0, <1>1, <1>3, <1>6 DEF BackupTypes
<1>9. p = "main" => InPlace'
  <2> SUFFICES ASSUME p = "main" PROVE InPlace'
    OBVIOUS
  <2>1. LogBack
    BY <1>0, <1>1 DEF MovingInv
  <2> QED BY <1>3, <1>6, <2>1, SamePlaces, <1>1 DEF InPlace, LogBack
<1>10. OpenInv'
  <2>1. task'.before["main"].health # "torn" /\ LogBelongs(task'.before)
    BY <1>0, <1>3 DEF OpenInv
  <2>2. disk'[Db!Active]["main"].health # "torn" /\ LogBelongs(disk'[Db!Active])
    <3>1. CASE p = "wal"
      BY <1>4, <1>6, <3>1, Copies DEF LogBelongs
    <3>2. CASE p = "main"
      BY <1>1, <1>3, <1>9, <2>1, <3>2, SamePlaces DEF InPlace, LogBelongs
    <3> QED BY <3>1, <3>2
  <2> QED BY <1>1, <1>2, <1>3, <2>1, <2>2, SamePlaces DEF OpenInv, LogBelongs
<1>11. IncidentInv'
  BY <1>0, <1>1, <1>2, <1>6, LaterPlaces DEF IncidentInv
<1>12. MovingInv'
  <2>1. CASE p = "wal"
    <3>1. MovedOrInPlace
      BY <1>0, <1>1, <2>1 DEF MovingInv
    <3>2. LogBack'
      BY <1>1, <1>3, <1>6, <2>1, <3>1, SamePlaces DEF MovedOrInPlace, LogBack
    <3>3. disk'[Db!Active']["main"] = Db!NoFile
      BY <1>1, <1>4, <1>6, <2>1, SamePlaces
    <3> QED BY <1>3, <2>1, <3>2, <3>3 DEF MovingInv
  <2>2. CASE p = "main"
    BY <1>3, <1>9, <2>2 DEF MovingInv
  <2> QED BY <2>1, <2>2
<1>13. CopyInv' /\ QuarantineInv'
  BY <1>3 DEF CopyInv, QuarantineInv
<1>14. WholeInv'
  <2>1. ~cut => \A g \in Db!Generation : committed[g] # 0 =>
          \/ \E d \in Kept \ {Db!Rollback, Db!Quarantine} : WholeIn(d, g)
          \/ Whole(task.before["main"], task.before["wal"], g)
    BY <1>0, <1>1 DEF WholeInv, Activating
  <2> SUFFICES ASSUME ~cut, NEW g \in Db!Generation, committed[g] # 0
               PROVE  \/ \E d \in Kept \ {Db!Rollback, Db!Quarantine} : WholeIn(d, g)'
                      \/ Whole(task.before["main"], task.before["wal"], g)
    BY <1>1, <1>3, SamePlaces DEF WholeInv, Activating, Whole
  <2>2. committed' = committed
    BY <1>1
  <2> QED BY <1>7, <2>1, <2>2 DEF WholeIn, Whole
<1>15. KeptInv'
  <2> SUFFICES ASSUME NEW g \in Db!Generation, committed[g] # 0
               PROVE  \/ disk'[Db!Active]["main"].gen = g
                      \/ \E d \in Kept : disk'[d]["main"].gen = g
    BY <1>1, SamePlaces DEF KeptInv
  <2>1. g # 0
    BY DEF Db!Generation
  <2>2. PICK d \in Kept : disk[d]["main"].gen = g
    BY <1>0, <1>4, <2>1, Copies DEF KeptInv
  <2>3. CASE d # Db!Rollback
    BY <1>7, <2>2, <2>3
  <2>4. CASE d = Db!Rollback
    <3>1. CASE p = "wal"
      BY <1>6, <2>2, <2>4, <3>1
    <3>2. CASE p = "main"
      <4>1. LogBack
        BY <1>0, <1>1, <3>2 DEF MovingInv
      <4>2. task.before["main"].gen = g
        BY <2>1, <2>2, <2>4, <4>1, Copies DEF LogBack
      <4> QED BY <1>6, <3>2, <4>2
    <3> QED BY <3>1, <3>2
  <2> QED BY <2>3, <2>4
<1> QED BY <1>8, <1>10, <1>11, <1>12, <1>13, <1>14, <1>15 DEF BackupInv

LEMMA RemoveStagingKeeps ==
  ASSUME BackupInv, Db!RemoveStaging
  PROVE  BackupInv'
<1> USE DEF Db!Part
<1>0. /\ BackupTypes /\ OpenInv /\ IncidentInv /\ MovingInv /\ WholeInv /\ KeptInv
  BY DEF BackupInv
<1>1. /\ task.at = "clean"
      /\ disk' = Db!Written(Db!Staging, "main", Db!NoFile)
      /\ UNCHANGED <<manifest, store, committed, incidents, restarts, cut>>
  BY DEF Db!RemoveStaging
<1>2. /\ incidents \in Nat /\ incidents \in Db!Incident /\ store = "closed"
      /\ Db!Staging \in Db!Directory /\ disk \in [Db!Directory -> Pair]
  BY <1>1, UnderWay DEF Activating
<1>3. /\ task' \in Tasks /\ task'.at = "idle" /\ task'.before = task.before
  <2>1. task \in Tasks
    BY <1>0 DEF BackupTypes
  <2> QED BY <2>1 DEF Db!RemoveStaging, Tasks
<1>4. /\ disk' \in [Db!Directory -> Pair]
      /\ \A e \in Db!Directory \ {Db!Staging} : disk'[e] = disk[e]
  BY <1>1, <1>2, Writes, Copies
<1>5. /\ disk'[Db!Active] = disk[Db!Active]
      /\ \A d \in Kept : disk'[d] = disk[d]
  BY <1>2, <1>4, Places
<1>6. InPlace
  BY <1>0, <1>1 DEF MovingInv
<1>7. BackupTypes'
  BY <1>0, <1>1, <1>3, <1>4 DEF BackupTypes
<1>8. OpenInv'
  BY <1>0, <1>1, <1>2, <1>3, <1>5, SamePlaces DEF OpenInv, LogBelongs
<1>9. IncidentInv'
  BY <1>0, <1>1, <1>2, <1>4, LaterPlaces DEF IncidentInv
<1>10. MovingInv' /\ CopyInv' /\ QuarantineInv'
  BY <1>3, AtRest
<1>11. WholeInv'
  <2>1. ~cut => \A g \in Db!Generation : committed[g] # 0 =>
          \/ \E d \in Kept \ {Db!Rollback, Db!Quarantine} : WholeIn(d, g)
          \/ Whole(task.before["main"], task.before["wal"], g)
    BY <1>0, <1>1 DEF WholeInv, Activating
  <2>2. RestWhole
    BY <1>6, <2>1 DEF RestWhole, WholeIn, InPlace
  <2>3. RestWhole'
    BY <1>1, <1>5, <2>2, SamePlaces DEF RestWhole, WholeIn, Whole
  <2> QED BY <1>1, <1>2, <1>3, <2>3, RestIsWhole DEF Activating
<1>12. KeptInv'
  BY <1>0, <1>1, <1>5, SamePlaces DEF KeptInv
<1> QED BY <1>7, <1>8, <1>9, <1>10, <1>11, <1>12 DEF BackupInv

LEMMA BeginQuarantineKeeps ==
  ASSUME BackupInv, Db!BeginQuarantine
  PROVE  BackupInv'
<1> USE DEF Db!Part
<1> DEFINE now == incidents + 1
           rollback == <<"rollback", now>>
           quarantine == <<"quarantine", now>>
<1>0. BackupTypes /\ OpenInv /\ IncidentInv /\ WholeInv /\ KeptInv
  BY DEF BackupInv
<1>1. /\ store = "closed" /\ task.at = "idle" /\ incidents < MaxIncident
      /\ incidents' = now
      /\ task' = [Db!Idle EXCEPT !.at = "quarantine main"]
      /\ UNCHANGED <<disk, manifest, store, committed, restarts, cut>>
      /\ incidents \in Nat /\ disk \in [Db!Directory -> Pair]
  BY UnderWay DEF Db!BeginQuarantine
<1>2. /\ now \in Db!Incident /\ now > incidents /\ now \in Nat
      /\ now \in 0 .. MaxIncident /\ incidents \in Nat
  <2>1. incidents \in Nat /\ incidents < MaxIncident /\ MaxIncident \in Nat
    BY <1>1, Bounds
  <2> QED BY <2>1 DEF Db!Incident
<1>3. /\ Db!Rollback' = rollback /\ Db!Quarantine' = quarantine
      /\ Db!Active' = Db!Active
  BY <1>1 DEF Db!Rollback, Db!Quarantine, Db!Active
<1>4. disk[rollback] = Untouched /\ disk[quarantine] = Untouched
  <2> HIDE DEF now
  <2> QED BY <1>0, <1>2 DEF IncidentInv
<1>5. /\ task' \in Tasks /\ task'.at = "quarantine main"
      /\ task'.before["main"] = Db!NoFile /\ task'.before["wal"] = Db!NoFile
  BY <1>1, IdleTask
<1> HIDE DEF rollback, quarantine
<1>6. BackupTypes'
  <2>1. incidents' \in 0 .. MaxIncident
    BY <1>1, <1>2
  <2> QED BY <1>0, <1>1, <1>5, <2>1 DEF BackupTypes
<1>7. OpenInv'
  BY <1>0, <1>1, <1>3, <1>5, Copies DEF OpenInv, LogBelongs
<1>8. IncidentInv'
  <2> SUFFICES ASSUME NEW i \in Db!Incident, i > now,
                      NEW k \in {"staging", "rollback", "quarantine"}
               PROVE  disk[<<k, i>>] = Untouched
    BY <1>1, <1>2 DEF IncidentInv
  <2>1. i > incidents
    BY <1>2 DEF Db!Incident
  <2> QED BY <1>0, <2>1 DEF IncidentInv
<1>9. MovingInv' /\ CopyInv'
  BY <1>5 DEF MovingInv, CopyInv
<1>10. QuarantineInv'
  BY <1>1, <1>3, <1>4, <1>5 DEF QuarantineInv, Untouched
<1>11. WholeInv'
  <2>1. RestWhole
    BY <1>0, <1>1, WholeAtRest DEF Activating
  <2>2. RestWhole'
    BY <1>1, <1>3, <2>1 DEF RestWhole, WholeIn, Whole
  <2> QED BY <1>1, <1>2, <1>5, <2>2, RestIsWhole DEF Activating
<1>12. KeptInv'
  BY <1>0, <1>1, <1>3 DEF KeptInv
<1> QED BY <1>6, <1>7, <1>8, <1>9, <1>10, <1>11, <1>12 DEF BackupInv

LEMMA QuarantineMoveKeeps ==
  ASSUME BackupInv, NEW p \in Db!Part, Db!QuarantineMove(p)
  PROVE  BackupInv'
<1> USE DEF Db!Part
<1>0. /\ BackupTypes /\ OpenInv /\ IncidentInv /\ QuarantineInv /\ WholeInv /\ KeptInv
  BY DEF BackupInv
<1>1. /\ task.at = IF p = "main" THEN "quarantine main" ELSE "quarantine wal"
      /\ disk' = IF Db!Exists(Db!Active, p)
                 THEN Db!Renamed(Db!Active, Db!Quarantine, p) ELSE disk
      /\ UNCHANGED <<manifest, store, committed, incidents, restarts, cut>>
  BY DEF Db!QuarantineMove
<1>2. /\ incidents \in Nat /\ incidents \in Db!Incident /\ store = "closed"
      /\ Db!Quarantine \in Kept /\ Db!Quarantine \in Db!Directory
      /\ Db!Rollback \in Kept /\ disk \in [Db!Directory -> Pair]
  BY <1>1, UnderWay DEF Quarantining
<1>3. disk[Db!Quarantine][p] = Db!NoFile
  BY <1>0, <1>1 DEF QuarantineInv
<1>4. /\ disk' \in [Db!Directory -> Pair]
      /\ disk'[Db!Active][p] = Db!NoFile
      /\ disk'[Db!Quarantine][p] = disk[Db!Active][p]
      /\ \A q \in Db!Part \ {p} : /\ disk'[Db!Active][q] = disk[Db!Active][q]
                                  /\ disk'[Db!Quarantine][q] = disk[Db!Quarantine][q]
      /\ \A e \in Db!Directory \ {Db!Active, Db!Quarantine} : disk'[e] = disk[e]
  <2>1. CASE Db!Exists(Db!Active, p)
    <3>1. disk' = Db!Renamed(Db!Active, Db!Quarantine, p)
      BY <1>1, <2>1
    <3> QED BY <1>2, <3>1, Places, Renames
  <2>2. CASE ~Db!Exists(Db!Active, p)
    BY <1>1, <1>2, <1>3, <2>2 DEF Db!Exists
  <2> QED BY <2>1, <2>2
<1>5. \A d \in Kept \ {Db!Quarantine} : disk'[d] = disk[d]
  BY <1>2, <1>4, Places
<1>6. /\ task' \in Tasks
      /\ task'.at = IF p = "main" THEN "quarantine wal" ELSE "idle"
      /\ task'.before["main"].health # "torn" /\ LogBelongs(task'.before)
  <2>1. task \in Tasks
    BY <1>0 DEF BackupTypes
  <2>2. CASE p = "main"
    BY <1>0, <2>1, <2>2 DEF Db!QuarantineMove, Tasks, Quarantining, OpenInv
  <2>3. CASE p = "wal"
    BY <2>3, IdleTask, IdleIsIdle, Copies DEF Db!QuarantineMove, LogBelongs
  <2> QED BY <2>2, <2>3
<1>7. BackupTypes'
  BY <1>0, <1>1, <1>4, <1>6 DEF BackupTypes
<1>8. p = "wal" => disk[Db!Active]["main"] = Db!NoFile
  BY <1>0, <1>1 DEF QuarantineInv
<1>9. disk'[Db!Active]["main"] = Db!NoFile
  BY <1>4, <1>8
<1>10. OpenInv'
  BY <1>1, <1>2, <1>6, <1>9, SamePlaces, Copies DEF OpenInv, LogBelongs
<1>11. IncidentInv'
  BY <1>0, <1>1, <1>2, <1>4, LaterPlaces DEF IncidentInv
<1>12. MovingInv' /\ CopyInv'
  BY <1>6 DEF MovingInv, CopyInv
<1>13. QuarantineInv'
  <2>1. p = "main" => disk'[Db!Quarantine]["wal"] = Db!NoFile
    BY <1>0, <1>1, <1>4 DEF QuarantineInv
  <2> QED BY <1>1, <1>6, <1>9, <2>1, SamePlaces DEF QuarantineInv
<1>14. WholeInv'
  <2>0. committed' = committed /\ cut' = cut /\ incidents' = incidents
    BY <1>1
  <2>1. CASE p = "main"
    <3>1. RestWhole
      BY <1>0, <1>1, <1>2, <2>1, WholeAtRest DEF Activating
    <3>2. /\ disk[Db!Quarantine]["main"] = Db!NoFile
          /\ disk[Db!Rollback]["main"] = Db!NoFile
      BY <1>0, <1>1, <2>1 DEF QuarantineInv
    <3> SUFFICES ASSUME ~cut, NEW g \in Db!Generation, committed[g] # 0
                 PROVE  \/ \E d \in Kept \ {Db!Rollback, Db!Quarantine} : WholeIn(d, g)'
                        \/ Whole(disk[Db!Quarantine]["main"],
                                 disk[Db!Active]["wal"], g)'
      BY <1>6, <2>0, <2>1, SamePlaces DEF WholeInv, Activating
    <3>3. PICK d \in {Db!Active} \cup Kept : WholeIn(d, g)
      BY <3>1 DEF RestWhole
    <3>4. CASE d = Db!Active
      BY <1>1, <1>4, <2>0, <2>1, <3>3, <3>4, SamePlaces DEF WholeIn, Whole
    <3>5. CASE d \in Kept
      <4>1. d # Db!Rollback /\ d # Db!Quarantine
        BY <3>2, <3>3, Copies DEF WholeIn, Whole, Db!Generation
      <4> QED BY <1>5, <2>0, <3>3, <3>5, <4>1 DEF WholeIn, Whole
    <3> QED BY <3>4, <3>5
  <2>2. CASE p = "wal"
    <3>1. ~cut => \A g \in Db!Generation : committed[g] # 0 =>
            \/ \E d \in Kept \ {Db!Rollback, Db!Quarantine} : WholeIn(d, g)
            \/ Whole(disk[Db!Quarantine]["main"], disk[Db!Active]["wal"], g)
      BY <1>0, <1>1, <2>2 DEF WholeInv, Activating
    <3>2. \A g \in Db!Generation :
            Whole(disk[Db!Quarantine]["main"], disk[Db!Active]["wal"], g)
              => WholeIn(Db!Quarantine, g)'
      <4>1. /\ disk'[Db!Quarantine]["main"] = disk[Db!Quarantine]["main"]
            /\ disk'[Db!Quarantine]["wal"] = disk[Db!Active]["wal"]
        BY <1>4, <2>2
      <4> QED BY <2>0, <4>1, SamePlaces DEF WholeIn, Whole
    <3>3. \A g \in Db!Generation, d \in Kept \ {Db!Quarantine} :
            WholeIn(d, g) => WholeIn(d, g)'
      BY <1>5, <2>0 DEF WholeIn, Whole
    <3>4. Db!Quarantine' = Db!Quarantine
      BY <2>0, SamePlaces
    <3>5. RestWhole'
      BY <1>2, <2>0, <3>1, <3>2, <3>3, <3>4 DEF RestWhole
    <3> QED BY <1>1, <1>2, <1>6, <2>2, <3>5, RestIsWhole DEF Activating
  <2> QED BY <2>1, <2>2
<1>15. KeptInv'
  <2> SUFFICES ASSUME NEW g \in Db!Generation, committed[g] # 0
               PROVE  \E d \in Kept : disk'[d]["main"].gen = g
    BY <1>1, SamePlaces DEF KeptInv
  <2>1. g # 0
    BY DEF Db!Generation
  <2>2. CASE p = "main"
    <3>1. disk[Db!Quarantine]["main"].gen # g
      BY <1>3, <2>1, <2>2, Copies
    <3> QED BY <1>0, <1>2, <1>4, <1>5, <2>2, <3>1 DEF KeptInv
  <2>3. CASE p = "wal"
    <3>1. disk[Db!Active]["main"].gen # g
      BY <1>8, <2>1, <2>3, Copies
    <3>2. disk'[Db!Quarantine]["main"] = disk[Db!Quarantine]["main"]
      BY <1>4, <2>3
    <3> QED BY <1>0, <1>5, <3>1, <3>2 DEF KeptInv
  <2> QED BY <2>2, <2>3
<1> QED BY <1>7, <1>10, <1>11, <1>12, <1>13, <1>14, <1>15 DEF BackupInv

LEMMA InitKeeps == Db!Init => BackupInv
<1> SUFFICES ASSUME Db!Init PROVE BackupInv
  OBVIOUS
<1> USE DEF Db!Part
<1> DEFINE first == [gen |-> 1, upto |-> 1, health |-> "whole"]
<1>1. /\ manifest = Db!NoFile /\ store = "closed" /\ incidents = 0
      /\ committed = [g \in Db!Generation |-> IF g = 1 THEN 1 ELSE 0]
      /\ task = Db!Idle
  BY DEF Db!Init
<1>2. /\ task \in Tasks /\ task.at = "idle"
      /\ task.before["main"] = Db!NoFile /\ task.before["wal"] = Db!NoFile
  BY <1>1, IdleTask, IdleIsIdle
<1>3. 1 \in 1 .. MaxCommit + 1 /\ 1 \in 0 .. MaxCommit + 1 /\ 0 \in 0 .. MaxCommit + 1
  BY Bounds
<1>4. first \in Copy /\ first.gen = 1 /\ first.upto = 1 /\ first.health = "whole"
  BY <1>3, Bounds DEF Copy, Db!Content
<1>5. disk = [d \in Db!Directory |-> [p \in Db!Part |->
                IF d = Db!Active /\ p = "main" THEN first ELSE Db!NoFile]]
  BY DEF Db!Init
<1> HIDE DEF first
<1>6. Db!Active \in Db!Directory /\ Db!NoFile \in Copy
  BY <1>1, Places, Copies
<1>7. /\ disk \in [Db!Directory -> Pair]
      /\ disk[Db!Active]["main"] = first /\ disk[Db!Active]["wal"] = Db!NoFile
      /\ \A d \in Db!Directory \ {Db!Active} : disk[d] = Untouched
  BY <1>4, <1>5, <1>6 DEF Pair, Untouched
<1>8. BackupTypes
  <2>1. committed \in [Db!Generation -> 0 .. MaxCommit + 1]
    BY <1>1, <1>3
  <2>2. incidents \in 0 .. MaxIncident
    BY <1>1, Bounds
  <2> QED BY <1>1, <1>2, <1>6, <1>7, <2>1, <2>2 DEF BackupTypes
<1>9. OpenInv
  BY <1>1, <1>2, <1>4, <1>7, Copies DEF OpenInv, LogBelongs
<1>10. IncidentInv
  BY <1>1, <1>2, <1>7, LaterPlaces DEF IncidentInv, Activating, Quarantining
<1>11. MovingInv /\ CopyInv /\ QuarantineInv
  BY <1>2 DEF MovingInv, CopyInv, QuarantineInv
<1>12. \A g \in Db!Generation : committed[g] # 0 => g = 1 /\ committed[g] = 1
  BY <1>1
<1>13. WholeInv
  <2>1. \A g \in Db!Generation : committed[g] # 0 => WholeIn(Db!Active, g)
    BY <1>4, <1>7, <1>12, Copies DEF WholeIn, Whole
  <2> QED BY <1>2, <1>6, <2>1 DEF WholeInv, Activating
<1>14. KeptInv
  BY <1>4, <1>7, <1>12 DEF KeptInv
<1> QED BY <1>8, <1>9, <1>10, <1>11, <1>13, <1>14 DEF BackupInv

LEMMA BackupNextKeeps ==
  ASSUME BackupInv, "move main" \notin Refusable, Db!Next
  PROVE  BackupInv'
BY OpenFreshKeeps, OpenExistingKeeps, CommitKeeps, CloseStoreKeeps, BackupKeeps,
   BeginActivationKeeps, StageKeeps, MoveAsideKeeps, PlaceKeeps,
   RenameRefusedKeeps, VerifyKeeps, RemoveActiveKeeps, PutBackKeeps,
   RemoveStagingKeeps, BeginQuarantineKeeps, QuarantineMoveKeeps, CrashKeeps,
   DamageKeeps DEF Db!Next

LEMMA BackupStays ==
  ASSUME BackupInv, UNCHANGED backup
  PROVE  BackupInv'
<1> USE DEF Db!Part
<1>1. /\ UNCHANGED <<disk, manifest, store, committed, task, incidents>>
      /\ cut' = cut
  BY DEF backup
<1>2. BackupTypes' /\ OpenInv'
  BY <1>1, SamePlaces DEF BackupInv, BackupTypes, OpenInv, LogBelongs
<1>3. IncidentInv' /\ CopyInv'
  BY <1>1, SamePlaces DEF BackupInv, IncidentInv, CopyInv
<1>4. QuarantineInv' /\ KeptInv'
  BY <1>1, SamePlaces DEF BackupInv, QuarantineInv, KeptInv
<1>5. MovingInv'
  BY <1>1, SamePlaces
  DEF BackupInv, MovingInv, InPlace, Unmoved, HalfMoved, Moved,
      MovedOrInPlace, LogBack
<1>6. WholeInv'
  <2>1. \A d \in Db!Directory \cup Kept, g \in Db!Generation :
          WholeIn(d, g) => WholeIn(d, g)'
    BY <1>1 DEF WholeIn, Whole
  <2>2. WholeInv
    BY DEF BackupInv
  <2> QED BY <1>1, <2>1, <2>2, SamePlaces DEF WholeInv, Whole
<1> QED BY <1>2, <1>3, <1>4, <1>5, <1>6 DEF BackupInv

LEMMA DiskNextKeeps ==
  "move main" \notin Refusable =>
    (BackupInv /\ [DiskNext]_<<machine, vars, backup, writerVars>> => BackupInv')
<1> SUFFICES ASSUME "move main" \notin Refusable, BackupInv,
                    [DiskNext]_<<machine, vars, backup, writerVars>>
             PROVE  BackupInv'
  OBVIOUS
<1>1. Db!Next \/ UNCHANGED backup
  BY DEF DiskNext
<1> QED BY <1>1, BackupNextKeeps, BackupStays

-----------------------------------------------------------------------------
(* The database file: what is at its place has all of its transactions     *)

\* A database with its log has every transaction of its generation.
Entire(pair) ==
  pair["main"] # Db!NoFile => Whole(pair["main"], pair["wal"], pair["main"].gen)

\* The database at its place is entire; so is the one that an activation found,
\* which is of another generation than the copy.
EntireInv ==
  /\ Entire(disk[Db!Active])
  /\ task.at \in Activating =>
       Entire(task.before) /\ task.before["main"].gen # task.copy

\* Nothing of it changes if the place, the transactions and the task stay.
LEMMA EntireStays ==
  ASSUME EntireInv, disk'[Db!Active] = disk[Db!Active], committed' = committed,
         \/ task'.at \notin Activating
         \/ /\ task.at \in Activating
            /\ task'.before = task.before /\ task'.copy = task.copy
  PROVE  EntireInv'
<1>1. Db!Active' = Db!Active
  BY DEF Db!Active
<1> QED BY <1>1 DEF EntireInv, Entire, Whole

\* Nor if there is nothing at the place.
LEMMA EntireIfGone ==
  ASSUME EntireInv, disk'[Db!Active]["main"] = Db!NoFile,
         task.at \in Activating /\ task'.at \in Activating =>
           /\ task'.before = task.before /\ task'.copy = task.copy
           /\ committed' = committed,
         task'.at \in Activating => task.at \in Activating
  PROVE  EntireInv'
<1>1. Db!Active' = Db!Active /\ Db!NoFile' = Db!NoFile
  BY DEF Db!Active, Db!NoFile
<1> QED BY <1>1 DEF EntireInv, Entire, Whole

\* A database that is there and entire has at least one transaction.
LEMMA EntireHasSome ==
  ASSUME NEW pair \in Pair, Entire(pair), pair["main"] # Db!NoFile
  PROVE  committed[pair["main"].gen] # 0
<1>1. /\ pair["main"] \in Copy /\ pair["wal"] \in Copy
      /\ pair["main"] \in Db!Content /\ pair["main"].gen # 0
  BY Copies DEF Pair, Db!Part
<1>2. pair["wal"].gen = pair["main"].gen => pair["wal"] \in Db!Content
  BY <1>1, Copies
<1>3. \A c \in Db!Content : c.upto # 0
  BY Bounds DEF Db!Content
<1> QED BY <1>1, <1>2, <1>3 DEF Entire, Whole

\* What an activation does until the copy is placed or removed.
LEMMA ActivationStepsKeepEntire ==
  ASSUME BackupInv, EntireInv,
         \/ \E ok \in BOOLEAN : Db!Stage(ok) \/ Db!Verify(ok)
         \/ \E p \in Db!Part : Db!MoveAside(p)
         \/ Db!RenameRefused \/ Db!RemoveStaging
  PROVE  EntireInv'
<1> USE DEF Db!Part
<1>0. /\ disk \in [Db!Directory -> Pair] /\ incidents \in Nat
      /\ task \in Tasks /\ Db!NoFile \in Copy
  BY UnderWay, Copies DEF BackupInv, BackupTypes
<1>1. Db!Active \in Db!Directory /\ Db!Active # Db!Staging
      /\ Db!Active # Db!Rollback
  BY <1>0, Places
<1>2. ASSUME NEW ok \in BOOLEAN, Db!Stage(ok) PROVE EntireInv'
  <2>1. /\ task.at \in Activating /\ Db!Staging \in Db!Directory
        /\ task'.at \in Activating \cup {"idle"}
        /\ task'.before = task.before /\ task'.copy = task.copy
        /\ committed' = committed
    BY <1>0, <1>2, UnderWay DEF Db!Stage, Activating, Tasks
  <2>2. disk'[Db!Active] = disk[Db!Active]
    BY <1>0, <1>1, <1>2, <2>1 DEF Db!Stage, Db!Written
  <2>3. task'.at \notin Activating \/ task.at \in Activating
    BY <2>1
  <2> QED BY <2>1, <2>2, EntireStays
<1>3. ASSUME NEW ok \in BOOLEAN, Db!Verify(ok) PROVE EntireInv'
  <2>1. /\ task.at \in Activating /\ UNCHANGED <<disk, committed>>
        /\ task'.before = task.before /\ task'.copy = task.copy
    BY <1>0, <1>3 DEF Db!Verify, Activating, Tasks
  <2> QED BY <2>1, EntireStays
<1>4. CASE Db!RenameRefused
  <2>1. /\ task.at \in Activating /\ UNCHANGED <<disk, committed>>
        /\ task'.before = task.before /\ task'.copy = task.copy
    BY <1>0, <1>4, DiskAssumption
    DEF Db!RenameRefused, Activating, Tasks, Db!BackupParameters
  <2> QED BY <2>1, EntireStays
<1>5. CASE Db!RemoveStaging
  <2>1. /\ task.at \in Activating /\ Db!Staging \in Db!Directory
        /\ committed' = committed /\ task'.at = "idle"
    BY <1>0, <1>5, UnderWay DEF Db!RemoveStaging, Activating, Tasks
  <2>2. disk'[Db!Active] = disk[Db!Active]
    BY <1>0, <1>1, <1>5, <2>1 DEF Db!RemoveStaging, Db!Written
  <2> QED BY <2>1, <2>2, EntireStays DEF Activating
<1>6. ASSUME NEW p \in Db!Part, Db!MoveAside(p) PROVE EntireInv'
  <2>1. /\ task.at \in {"move main", "move wal"} /\ task.at \in Activating
        /\ task'.at \in Activating /\ committed' = committed
        /\ task'.before = task.before /\ task'.copy = task.copy
        /\ task.at = IF p = "main" THEN "move main" ELSE "move wal"
    BY <1>0, <1>6 DEF Db!MoveAside, Db!After, Activating, Tasks
  <2>2. /\ Db!Rollback \in Db!Directory
        /\ p = "wal" => disk[Db!Active]["main"] = Db!NoFile
    BY <2>1, UnderWay DEF BackupInv, MovingInv, HalfMoved
  <2>3. disk'[Db!Active]["main"] = Db!NoFile
    <3>1. CASE Db!Exists(Db!Active, p)
      <4>1. disk' = Db!Renamed(Db!Active, Db!Rollback, p)
        BY <1>6, <3>1 DEF Db!MoveAside
      <4>2. /\ disk'[Db!Active][p] = Db!NoFile
            /\ \A q \in Db!Part \ {p} : disk'[Db!Active][q] = disk[Db!Active][q]
        BY <1>0, <1>1, <2>2, <4>1, Renames
      <4> QED BY <2>2, <4>2
    <3>2. CASE ~Db!Exists(Db!Active, p)
      BY <1>6, <2>2, <3>2 DEF Db!MoveAside, Db!Exists
    <3> QED BY <3>1, <3>2
  <2> QED BY <2>1, <2>3, EntireIfGone
<1> QED BY <1>2, <1>3, <1>4, <1>5, <1>6

\* What a store does with its files: a fresh database, a transaction, the
\* checkpoint of the log.
LEMMA StoreStepsKeepEntire ==
  ASSUME BackupInv, EntireInv,
         Db!OpenFresh \/ Db!OpenExisting \/ Db!Commit \/ Db!CloseStore
  PROVE  EntireInv'
<1> USE DEF Db!Part
<1> DEFINE main == disk[Db!Active]["main"]
           wal == disk[Db!Active]["wal"]
<1>0. /\ disk \in [Db!Directory -> Pair] /\ incidents \in Nat
      /\ committed \in [Db!Generation -> 0 .. MaxCommit + 1]
      /\ store # "closed" =>
           main # Db!NoFile /\ task.at \in {"idle", "copying", "inspect"}
  BY UnderWay DEF BackupInv, BackupTypes, OpenInv
<1>1. /\ Db!Active \in Db!Directory /\ Db!Active' = Db!Active
      /\ main \in Copy /\ wal \in Copy
  BY <1>0, Places DEF Db!Active, Pair
<1>2. ASSUME task'.at \notin Activating, Entire(disk[Db!Active])'
      PROVE  EntireInv'
  BY <1>2 DEF EntireInv
<1>3. CASE Db!OpenFresh
  <2> DEFINE fresh(g) == [gen |-> g, upto |-> 1, health |-> "whole"]
             pair(g) == [p \in Db!Part |-> IF p = "main" THEN fresh(g)
                                           ELSE Db!NoFile]
  <2>1. PICK g \in Db!Generation :
          /\ committed' = [committed EXCEPT ![g] = 1]
          /\ disk' = [disk EXCEPT ![Db!Active] = pair(g)]
    BY <1>3 DEF Db!OpenFresh
  <2>2. /\ disk'[Db!Active]["main"] = fresh(g)
        /\ disk'[Db!Active]["wal"] = Db!NoFile
    BY <1>0, <1>1, <2>1
  <2>3. fresh(g).gen = g /\ fresh(g).upto = 1 /\ g # 0
    BY DEF Db!Generation
  <2> HIDE DEF fresh
  <2>4. committed'[g] = 1
    BY <1>0, <2>1
  <2>5. Entire(disk[Db!Active])'
    BY <1>1, <2>2, <2>3, <2>4, Copies DEF Entire, Whole
  <2>6. task'.at \notin Activating
    BY <1>3 DEF Db!OpenFresh, Activating
  <2> QED BY <1>2, <2>5, <2>6
<1>4. CASE Db!OpenExisting
  <2>1. UNCHANGED <<disk, committed, task>> /\ task.at \notin Activating
    BY <1>4 DEF Db!OpenExisting, Activating
  <2> QED BY <2>1, EntireStays
<1>5. CASE Db!Commit
  <2> DEFINE g == main.gen
             log == [gen |-> g, upto |-> committed[g] + 1, health |-> "whole"]
  <2>1. /\ main # Db!NoFile /\ task' = task
        /\ task.at \notin Activating
        /\ committed[g] <= MaxCommit
        /\ committed' = [committed EXCEPT ![g] = committed[g] + 1]
        /\ disk' = Db!Written(Db!Active, "wal", log)
    BY <1>0, <1>5 DEF Db!Commit, Activating
  <2>2. g \in Db!Generation
    BY <1>1, <2>1, Copies
  <2>3. log \in Copy /\ log.gen = g /\ log.upto = committed[g] + 1
    BY <1>0, <2>1, <2>2, Bounds DEF Copy, Db!Content
  <2> HIDE DEF log
  <2>4. disk'[Db!Active]["main"] = main /\ disk'[Db!Active]["wal"] = log
    BY <1>0, <1>1, <2>1, <2>3, Writes
  <2>5. committed'[g] = committed[g] + 1
    BY <1>0, <2>1, <2>2
  <2>6. Entire(disk[Db!Active])'
    BY <1>1, <2>3, <2>4, <2>5 DEF Entire, Whole
  <2> QED BY <1>2, <2>1, <2>6
<1>6. CASE Db!CloseStore
  <2>1. /\ main # Db!NoFile /\ UNCHANGED <<committed, task>>
        /\ task.at \notin Activating
    BY <1>0, <1>6 DEF Db!CloseStore, Activating
  <2>2. CASE store = "open"
    <3> DEFINE latest == Db!Latest(Db!Active)
               closed == [main EXCEPT !.upto = latest]
               pair == [disk[Db!Active] EXCEPT !["main"] = closed,
                                               !["wal"] = Db!NoFile]
    <3>1. disk' = [disk EXCEPT ![Db!Active] = pair]
      BY <1>0, <1>1, <1>6, <2>2 DEF Db!CloseStore, Pair
    <3>2. closed.gen = main.gen /\ closed.upto = latest
      BY <1>1, <2>1, Copies DEF Db!Content
    <3>3. pair["main"] = closed /\ pair["wal"] = Db!NoFile
      BY <1>0, <1>1 DEF Pair
    <3> HIDE DEF pair, closed
    <3>4. disk'[Db!Active] = pair
      BY <1>0, <1>1, <3>1
    <3>5. latest = committed[main.gen]
      BY <2>1 DEF EntireInv, Entire, Whole, Db!Latest
    <3>6. Entire(disk[Db!Active])'
      <4>1. main.gen \in Db!Generation /\ main.gen # 0
        BY <1>1, <2>1, Copies
      <4> HIDE DEF latest, main
      <4> QED BY <1>1, <2>1, <3>2, <3>3, <3>4, <3>5, <4>1, Copies
              DEF Entire, Whole
    <3> QED BY <1>2, <2>1, <3>6
  <2>3. CASE store # "open"
    <3>1. disk' = disk
      BY <1>6, <2>3 DEF Db!CloseStore
    <3> QED BY <2>1, <3>1, EntireStays
  <2> QED BY <2>2, <2>3
<1> QED BY <1>3, <1>4, <1>5, <1>6

\* What leaves the place as it is: a backup, the start of an activation or a
\* quarantine, a crash; and damage, which changes no transaction.
LEMMA OtherStepsKeepEntire ==
  ASSUME BackupInv, EntireInv,
         \/ Db!BeginBackup \/ Db!WriteManifest \/ Db!BeginActivation
         \/ \E ok \in BOOLEAN : Db!EndCopy(ok)
         \/ Db!BeginQuarantine \/ Db!Crash
         \/ \E d \in {Db!Active, Db!Target}, h \in {"altered", "broken"} :
              Db!Damage(d, h)
  PROVE  EntireInv'
<1> USE DEF Db!Part
<1>0. /\ disk \in [Db!Directory -> Pair] /\ incidents \in Nat
      /\ committed \in [Db!Generation -> 0 .. MaxCommit + 1]
  BY UnderWay DEF BackupInv, BackupTypes
<1>1. /\ Db!Active \in Db!Directory /\ Db!Target \in Db!Directory
      /\ Db!Active # Db!Target /\ Db!Active' = Db!Active
      /\ disk[Db!Active]["main"] \in Copy
  BY <1>0, Places DEF Db!Active, Pair
<1>2. CASE Db!BeginBackup \/ \E ok \in BOOLEAN : Db!EndCopy(ok)
  <2>1. committed' = committed /\ task'.at \notin Activating
    BY <1>2 DEF Db!BeginBackup, Db!EndCopy, Db!Idle, Activating
  <2>2. disk'[Db!Active] = disk[Db!Active]
    BY <1>0, <1>1, <1>2 DEF Db!BeginBackup, Db!EndCopy, Db!Written
  <2> QED BY <2>1, <2>2, EntireStays
<1>3. CASE Db!WriteManifest \/ Db!BeginQuarantine \/ Db!Crash
  <2>1. UNCHANGED <<disk, committed>> /\ task'.at \in {"idle", "quarantine main"}
    BY <1>3, IdleTask, IdleIsIdle
    DEF Db!WriteManifest, Db!BeginQuarantine, Db!Crash
  <2> QED BY <2>1, EntireStays DEF Activating
<1>4. CASE Db!BeginActivation
  <2> DEFINE staging == <<"staging", incidents + 1>>
             copyOf(g) == [manifest EXCEPT !.gen = g, !.health = "torn"]
  <2>1. PICK g \in Db!Generation :
          /\ committed[g] = 0
          /\ disk' = Db!Written(staging, "main", copyOf(g))
          /\ task' = [Db!Idle EXCEPT !.at = "staging", !.copy = g,
                                     !.before = disk[Db!Active]]
    BY <1>4 DEF Db!BeginActivation, Db!IsNew
  <2>2. committed' = committed
    BY <1>4 DEF Db!BeginActivation
  <2>3. disk'[Db!Active] = disk[Db!Active]
    <3>1. staging # Db!Active
      BY DEF Db!Active
    <3> HIDE DEF staging, copyOf
    <3> QED BY <1>0, <1>1, <2>1, <3>1 DEF Db!Written
  <2>4. task'.copy = g /\ task'.before = disk[Db!Active]
    BY <2>1 DEF Db!Idle
  <2>5. disk[Db!Active]["main"].gen # g
    <3> DEFINE main == disk[Db!Active]["main"]
    <3>1. CASE main = Db!NoFile
      BY <3>1, Copies DEF Db!Generation
    <3>2. CASE main # Db!NoFile
      <4>1. committed[main.gen] # 0
        BY <1>0, <1>1, <3>2, EntireHasSome DEF EntireInv, Pair
      <4> QED BY <2>1, <4>1
    <3> QED BY <3>1, <3>2
  <2>6. Entire(disk[Db!Active])' /\ Entire(task.before)'
    BY <1>1, <2>2, <2>3, <2>4 DEF EntireInv, Entire, Whole
  <2> QED BY <1>1, <2>4, <2>5, <2>6 DEF EntireInv
<1>5. ASSUME NEW d \in {Db!Active, Db!Target}, NEW h \in {"altered", "broken"},
             Db!Damage(d, h)
      PROVE  EntireInv'
  <2>1. /\ UNCHANGED <<committed, task>> /\ task.at \notin Activating
        /\ disk[d]["main"].health = "whole"
        /\ disk' = [disk EXCEPT ![d]["main"].health = h]
    BY <1>5 DEF Db!Damage, Activating
  <2> DEFINE damaged == [disk[d]["main"] EXCEPT !.health = h]
             pair == [disk[d] EXCEPT !["main"] = damaged]
  <2>2. d \in Db!Directory /\ disk[d] \in Pair /\ disk[d]["main"] \in Copy
    BY <1>0, <1>1 DEF Pair
  <2>3. disk[d]["main"] # Db!NoFile /\ disk[d]["main"] \in Db!Content
    BY <2>1, <2>2, Copies
  <2>4. /\ damaged.gen = disk[d]["main"].gen /\ damaged.upto = disk[d]["main"].upto
    BY <2>3 DEF Db!Content
  <2>5. pair["main"] = damaged /\ pair["wal"] = disk[d]["wal"]
    BY <2>2 DEF Pair
  <2>6. disk' = [disk EXCEPT ![d] = pair]
    BY <2>1
  <2> HIDE DEF pair, damaged
  <2>7. disk'[d] = pair /\ \A e \in Db!Directory \ {d} : disk'[e] = disk[e]
    BY <1>0, <2>2, <2>6
  <2>8. CASE d = Db!Active
    <3>1. Entire(disk[Db!Active])'
      BY <1>1, <2>1, <2>3, <2>4, <2>5, <2>7, <2>8 DEF EntireInv, Entire, Whole
    <3> QED BY <2>1, <3>1 DEF EntireInv
  <2>9. CASE d # Db!Active
    BY <1>1, <2>1, <2>7, <2>9, EntireStays
  <2> QED BY <2>8, <2>9
<1> QED BY <1>2, <1>3, <1>4, <1>5

\* The copy comes in with its transactions, no log beside it, or goes again.
LEMMA CopyKeepsEntire ==
  ASSUME BackupInv, EntireInv, Db!Place \/ Db!RemoveActive
  PROVE  EntireInv'
<1> USE DEF Db!Part
<1> DEFINE copy == task.copy
           found == task.before
<1>0. /\ disk \in [Db!Directory -> Pair] /\ incidents \in Nat
      /\ committed \in [Db!Generation -> 0 .. MaxCommit + 1]
      /\ task \in Tasks /\ Db!NoFile \in Copy
  BY UnderWay, Copies DEF BackupInv, BackupTypes
<1>1. /\ task.at \in {"place", "remove"} /\ task.at \in Activating
      /\ task'.at \in Activating
      /\ task'.before = found /\ task'.copy = copy
      /\ copy \in Db!Generation /\ found \in Pair
      /\ Db!Active' = Db!Active /\ Db!NoFile' = Db!NoFile
  BY <1>0 DEF Db!Place, Db!RemoveActive, Tasks, Activating, Db!Active, Db!NoFile
<1>2. /\ Db!Active \in Db!Directory /\ Db!Active # Db!Staging
      /\ Db!Staging \in Db!Directory
  BY <1>0, <1>1, Places, UnderWay
<1>3. /\ \A g \in Db!Generation \ {copy} : committed'[g] = committed[g]
      /\ Entire(found) /\ found["main"].gen # copy
  BY <1>0, <1>1 DEF Db!Place, Db!RemoveActive, EntireInv
<1>4. Entire(task.before)'
  <2>1. found["main"] # Db!NoFile => found["main"].gen \in Db!Generation
    BY <1>1, Copies DEF Pair
  <2> QED BY <1>1, <1>3, <2>1 DEF Entire, Whole
<1>5. Entire(disk[Db!Active])'
  <2>1. CASE Db!Place
    <3> DEFINE staged == disk[Db!Staging]["main"]
    <3>1. task.at = "place"
      BY <2>1 DEF Db!Place
    <3>2. staged.gen = copy /\ disk[Db!Active]["wal"] = Db!NoFile
      BY <3>1 DEF BackupInv, CopyInv, MovingInv, Moved
    <3>3. /\ disk'[Db!Active]["main"] = staged
          /\ disk'[Db!Active]["wal"] = Db!NoFile
      <4>1. disk' = Db!Renamed(Db!Staging, Db!Active, "main")
        BY <2>1 DEF Db!Place
      <4> QED BY <1>0, <1>2, <3>2, <4>1, Renames
    <3>4. committed'[copy] = staged.upto
      BY <1>0, <1>1, <2>1 DEF Db!Place
    <3>5. copy # 0
      BY <1>1 DEF Db!Generation
    <3> QED BY <1>1, <3>2, <3>3, <3>4, <3>5, Copies DEF Entire, Whole
  <2>2. CASE Db!RemoveActive
    <3>1. disk' = Db!Written(Db!Active, "main", Db!NoFile)
      BY <2>2 DEF Db!RemoveActive
    <3>2. disk'[Db!Active]["main"] = Db!NoFile
      BY <1>0, <1>2, <3>1, Writes
    <3> QED BY <1>1, <3>2 DEF Entire
  <2> QED BY <2>1, <2>2
<1> QED BY <1>1, <1>3, <1>4, <1>5 DEF EntireInv

\* The catch block puts back what was found, the database last; a quarantine
\* takes the database away first.
LEMMA RemainingStepsKeepEntire ==
  ASSUME BackupInv, EntireInv,
         \E p \in Db!Part : Db!PutBack(p) \/ Db!QuarantineMove(p)
  PROVE  EntireInv'
<1> USE DEF Db!Part
<1>0. /\ disk \in [Db!Directory -> Pair] /\ incidents \in Nat
      /\ task \in Tasks /\ Db!NoFile \in Copy
  BY UnderWay, Copies DEF BackupInv, BackupTypes
<1>1. /\ Db!Active \in Db!Directory /\ Db!Active # Db!Rollback
      /\ Db!Active # Db!Quarantine
      /\ Db!Active' = Db!Active /\ Db!NoFile' = Db!NoFile
  BY <1>0, Places DEF Db!Active, Db!NoFile
<1>2. ASSUME NEW p \in Db!Part, Db!PutBack(p) PROVE EntireInv'
  <2>1. /\ task.at = IF p = "wal" THEN "put wal back" ELSE "put main back"
        /\ task.at \in Activating /\ committed' = committed
        /\ task'.at \in Activating
        /\ task'.before = task.before /\ task'.copy = task.copy
        /\ Db!Rollback \in Db!Directory
    BY <1>0, <1>2, UnderWay DEF Db!PutBack, Tasks, Activating
  <2>2. /\ p \in task.moved => disk' = Db!Renamed(Db!Rollback, Db!Active, p)
        /\ p \notin task.moved => disk' = disk
    BY <1>2 DEF Db!PutBack
  <2>3. /\ disk'[Db!Active][p] = IF p \in task.moved THEN disk[Db!Rollback][p]
                                 ELSE disk[Db!Active][p]
        /\ \A q \in Db!Part \ {p} : disk'[Db!Active][q] = disk[Db!Active][q]
    <3>1. CASE p \in task.moved
      <4>1. disk' = Db!Renamed(Db!Rollback, Db!Active, p)
        BY <2>2, <3>1
      <4>2. disk \in [Db!Directory -> Pair] /\ Db!Rollback \in Db!Directory
        BY <1>0, <2>1
      <4>3. /\ disk'[Db!Active][p] = disk[Db!Rollback][p]
            /\ \A q \in Db!Part \ {p} :
                 disk'[Db!Active][q] = disk[Db!Active][q]
        BY <1>1, <4>1, <4>2, Renames
      <4> QED BY <3>1, <4>3
    <3>2. CASE p \notin task.moved
      BY <2>2, <3>2
    <3> QED BY <3>1, <3>2
  <2>4. disk[Db!Active]["main"] = Db!NoFile
    BY <2>1 DEF BackupInv, MovingInv
  <2>5. CASE p = "wal"
    BY <2>1, <2>3, <2>4, <2>5, EntireIfGone
  <2>6. CASE p = "main"
    <3>1. LogBack
      BY <2>1, <2>6 DEF BackupInv, MovingInv
    <3>2. \A q \in Db!Part : disk'[Db!Active][q] = task.before[q]
      BY <2>3, <2>4, <2>6, <3>1 DEF LogBack
    <3>3. Entire(task.before) /\ task.before["main"].gen # task.copy
      BY <2>1 DEF EntireInv
    <3> QED BY <1>1, <2>1, <3>2, <3>3 DEF EntireInv, Entire, Whole
  <2> QED BY <2>5, <2>6
<1>3. ASSUME NEW p \in Db!Part, Db!QuarantineMove(p) PROVE EntireInv'
  <2>1. /\ task.at = IF p = "main" THEN "quarantine main" ELSE "quarantine wal"
        /\ task.at \in Quarantining /\ committed' = committed
        /\ task'.at \notin Activating /\ Db!Quarantine \in Db!Directory
        /\ disk' = IF Db!Exists(Db!Active, p)
                   THEN Db!Renamed(Db!Active, Db!Quarantine, p) ELSE disk
    BY <1>0, <1>3, UnderWay
    DEF Db!QuarantineMove, Tasks, Activating, Quarantining, Db!Idle
  <2>2. p = "wal" => disk[Db!Active]["main"] = Db!NoFile
    BY <2>1 DEF BackupInv, QuarantineInv
  <2>3. disk'[Db!Active]["main"] = Db!NoFile
    <3>1. CASE Db!Exists(Db!Active, p)
      <4>1. /\ disk'[Db!Active][p] = Db!NoFile
            /\ \A q \in Db!Part \ {p} : disk'[Db!Active][q] = disk[Db!Active][q]
        <5>1. disk' = Db!Renamed(Db!Active, Db!Quarantine, p)
          BY <2>1, <3>1
        <5>2. disk \in [Db!Directory -> Pair] /\ Db!Quarantine \in Db!Directory
          BY <1>0, <2>1
        <5> QED BY <1>1, <5>1, <5>2, Renames
      <4> QED BY <2>2, <4>1
    <3>2. CASE ~Db!Exists(Db!Active, p)
      BY <2>1, <2>2, <3>2 DEF Db!Exists
    <3> QED BY <3>1, <3>2
  <2> QED BY <2>1, <2>3, EntireIfGone
<1> QED BY <1>2, <1>3

LEMMA EntireNext ==
  "move main" \notin Refusable =>
    (BackupInv /\ EntireInv /\ [DiskNext]_<<machine, vars, backup, writerVars>>
       => EntireInv')
<1> SUFFICES ASSUME BackupInv, EntireInv,
                    [DiskNext]_<<machine, vars, backup, writerVars>>
             PROVE  EntireInv'
  OBVIOUS
<1>1. CASE Db!Next
  BY <1>1, ActivationStepsKeepEntire, StoreStepsKeepEntire, OtherStepsKeepEntire,
     CopyKeepsEntire, RemainingStepsKeepEntire DEF Db!Next
<1>2. CASE UNCHANGED backup
  <2>1. UNCHANGED <<disk, committed, task>>
    BY <1>2 DEF backup
  <2> QED BY <2>1, EntireStays
<1> QED BY <1>1, <1>2 DEF DiskNext

LEMMA EntireAtFirst == Db!Init => EntireInv
<1> SUFFICES ASSUME Db!Init PROVE EntireInv
  OBVIOUS
<1> USE DEF Db!Part
<1>1. /\ disk[Db!Active]["main"] = [gen |-> 1, upto |-> 1, health |-> "whole"]
      /\ disk[Db!Active]["wal"] = Db!NoFile
      /\ 1 \in Db!Generation /\ committed[1] = 1 /\ task.at = "idle"
  BY Bounds DEF Db!Init, Db!Directory, Db!Active, Db!Idle
<1>2. disk[Db!Active]["main"].gen = 1 /\ disk[Db!Active]["main"].upto = 1
  BY <1>1
<1> QED BY <1>1, <1>2, Copies DEF EntireInv, Entire, Whole, Activating

-----------------------------------------------------------------------------
(* The theorems about the database file.  The disk may refuse any rename   *)
(* of an activation but the first: what happens if it refuses that one is  *)
(* the finding of backup_refused.cfg.                                      *)

LEMMA BackupInOrder == "move main" \notin Refusable => (DiskSpec => []BackupInv)
<1> SUFFICES ASSUME "move main" \notin Refusable PROVE DiskSpec => []BackupInv
  OBVIOUS
<1>1. DiskInit => BackupInv
  BY InitKeeps DEF DiskInit
<1>2. BackupInv /\ [DiskNext]_<<machine, vars, backup, writerVars>> => BackupInv'
  BY DiskNextKeeps
<1> QED BY <1>1, <1>2, PTL DEF DiskSpec

LEMMA EntireInOrder == "move main" \notin Refusable => (DiskSpec => []EntireInv)
<1> SUFFICES ASSUME "move main" \notin Refusable PROVE DiskSpec => []EntireInv
  OBVIOUS
<1>1. DiskInit => EntireInv
  BY EntireAtFirst DEF DiskInit
<1>2. BackupInv /\ EntireInv /\ [DiskNext]_<<machine, vars, backup, writerVars>>
        => EntireInv'
  BY EntireNext
<1> QED BY <1>1, <1>2, BackupInOrder, PTL DEF DiskSpec

\* A store that is open for writing works on a whole database with every
\* transaction committed to it and no log but its own, through backups,
\* activations, quarantines, damage and crashes.
THEOREM OpenedIsWhole ==
  ASSUME "move main" \notin Refusable
  PROVE  DiskSpec => []OpenIsWhole
<1>1. BackupInv /\ EntireInv => OpenIsWhole
  BY DEF BackupInv, OpenInv, LogBelongs, OpenIsWhole, Db!OpenIsWhole,
         EntireInv, Entire, Whole, Db!Latest
<1> QED BY <1>1, BackupInOrder, EntireInOrder, PTL

\* No database that was ever the active one disappears, whatever crashes.
THEOREM DatabasesAreKept ==
  ASSUME "move main" \notin Refusable
  PROVE  DiskSpec => []DatabasesKept
<1>1. BackupInv => DatabasesKept
  BY DEF BackupInv, KeptInv, Kept, DatabasesKept, Db!DatabasesKept
<1> QED BY <1>1, BackupInOrder, PTL

\* Unless a crash cuts an activation or a quarantine in two, every database can
\* be found with all of its transactions.
THEOREM NothingIsLost ==
  ASSUME "move main" \notin Refusable
  PROVE  DiskSpec => []NothingLost
<1>1. BackupInv => NothingLost
  <2> SUFFICES ASSUME BackupInv, ~cut, task.at = "idle",
                      NEW g \in Db!Generation, committed[g] # 0
               PROVE  \E d \in Db!Directory : /\ disk[d]["main"].gen = g
                                              /\ Db!Latest(d) = committed[g]
    BY DEF NothingLost, Db!NothingLost
  <2>1. RestWhole /\ incidents \in Nat
    BY UnderWay, WholeAtRest DEF BackupInv, Activating
  <2>2. PICK d \in {Db!Active} \cup Kept : WholeIn(d, g)
    BY <2>1 DEF RestWhole
  <2>3. d \in Db!Directory
    BY <2>1, Places
  <2> QED BY <2>2, <2>3 DEF WholeIn, Whole, Db!Latest
<1> QED BY <1>1, BackupInOrder, PTL

\* An activation that returns has brought the copy in without a log and put
\* aside what it replaced; one that throws leaves everything as it was.
THEOREM ActivationsAreAtomic ==
  ASSUME "move main" \notin Refusable
  PROVE  DiskSpec => ActivationAtomic
<1> DEFINE Step == task.at # "idle" /\ task'.at = "idle" =>
             /\ task'.outcome = "returned" =>
                  /\ disk'[Db!Active]["main"].gen = task.copy
                  /\ disk'[Db!Active]["wal"] = Db!NoFile
                  /\ disk'[Db!Rollback] = task.before
             /\ task'.outcome = "threw" => disk'[Db!Active] = task.before
<1>1. BackupInv /\ [DiskNext]_<<machine, vars, backup, writerVars>> => [Step]_backup
  <2> SUFFICES ASSUME BackupInv, Db!Next, task.at # "idle", task'.at = "idle"
               PROVE  Step
    BY DEF DiskNext, backup
  <2>1. BackupTypes /\ MovingInv /\ CopyInv /\ disk \in [Db!Directory -> Pair]
        /\ incidents \in Nat
    BY UnderWay DEF BackupInv
  <2>2. CASE task'.outcome = "none"
    BY <2>2
  <2>3. CASE Db!Verify(TRUE)
    <3>1. task.at = "verify" /\ UNCHANGED <<disk, incidents>>
          /\ task'.outcome = "returned"
      BY <2>1, <2>3 DEF Db!Verify, BackupTypes, Tasks
    <3>2. Moved /\ disk[Db!Active]["main"].gen = task.copy
      BY <2>1, <3>1 DEF MovingInv, CopyInv
    <3>3. Db!Rollback \in Db!Directory /\ task.before \in Pair
      BY <2>1, <3>1, UnderWay DEF BackupTypes, Tasks, Activating
    <3>4. disk[Db!Rollback] = task.before
      BY <2>1, <3>2, <3>3, SamePair DEF Moved
    <3> QED BY <3>1, <3>2, <3>4, SamePlaces DEF Moved, Db!Part
  <2>4. CASE Db!Stage(FALSE) \/ Db!RemoveStaging
    <3>1. /\ task.at \in {"staging", "clean"} /\ incidents' = incidents
          /\ disk' = Db!Written(Db!Staging, "main", Db!NoFile)
          /\ task'.outcome = "threw"
      BY <2>1, <2>4 DEF Db!Stage, Db!RemoveStaging, BackupTypes, Tasks
    <3>2. InPlace
      BY <2>1, <3>1 DEF MovingInv
    <3>3. Db!Staging \in Db!Directory /\ task.before \in Pair
      BY <2>1, <3>1, UnderWay DEF BackupTypes, Tasks, Activating
    <3>4. Db!Active \in Db!Directory /\ Db!Active # Db!Staging
      BY <2>1, Places
    <3>5. disk'[Db!Active] = disk[Db!Active]
      <4> DEFINE after == Db!Written(Db!Staging, "main", Db!NoFile)
      <4>1. /\ "main" \in Db!Part /\ Db!NoFile \in Copy
            /\ disk \in [Db!Directory -> Pair] /\ Db!Staging \in Db!Directory
        BY <2>1, <3>3, Copies DEF Db!Part
      <4>2. \A e \in Db!Directory \ {Db!Staging} : after[e] = disk[e]
        BY <4>1 DEF Db!Written
      <4> HIDE DEF after
      <4>3. disk' = after
        BY <3>1 DEF after
      <4> QED BY <3>4, <4>2, <4>3
    <3>6. disk[Db!Active] = task.before
      BY <2>1, <3>2, <3>3, <3>4, SamePair DEF InPlace
    <3> QED BY <3>1, <3>5, <3>6, SamePlaces
  <2>5. task'.outcome = "none" \/ Db!Verify(TRUE) \/ Db!Stage(FALSE)
        \/ Db!RemoveStaging
    <3>0. Db!Idle.outcome = "none"
      BY DEF Db!Idle
    <3>1. task \in Tasks
      BY <2>1 DEF BackupTypes
    <3>2. ~(Db!OpenFresh \/ Db!OpenExisting \/ Db!CloseStore \/ Db!BeginBackup)
      BY DEF Db!OpenFresh, Db!OpenExisting, Db!CloseStore, Db!BeginBackup
    <3>3. ~Db!Commit /\ ~Db!BeginActivation /\ ~Db!BeginQuarantine
          /\ \A d \in {Db!Active, Db!Target}, h \in {"altered", "broken"} :
               ~Db!Damage(d, h)
      BY DEF Db!Commit, Db!BeginActivation, Db!BeginQuarantine, Db!Damage
    <3>4. ~(Db!Place \/ Db!RenameRefused \/ Db!RemoveActive)
      BY <3>1 DEF Tasks, Db!Place, Db!RenameRefused, Db!RemoveActive
    <3>5. \A p \in Db!Part : ~Db!MoveAside(p) /\ ~Db!PutBack(p)
      BY <3>1 DEF Tasks, Db!MoveAside, Db!After, Db!PutBack
    <3>6. ~Db!Stage(TRUE) /\ ~Db!Verify(FALSE)
      BY <3>1 DEF Tasks, Db!Stage, Db!Verify
    <3>7. \A ok \in BOOLEAN : ~Db!EndCopy(ok)
      BY DEF Db!EndCopy, Db!Idle
    <3>8. Db!WriteManifest \/ Db!Crash => task'.outcome = "none"
      BY <3>0 DEF Db!WriteManifest, Db!Crash
    <3>9. \A p \in Db!Part : Db!QuarantineMove(p) => task'.outcome = "none"
      BY <3>0, <3>1 DEF Tasks, Db!QuarantineMove
    <3>10. CASE \E ok \in BOOLEAN : Db!Stage(ok)
      BY <3>6, <3>10
    <3>11. CASE \E ok \in BOOLEAN : Db!Verify(ok)
      BY <3>6, <3>11
    <3> QED BY <3>2, <3>3, <3>4, <3>5, <3>7, <3>8, <3>9, <3>10, <3>11
            DEF Db!Next
  <2> QED BY <2>2, <2>3, <2>4, <2>5
<1>2. [Step]_backup => [Step]_Db!vars
  BY DEF backup, Db!vars
<1> QED BY <1>1, <1>2, BackupInOrder, PTL
     DEF DiskSpec, ActivationAtomic, Db!ActivationAtomic

=============================================================================

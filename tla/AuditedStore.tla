----------------------------- MODULE AuditedStore -----------------------------
(***************************************************************************)
(* One database file of the persistence store and the processes that open  *)
(* it (packages/persistence/src: store.ts, migrations.ts, audit-chain.ts): *)
(* migrations, the checks that decide between writing and reading only,    *)
(* and the mutations, each with its events in one transaction.             *)
(*                                                                         *)
(* Every call of the store is synchronous, so a process meets no other     *)
(* call of its own; another process (a second start of the application, a  *)
(* build of another age) falls between any two statements.  Previews and   *)
(* runs stand for the tables: every mutation has the same shape.  The      *)
(* purge is the one of a whole workspace, all rows being of one.           *)
(*                                                                         *)
(* A digest is an injective function of what is digested, the previous     *)
(* digest included: the digest of an event is the sequence of the contents *)
(* up to it, and the genesis digest the empty one.                         *)
(***************************************************************************)
EXTENDS Naturals, Sequences, SequencesExt, StoreRules

CONSTANTS
  Process,   \* the processes that may open the file
  RunId,     \* runs, each with the preview it executes
  Builds,    \* how many of the migrations a build of the application has
  MaxEvents, \* bound on the events
  None

ASSUME StoreAssumption ==
  /\ Builds \subseteq Nat \ {0}
  /\ MaxEvents \in Nat
  /\ None \notin Process

VARIABLES
  \* the file
  applied, \* schema_migrations, in the order of their insertion
  plans,   \* execution_plans, with all that persistPreview inserts
  runs,    \* execution_runs
  events,  \* audit_events
  damage,  \* what was done to the file from outside
  \* its users
  lock,    \* the process that holds SQLite's write lock
  proc,    \* the processes
  late     \* mutations each process has committed to a damaged file

tables == <<plans, runs, events>>
vars == <<applied, plans, runs, events, damage, lock, proc, late>>

NoOp == [kind |-> "none"]
NoTx == [kind |-> "none"]
NoEvent == [type |-> "none"]
RecoverRuns == [kind |-> "recover"]

Down == [at |-> "down", build |-> 0, next |-> 0, writable |-> FALSE,
         op |-> NoOp, tx |-> NoTx]

Init ==
  /\ applied = <<>>
  /\ plans = {}
  /\ runs = [r \in RunId |-> "none"]
  /\ events = <<>>
  /\ damage = "none"
  /\ lock = None
  /\ proc = [p \in Process |-> Down]
  /\ late = [p \in Process |-> 0]

-----------------------------------------------------------------------------
(* The chain of events.                                                    *)

Content(type, subject, from, to) ==
  [type |-> type, subject |-> subject, from |-> from, to |-> to]

Digest(previous, content) == Append(previous, content)
Genesis == <<>>

Tip(chain) == IF chain = <<>> THEN Genesis ELSE Last(chain).digest

\* The event append() inserts, within the transaction of its caller.
Appended(chain, content) ==
  [sequence |-> Len(chain) + 1, content |-> content,
   previous |-> Tip(chain), digest |-> Digest(Tip(chain), content)]

\* verifyAuditChain()
ChainValid(chain) ==
  \A i \in DOMAIN chain :
    /\ chain[i].sequence = i
    /\ chain[i].previous = Tip(SubSeq(chain, 1, i - 1))
    /\ chain[i].digest = Digest(chain[i].previous, chain[i].content)

\* What "health" finds each time it is asked: quick_check and the chain.
Healthy == damage # "pages" /\ ChainValid(events)

-----------------------------------------------------------------------------
(* open() and the start of the application.                                *)

To(p, at) == proc' = [proc EXCEPT ![p].at = at]

Start(p) ==
  /\ proc[p].at = "down"
  /\ \E build \in Builds :
       proc' = [proc EXCEPT ![p].at = "migrating", ![p].build = build]
  /\ UNCHANGED <<applied, tables, damage, lock, late>>

Missing(p) == {v \in 1 .. proc[p].build : v \notin Range(applied)}

\* migrateDatabase() looks up each version outside of any transaction.
LookUpMigration(p) ==
  /\ proc[p].at = "migrating"
  /\ IF Missing(p) = {}
     THEN To(p, "verifying")
     ELSE \E v \in Missing(p) :
            /\ \A w \in Missing(p) : v <= w
            /\ proc' = [proc EXCEPT ![p].at = "applying", ![p].next = v]
  /\ UNCHANGED <<applied, tables, damage, lock, late>>

\* openRecovery(), which a file that is no database makes throw as well.
OpenRecovery(p) ==
  \/ proc' = [proc EXCEPT ![p].at = "up", ![p].next = 0]
  \/ damage = "pages" /\ proc' = [proc EXCEPT ![p] = Down]

\* Mutant of ApplyMigration: a migration another process has applied since it
\* was looked up is applied again.
ApplyMigration_Again(p) ==
  /\ proc[p].at = "applying" /\ lock = None
  /\ applied' = Append(applied, proc[p].next)
  /\ proc' = [proc EXCEPT ![p].at = "migrating", ![p].next = 0]
  /\ UNCHANGED <<tables, damage, lock, late>>

\* BEGIN IMMEDIATE, the migration and its record.  What another process has
\* applied since cannot be created again: the process is left with reading.
ApplyMigration(p) ==
  /\ proc[p].at = "applying" /\ lock = None
  /\ IF proc[p].next \in Range(applied)
     THEN OpenRecovery(p) /\ UNCHANGED applied
     ELSE /\ applied' = Append(applied, proc[p].next)
          /\ proc' = [proc EXCEPT ![p].at = "migrating", ![p].next = 0]
  /\ UNCHANGED <<tables, damage, lock, late>>

\* A statement of open() throws: the pages cannot be read, or the write lock
\* is not to be had within five seconds.
OpenFails(p) ==
  /\ \/ damage = "pages" /\ proc[p].at \in {"migrating", "applying"}
     \/ lock # None /\ proc[p].at = "applying"
  /\ OpenRecovery(p)
  /\ UNCHANGED <<applied, tables, damage, lock, late>>

VerifyOnOpen(p) ==
  /\ proc[p].at = "verifying"
  /\ IF Healthy
     THEN proc' = [proc EXCEPT ![p].at = "opened", ![p].writable = TRUE]
     ELSE OpenRecovery(p)
  /\ UNCHANGED <<applied, tables, damage, lock, late>>

\* The application recovers the running runs before anything else.
BeginRecoverRuns(p) ==
  /\ proc[p].at = "opened"
  /\ IF Healthy
     THEN proc' = [proc EXCEPT ![p].at = "cleared", ![p].op = RecoverRuns]
     ELSE To(p, "up")
  /\ UNCHANGED <<applied, tables, damage, lock, late>>

-----------------------------------------------------------------------------
(* The mutations.                                                          *)

Mutation ==
  [kind : {"preview", "run"}, run : RunId]
    \cup [kind : {"status"}, run : RunId, to : RunStatus \ {"none"}]
    \cup {[kind |-> "purge"]}

\* Constraints of the tables and checks within the transaction.
Refused(op) ==
  CASE op.kind = "preview" -> op.run \in plans
    [] op.kind = "run" -> op.run \notin plans \/ runs[op.run] # "none"
    [] op.kind = "status" -> op.to \notin RunSuccessors(runs[op.run])
    [] OTHER -> FALSE

\* The event of a mutation; a purge that finds nothing is not told, and the
\* recovery of running runs tells each of them (RecoverRow).
EventOf(op) ==
  CASE op.kind = "preview" -> Content("preview", op.run, "none", "none")
    [] op.kind = "run" -> Content("run", op.run, "none", "planned")
    [] op.kind = "status" -> Content("status", op.run, runs[op.run], op.to)
    [] op.kind = "purge" /\ plans # {} -> Content("purge", None, "none", "none")
    [] OTHER -> NoEvent

RunsAfter(op) ==
  CASE op.kind = "run" -> [runs EXCEPT ![op.run] = "planned"]
    [] op.kind = "status" -> [runs EXCEPT ![op.run] = op.to]
    [] op.kind = "purge" -> [r \in RunId |-> "none"]
    [] OTHER -> runs

PlansAfter(op) ==
  CASE op.kind = "preview" -> plans \cup {op.run}
    [] op.kind = "purge" -> {}
    [] OTHER -> plans

\* Mutant of Request: health is what it was when the file was opened.
Request_Cached(p, op) ==
  /\ proc[p].at = "up" /\ proc[p].writable
  /\ Len(events) < MaxEvents
  /\ proc' = [proc EXCEPT ![p].at = "cleared", ![p].op = op]
  /\ UNCHANGED <<applied, tables, damage, lock, late>>

\* #assertWritable()
Request(p, op) ==
  /\ proc[p].at = "up" /\ proc[p].writable
  /\ Healthy
  /\ Len(events) < MaxEvents
  /\ proc' = [proc EXCEPT ![p].at = "cleared", ![p].op = op]
  /\ UNCHANGED <<applied, tables, damage, lock, late>>

\* What the transaction of a mutation will leave, but for RecoverRow: the
\* tables and the events it inserts.
After(op) ==
  [plans |-> PlansAfter(op), runs |-> RunsAfter(op),
   told |-> IF EventOf(op) = NoEvent THEN <<>>
            ELSE <<Appended(events, EventOf(op))>>]

\* Mutant of Begin: a transaction that does not take the write lock.
Begin_Deferred(p) ==
  /\ proc[p].at = "cleared" /\ ~Refused(proc[p].op)
  /\ lock' = p
  /\ proc' = [proc EXCEPT ![p].at = "writing", ![p].tx = After(proc[p].op)]
  /\ UNCHANGED <<applied, tables, damage, late>>

\* BEGIN IMMEDIATE and the statements of the transaction, which nobody else
\* sees yet.
Begin(p) ==
  /\ proc[p].at = "cleared" /\ lock = None /\ ~Refused(proc[p].op)
  /\ lock' = p
  /\ proc' = [proc EXCEPT ![p].at = "writing", ![p].tx = After(proc[p].op)]
  /\ UNCHANGED <<applied, tables, damage, late>>

\* The running runs a recovery has still to mark.
Unrecovered(p) ==
  {r \in RunId : proc[p].op = RecoverRuns /\ proc[p].tx.runs[r] = "running"}

\* Mutant of RecoverRow: the recovered run is not told.
RecoverRow_Silent(p) ==
  /\ proc[p].at = "writing"
  /\ \E r \in Unrecovered(p) :
       proc' = [proc EXCEPT ![p].tx.runs[r] = "orphaned"]
  /\ UNCHANGED <<applied, tables, damage, lock, late>>

\* The loop of recoverRunningRuns().
RecoverRow(p) ==
  /\ proc[p].at = "writing"
  /\ \E r \in Unrecovered(p) :
       proc' = [proc EXCEPT
                  ![p].tx.runs[r] = "orphaned",
                  ![p].tx.told = Append(@, Appended(events \o @,
                     Content("status", r, "running", "orphaned")))]
  /\ UNCHANGED <<applied, tables, damage, lock, late>>

\* A mutation that throws; the start of the application does not survive it.
Thrown(p) ==
  proc' = [proc EXCEPT ![p] =
             IF @.op = RecoverRuns THEN Down
             ELSE [@ EXCEPT !.at = "up", !.op = NoOp, !.tx = NoTx]]

\* The lock is not to be had in time, or the transaction refuses the mutation.
Refuse(p) ==
  /\ proc[p].at = "cleared"
  /\ lock # None \/ Refused(proc[p].op)
  /\ Thrown(p)
  /\ UNCHANGED <<applied, tables, damage, lock, late>>

Commit(p) ==
  /\ proc[p].at = "writing" /\ Unrecovered(p) = {}
  /\ plans' = proc[p].tx.plans
  /\ runs' = proc[p].tx.runs
  /\ events' = events \o proc[p].tx.told
  /\ lock' = None
  /\ late' = IF Healthy THEN late ELSE [late EXCEPT ![p] = @ + 1]
  /\ proc' = [proc EXCEPT ![p].at = "up", ![p].op = NoOp, ![p].tx = NoTx]
  /\ UNCHANGED <<applied, damage>>

\* A statement of the transaction or its COMMIT fails.
Rollback(p) ==
  /\ proc[p].at = "writing"
  /\ lock' = None
  /\ Thrown(p)
  /\ UNCHANGED <<applied, tables, damage, late>>

\* close(), or the death of the process, of which SQLite rolls back the rest.
Leave(p) ==
  /\ proc[p].at # "down"
  /\ proc' = [proc EXCEPT ![p] = Down]
  /\ lock' = IF lock = p THEN None ELSE lock
  /\ UNCHANGED <<applied, tables, damage, late>>

-----------------------------------------------------------------------------
(* What is done to the file from outside, once.                            *)

Rot ==
  /\ damage = "none"
  /\ damage' = "pages"
  /\ UNCHANGED <<applied, tables, lock, proc, late>>

\* With the triggers of audit_events dropped, an event is rewritten, or the
\* last one removed, which leaves a valid chain.
Tamper ==
  /\ damage = "none" /\ lock = None /\ events # <<>>
  /\ \/ /\ damage' = "rewritten"
        /\ \E i \in DOMAIN events :
             events' = [events EXCEPT ![i].content.type = "forged"]
     \/ /\ damage' = "cut"
        /\ events' = Front(events)
  /\ UNCHANGED <<applied, plans, runs, lock, proc, late>>

-----------------------------------------------------------------------------
Open(p) ==
  \/ Start(p) \/ LookUpMigration(p) \/ ApplyMigration(p) \/ OpenFails(p)
  \/ VerifyOnOpen(p) \/ BeginRecoverRuns(p)

Write(p) ==
  \/ \E op \in Mutation : Request(p, op)
  \/ Begin(p) \/ Refuse(p) \/ RecoverRow(p) \/ Commit(p) \/ Rollback(p)

Next ==
  \/ \E p \in Process : Open(p) \/ Write(p) \/ Leave(p)
  \/ Rot \/ Tamper

Spec == Init /\ [][Next]_vars

-----------------------------------------------------------------------------
(* Properties.                                                             *)

\* The chain of events is whole in every state two writers, crashes and
\* rollbacks can bring about, unless an event was rewritten from outside.
ChainIsWhole == damage # "rewritten" => ChainValid(events)

\* What somebody who reads an event takes the tables to hold after it.
Untold == [plans |-> {}, runs |-> [r \in RunId |-> "none"]]

Telling(state, event) ==
  LET c == event.content IN
  CASE c.type = "preview" -> [state EXCEPT !.plans = @ \cup {c.subject}]
    [] c.type = "purge" -> Untold
    [] c.type = "run" /\ state.runs[c.subject] = "none" ->
         [state EXCEPT !.runs[c.subject] = c.to]
    [] c.type = "status" /\ state.runs[c.subject] = c.from
         /\ c.to \in RunSuccessors(c.from) ->
         [state EXCEPT !.runs[c.subject] = c.to]
    [] OTHER -> [state EXCEPT !.plans = {"not allowed"}]

Replay(chain) == FoldLeft(Telling, Untold, chain)

\* "Each functional mutation and its event are confirmed in one transaction"
\* (docs/security/security-architecture.md): what the events tell, replayed
\* from the first, is exactly what the tables hold, and every step of it is
\* allowed.
TrailTellsState ==
  damage \in {"none", "pages"} =>
    Replay(events) = [plans |-> plans, runs |-> runs]

\* Every migration is applied once and in its place, however many processes
\* start at the same time, and whoever may write has all it knows applied.
MigrationsApplyOnce ==
  /\ \A i \in DOMAIN applied : applied[i] = i
  /\ \A p \in Process :
       proc[p].writable => 1 .. proc[p].build \subseteq Range(applied)

\* "Writes fail closed": once the pages are damaged or the chain is broken a
\* process commits at most the one mutation it had already been cleared for.
DamageStopsWriting == \A p \in Process : late[p] <= 1

=============================================================================

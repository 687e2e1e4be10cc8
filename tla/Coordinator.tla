------------------------------- MODULE Coordinator -------------------------------
(***************************************************************************)
(* The session of the desktop's main process                               *)
(* (apps/desktop/src/main/workspace-coordinator.ts): the open workspace,   *)
(* its previews, the executions it shows and the approvals it asked for,   *)
(* with the rows of the store that purging deletes.  The runtime appears   *)
(* as what it answers to execute() and cancel(); Runtime models it.        *)
(*                                                                         *)
(* Handlers run to their end without an await, but for the one that asks   *)
(* before it deletes (apps/desktop/src/main/index.ts), and the             *)
(* continuation of execute() runs before any other handler, so each is one *)
(* action.  The reads (history, audit, status, export) change nothing and  *)
(* are left out.                                                           *)
(***************************************************************************)
EXTENDS Naturals

CONSTANTS
  Workspace,
  Plan,
  Run,
  Approval,
  NoOne,      \* no workspace, no plan
  MaxCrash,   \* bound on the crashes of the process
  Faults      \* whether the store may stop accepting writes

ASSUME CoordinatorAssumption ==
  /\ NoOne \notin Workspace \cup Plan
  /\ MaxCrash \in Nat
  /\ Faults \in BOOLEAN

VARIABLES
  session,    \* the key of #sessions
  preview,    \* #previews: the workspace of each plan held in memory
  run,        \* #runs: plan and shown status of each run held in memory
  approval,   \* #approvalWorkspaces
  asked,      \* the workspace whose deletion a dialog asks to confirm; one
              \* dialog at a time
  executing,  \* runs that are in activeRuns of their session's runtime
  \* the store
  planRow,    \* the workspace of each plan that has rows
  aged,       \* plans whose rows are older than the retention
  runRow,     \* plan and status of each run that has a row
  approvalRow, \* plan and status of each approval that has a row
  retained,   \* workspaces with a saved retention
  writable,   \* whether the store accepts writes
  used,       \* plans, runs and approvals that already got their random id
  crashes

memory == <<session, preview, run, approval>>
rows == <<planRow, aged, runRow, approvalRow, retained>>
vars == <<memory, asked, executing, rows, writable, used, crashes>>

Live == {"running", "cancelling"}
\* The last statuses of a row; the result of an orphaned run may say more.
EndedRow == {"completed", "failed", "cancelled", "timed_out", "orphaned"}
Ended == EndedRow \cup {"remote_state_unknown"}
Refused == {"blocked", "denied", "approval_required"}

Absent == [plan |-> NoOne, status |-> "none"]

Shown == {r \in Run : run[r] # Absent}
IsLive(r) == run[r].status \in Live

Init ==
  /\ session = NoOne
  /\ preview = [p \in Plan |-> NoOne]
  /\ run = [r \in Run |-> Absent]
  /\ approval = [a \in Approval |-> NoOne]
  /\ asked = NoOne
  /\ executing = {}
  /\ planRow = [p \in Plan |-> NoOne]
  /\ aged = {}
  /\ runRow = [r \in Run |-> Absent]
  /\ approvalRow = [a \in Approval |-> Absent]
  /\ retained = {}
  /\ writable = TRUE
  /\ used = {}
  /\ crashes = 0

NothingLive == \A r \in Shown : ~IsLive(r)

-----------------------------------------------------------------------------
(* Purging: rows of a workspace that are old enough, in one transaction,   *)
(* which writes nothing when there is nothing to delete.                   *)

\* Mutant of Purge: the table of approvals is forgotten.
Purge_KeepsApprovals(gone) ==
  /\ gone # {} => writable
  /\ planRow' = [p \in Plan |-> IF p \in gone THEN NoOne ELSE planRow[p]]
  /\ aged' = aged \ gone
  /\ runRow' = [r \in Run |-> IF runRow[r].plan \in gone THEN Absent
                              ELSE runRow[r]]
  /\ UNCHANGED approvalRow

Purge(gone) ==
  /\ gone # {} => writable
  /\ planRow' = [p \in Plan |-> IF p \in gone THEN NoOne ELSE planRow[p]]
  /\ aged' = aged \ gone
  /\ runRow' = [r \in Run |-> IF runRow[r].plan \in gone THEN Absent
                              ELSE runRow[r]]
  /\ approvalRow' = [a \in Approval |->
       IF approvalRow[a].plan \in gone THEN Absent ELSE approvalRow[a]]

Of(w, plans) == {p \in plans : planRow[p] = w}

-----------------------------------------------------------------------------
(* Workspaces, previews and privacy.                                       *)

\* Mutant of ForgetSession: approvals of the old session stay decidable.
ForgetSession_KeepsApprovals ==
  /\ preview' = [p \in Plan |-> NoOne]
  /\ run' = [r \in Run |-> Absent]
  /\ UNCHANGED approval

\* A new session forgets what the old one held.
ForgetSession ==
  /\ preview' = [p \in Plan |-> NoOne]
  /\ run' = [r \in Run |-> Absent]
  /\ approval' = [a \in Approval |-> NoOne]

\* What a saved retention deletes when its workspace is opened; nothing when
\* the store refuses privileged actions.
PurgeOnOpen(w) ==
  \/ /\ writable
     /\ Purge(IF w \in retained THEN Of(w, aged) ELSE {})
  \/ /\ ~writable
     /\ Purge({})

\* Mutant of OpenWorkspace: the session changes under a live execution.
OpenWorkspace_Unchecked(w) ==
  /\ PurgeOnOpen(w)
  /\ session' = w
  /\ ForgetSession
  /\ UNCHANGED <<asked, executing, retained, writable, used, crashes>>

\* The purge comes first: a folder that cannot be opened leaves the session.
OpenWorkspace(w) ==
  /\ NothingLive
  /\ PurgeOnOpen(w)
  /\ \/ /\ session' = w
        /\ ForgetSession
     \/ UNCHANGED memory
  /\ UNCHANGED <<asked, executing, retained, writable, used, crashes>>

Preview(p) ==
  /\ session # NoOne /\ p \notin used
  /\ writable
  /\ planRow' = [planRow EXCEPT ![p] = session]
  /\ preview' = [preview EXCEPT ![p] = session]
  /\ used' = used \cup {p}
  /\ UNCHANGED <<session, run, approval, asked, executing, aged, runRow,
                 approvalRow, retained, writable, crashes>>

\* Two transactions: a purge, then the setting, which may still be refused.
SaveRetention(days) ==
  /\ session # NoOne /\ NothingLive
  /\ Purge(Of(session, days))
  /\ \/ writable /\ retained' = retained \cup {session}
     \/ Faults /\ UNCHANGED retained
  /\ UNCHANGED <<memory, asked, executing, writable, used, crashes>>

\* The handler of the deletion opens a dialog and awaits its answer.
AskToDelete(w) ==
  /\ w = session /\ asked = NoOne
  /\ asked' = w
  /\ UNCHANGED <<memory, executing, rows, writable, used, crashes>>

\* The answer is no, or deleteWorkspaceData() throws before it deletes.
NothingDeleted ==
  /\ asked # NoOne
  /\ asked' = NoOne
  /\ UNCHANGED <<memory, executing, rows, writable, used, crashes>>

\* Mutant of DeleteWorkspaceData: what is open when the answer comes is deleted.
DeleteWorkspaceData_Open(w) ==
  /\ w = asked /\ session # NoOne /\ NothingLive
  /\ asked' = NoOne
  /\ Purge(Of(session, Plan))
  /\ preview' = [p \in Plan |-> NoOne]
  /\ run' = [r \in Run |-> Absent]
  /\ UNCHANGED <<session, approval, executing, retained, writable, used,
                 crashes>>

\* The answer is yes, whatever has been opened, started or purged meanwhile.
\* Every preview and run is forgotten; the approvals of the session are not.
DeleteWorkspaceData(w) ==
  /\ w = asked /\ w = session /\ NothingLive
  /\ asked' = NoOne
  /\ Purge(Of(w, Plan))
  /\ preview' = [p \in Plan |-> NoOne]
  /\ run' = [r \in Run |-> Absent]
  /\ UNCHANGED <<session, approval, executing, retained, writable, used,
                 crashes>>

-----------------------------------------------------------------------------
(* Executions.                                                             *)

\* What is shown when execute() rejects, or when its result cannot be
\* evaluated, recorded or parsed: the last status of the row if it has one.
\* A store that cannot even be read, which shows "failed", is left out.
Rejected(row) == IF row \in EndedRow THEN row ELSE "failed"

\* Mutant of Presented: a result that cannot be shown passes for a success.
Presented_Optimistic(row, result, ok) ==
  IF ok THEN result ELSE "completed"

Presented(row, result, ok) == IF ok THEN result ELSE Rejected(row)

\* execute() runs up to its first await: it is refused without a row, it
\* throws (with a row that never ran, or none), or it has a running row.
StartExecution(r, p) ==
  LET Enter(shown, row) ==
        /\ run' = [run EXCEPT ![r] = [plan |-> p, status |-> shown]]
        /\ runRow' = IF row = "none" THEN runRow
                     ELSE [runRow EXCEPT ![r] = [plan |-> p, status |-> row]]
        /\ row # "none" => planRow[p] # NoOne /\ writable
        /\ executing' = IF row = "running" THEN executing \cup {r}
                        ELSE executing
  IN /\ r \notin used
     /\ preview[p] # NoOne /\ preview[p] = session
     /\ \A q \in Shown : run[q].plan = p => ~IsLive(q)
     /\ used' = used \cup {r}
     /\ \/ \E status \in Refused : Enter(status, "none")
        \/ \E row \in {"none", "planned"} : Enter(Rejected(row), row)
        \/ Enter("running", "running")
     /\ UNCHANGED <<session, preview, approval, asked, planRow, aged,
                    approvalRow, retained, writable, crashes>>

\* execute() ends: the row got its last status, which is the result's unless
\* the remote state is unknown, or the write was refused and execute()
\* rejected with the row still running.
ExecutionEnds(r, row, result, ok) ==
  /\ r \in executing
  /\ \/ row \in EndedRow /\ writable
     \/ row = "running" /\ ~writable /\ ~ok
  /\ \/ result = row
     \/ result = "remote_state_unknown" /\ row = "orphaned"
  /\ executing' = executing \ {r}
  /\ runRow' = [runRow EXCEPT ![r].status = row]
  /\ run' = [run EXCEPT ![r].status = Presented(row, result, ok)]
  /\ UNCHANGED <<session, preview, approval, asked, planRow, aged, approvalRow,
                 retained, writable, used, crashes>>

\* cancel() is accepted by a run that executes.  It writes only for an attempt
\* of a provider that is live: it throws, and nothing changes, if the store
\* refuses that write, and otherwise it needs no store.
CancelExecution(r) ==
  /\ r \in Shown /\ r \in executing
  /\ run' = [run EXCEPT ![r].status = "cancelling"]
  /\ UNCHANGED <<session, preview, approval, asked, executing, rows, writable,
                 used, crashes>>

-----------------------------------------------------------------------------
(* Approvals.                                                              *)

RequestApproval(a, p) ==
  /\ a \notin used
  /\ preview[p] # NoOne /\ preview[p] = session
  /\ planRow[p] # NoOne /\ writable
  /\ approval' = [approval EXCEPT ![a] = session]
  /\ approvalRow' = [approvalRow EXCEPT ![a] =
                     [plan |-> p, status |-> "pending"]]
  /\ used' = used \cup {a}
  /\ UNCHANGED <<session, preview, run, asked, executing, planRow, aged,
                 runRow, retained, writable, crashes>>

\* Mutant of DecideApproval: whose approval it is is not checked.
DecideApproval_Anyones(a) ==
  /\ session # NoOne
  /\ approvalRow[a].status = "pending" /\ writable
  /\ approvalRow' = [approvalRow EXCEPT ![a].status = "decided"]
  /\ UNCHANGED <<memory, asked, executing, planRow, aged, runRow, retained,
                 writable, used, crashes>>

DecideApproval(a) ==
  /\ session # NoOne /\ approval[a] = session
  /\ approvalRow[a].status = "pending" /\ writable
  /\ approvalRow' = [approvalRow EXCEPT ![a].status = "decided"]
  /\ UNCHANGED <<memory, asked, executing, planRow, aged, runRow, retained,
                 writable, used, crashes>>

-----------------------------------------------------------------------------
(* The world.                                                              *)

Age(p) ==
  /\ planRow[p] # NoOne /\ p \notin aged
  /\ aged' = aged \cup {p}
  /\ UNCHANGED <<memory, asked, executing, planRow, runRow, approvalRow,
                 retained, writable, used, crashes>>

StoreChanges ==
  /\ Faults
  /\ writable' = ~writable
  /\ UNCHANGED <<memory, asked, executing, rows, used, crashes>>

\* The process dies and starts again; recovery orphans the running runs.
Restart ==
  /\ crashes < MaxCrash
  /\ crashes' = crashes + 1
  /\ session' = NoOne
  /\ preview' = [p \in Plan |-> NoOne]
  /\ run' = [r \in Run |-> Absent]
  /\ approval' = [a \in Approval |-> NoOne]
  /\ asked' = NoOne
  /\ executing' = {}
  /\ runRow' = [r \in Run |-> IF runRow[r].status = "running"
                              THEN [runRow[r] EXCEPT !.status = "orphaned"]
                              ELSE runRow[r]]
  /\ writable' = TRUE
  /\ UNCHANGED <<planRow, aged, approvalRow, retained, used>>

-----------------------------------------------------------------------------
Next ==
  \/ \E w \in Workspace : OpenWorkspace(w)
  \/ \E p \in Plan : Preview(p)
  \/ \E days \in {aged, {}} : SaveRetention(days)
  \/ \E w \in Workspace : AskToDelete(w) \/ DeleteWorkspaceData(w)
  \/ NothingDeleted
  \/ \E r \in Run, p \in Plan : StartExecution(r, p)
  \/ \E r \in Run, row \in EndedRow \cup {"running"},
        result \in Ended \cup {"running"}, ok \in BOOLEAN :
       ExecutionEnds(r, row, result, ok)
  \/ \E r \in Run : CancelExecution(r)
  \/ \E a \in Approval, p \in Plan : RequestApproval(a, p)
  \/ \E a \in Approval : DecideApproval(a)
  \/ \E p \in Plan : Age(p)
  \/ StoreChanges
  \/ Restart

Spec == Init /\ [][Next]_vars

-----------------------------------------------------------------------------
(* Properties.                                                             *)

\* What executes is what the session shows as live: an execution can always be
\* seen and cancelled, and nothing is shown as live that has ended.
LiveMeansExecuting == executing = {r \in Shown : IsLive(r)}

\* Everything the session holds belongs to its workspace.
SessionIsOfOneWorkspace ==
  /\ \A p \in Plan : preview[p] \in {NoOne, session}
  /\ \A r \in Shown : planRow[run[r].plan] \in {NoOne, session}
  /\ \A a \in Approval : approval[a] \in {NoOne, session}

\* No purge takes the rows of an execution from under it, and none leaves rows
\* that belong to a plan it deleted.
PurgeIsWhole ==
  /\ \A r \in executing : runRow[r].status = "running"
  /\ \A r \in Run : runRow[r] # Absent => planRow[runRow[r].plan] # NoOne
  /\ \A a \in Approval :
       approvalRow[a] # Absent => planRow[approvalRow[a].plan] # NoOne

\* A run shown as ended did end in that way, unless its row has been purged
\* since; an unknown remote state belongs to an orphaned run.  "failed" is also
\* shown for a run that never ran or whose end could not be recorded.
ShownAsItEnded ==
  \A r \in Shown :
    LET shown == run[r].status  row == runRow[r].status
    IN /\ shown \in EndedRow \ {"failed"} => row \in {shown, "none"}
       /\ shown = "remote_state_unknown" => row \in {"orphaned", "none"}
       /\ shown = "failed" => row \in {"failed", "planned", "running", "none"}

\* A person decides only approvals of the workspace on the screen, and what is
\* deleted before its time was asked about and is of that workspace too, however
\* long the dialog was open.
DecisionsAreOfTheSession ==
  [][/\ \A a \in Approval :
          /\ approvalRow[a].status = "pending"
          /\ approvalRow'[a].status = "decided"
          => planRow[approvalRow[a].plan] = session
     /\ \A p \in Plan \ aged :
          planRow[p] # NoOne /\ planRow'[p] = NoOne =>
            planRow[p] = session /\ session = asked]_vars

=============================================================================

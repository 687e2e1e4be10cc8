--------------------------- MODULE CoordinatorProofs ---------------------------
(***************************************************************************)
(* Proofs about the session of the desktop's main process, for every set   *)
(* of workspaces, plans, runs and approvals, every number of restarts and  *)
(* whether or not the store may refuse to write.                           *)
(***************************************************************************)
EXTENDS Coordinator, TLAPS

-----------------------------------------------------------------------------
(* The inductive invariant                                                 *)

Status == {"none", "planned"} \cup Live \cup Ended \cup Refused

CoordinatorTypes ==
  /\ session \in Workspace \cup {NoOne}
  /\ preview \in [Plan -> Workspace \cup {NoOne}]
  /\ run \in [Run -> [plan : Plan \cup {NoOne}, status : Status]]
  /\ approval \in [Approval -> Workspace \cup {NoOne}]
  /\ asked \in Workspace \cup {NoOne}
  /\ executing \subseteq Run
  /\ planRow \in [Plan -> Workspace \cup {NoOne}]
  /\ aged \subseteq Plan
  /\ runRow \in [Run -> [plan : Plan \cup {NoOne}, status : Status]]
  /\ approvalRow \in [Approval -> [plan : Plan \cup {NoOne},
                                   status : {"none", "pending", "decided"}]]

\* Every row, in memory or in the store, is of a plan.
RowsHavePlans ==
  /\ \A r \in Run : run[r] # Absent => run[r].plan \in Plan
  /\ \A r \in Run : runRow[r] # Absent => runRow[r].plan \in Plan
  /\ \A a \in Approval : approvalRow[a] # Absent => approvalRow[a].plan \in Plan

\* What has been shown, executed or written has its id: a new run or preview
\* meets nothing of an earlier one.
IdsAreUsed ==
  /\ \A r \in Run :
       run[r] # Absent \/ runRow[r] # Absent \/ r \in executing => r \in used
  /\ \A p \in Plan : planRow[p] # NoOne => p \in used

\* The previews and approvals of the session are of the plans' workspace.
RowsOfTheSession ==
  /\ \A p \in Plan : preview[p] # NoOne => planRow[p] \in {NoOne, preview[p]}
  /\ \A a \in Approval :
       approval[a] # NoOne /\ approvalRow[a] # Absent =>
         planRow[approvalRow[a].plan] = approval[a]

CoordinatorInv ==
  /\ CoordinatorTypes /\ RowsHavePlans /\ IdsAreUsed /\ RowsOfTheSession
  /\ LiveMeansExecuting /\ SessionIsOfOneWorkspace /\ PurgeIsWhole
  /\ ShownAsItEnded

\* A record that is not the absent one says so in its fields.
LEMMA AbsentFields ==
  /\ Absent.plan = NoOne /\ Absent.status = "none"
  /\ Absent \in [plan : Plan \cup {NoOne}, status : Status]
  /\ Absent \in [plan : Plan \cup {NoOne},
                 status : {"none", "pending", "decided"}]
BY DEF Absent, Status

\* When nothing live is shown nothing executes.
LEMMA NothingExecutes ==
  ASSUME LiveMeansExecuting, NothingLive
  PROVE  executing = {}
BY DEF LiveMeansExecuting, NothingLive

\* What a purge leaves in the store.
LEMMA Purged ==
  ASSUME CoordinatorInv, NEW gone \in SUBSET Plan, Purge(gone)
  PROVE  /\ \A p \in Plan :
              planRow'[p] = IF p \in gone THEN NoOne ELSE planRow[p]
         /\ \A r \in Run : runRow'[r] =
              IF runRow[r].plan \in gone THEN Absent ELSE runRow[r]
         /\ \A a \in Approval : approvalRow'[a] =
              IF approvalRow[a].plan \in gone THEN Absent ELSE approvalRow[a]
         /\ planRow' \in [Plan -> Workspace \cup {NoOne}]
         /\ runRow' \in [Run -> [plan : Plan \cup {NoOne}, status : Status]]
         /\ approvalRow' \in [Approval -> [plan : Plan \cup {NoOne},
                                   status : {"none", "pending", "decided"}]]
         /\ aged' \subseteq Plan
BY AbsentFields DEF Purge, CoordinatorInv, CoordinatorTypes

\* A purge while nothing executes, with the session kept, its previews and
\* runs forgotten, or replaced.
LEMMA PurgingKeeps ==
  ASSUME CoordinatorInv, NothingLive, NEW gone \in SUBSET Plan, Purge(gone),
         UNCHANGED <<executing, used>>,
         session' \in Workspace \cup {NoOne}, asked' \in Workspace \cup {NoOne},
         \/ UNCHANGED memory
         \/ /\ preview' = [p \in Plan |-> NoOne]
            /\ run' = [r \in Run |-> Absent]
            /\ \/ UNCHANGED <<session, approval>>
               \/ approval' = [a \in Approval |-> NoOne]
  PROVE  CoordinatorInv'
<1> USE DEF CoordinatorInv
<1>1. executing = {} /\ executing' = {} /\ NoOne \notin Plan
  BY NothingExecutes, CoordinatorAssumption
<1>2. /\ \A r \in Run : run'[r] = run[r] \/ run'[r] = Absent
      /\ \A r \in Run : run'[r] # Absent =>
           run'[r] = run[r] /\ session' = session
      /\ \A p \in Plan : preview'[p] # NoOne =>
           preview'[p] = preview[p] /\ session' = session
      /\ \A a \in Approval : approval'[a] # NoOne =>
           approval'[a] = approval[a] /\ session' = session
  BY DEF memory, CoordinatorTypes
<1>3. CoordinatorTypes'
  <2>1. /\ run' \in [Run -> [plan : Plan \cup {NoOne}, status : Status]]
        /\ preview' \in [Plan -> Workspace \cup {NoOne}]
        /\ approval' \in [Approval -> Workspace \cup {NoOne}]
    BY AbsentFields DEF memory, CoordinatorTypes
  <2> QED BY <1>1, <2>1, Purged DEF CoordinatorTypes
<1>4. RowsHavePlans'
  BY <1>2, Purged DEF RowsHavePlans
<1>5. IdsAreUsed'
  BY <1>1, <1>2, Purged DEF IdsAreUsed
<1>6. RowsOfTheSession'
  <2>1. ASSUME NEW p \in Plan, preview'[p] # NoOne
        PROVE  planRow'[p] \in {NoOne, preview'[p]}
    BY <1>2, <2>1, Purged DEF RowsOfTheSession
  <2>2. ASSUME NEW a \in Approval, approval'[a] # NoOne,
               approvalRow'[a] # Absent
        PROVE  planRow'[approvalRow'[a].plan] = approval'[a]
    BY <1>2, <2>2, Purged DEF RowsOfTheSession, RowsHavePlans
  <2> QED BY <2>1, <2>2 DEF RowsOfTheSession
<1>7. LiveMeansExecuting'
  BY <1>1, <1>2 DEF LiveMeansExecuting, Shown, IsLive
<1>8. SessionIsOfOneWorkspace'
  <2>1. \A p \in Plan : preview'[p] \in {NoOne, session'}
    BY <1>2 DEF SessionIsOfOneWorkspace
  <2>2. ASSUME NEW r \in Run, run'[r] # Absent
        PROVE  planRow'[run'[r].plan] \in {NoOne, session'}
    BY <1>2, <2>2, Purged DEF SessionIsOfOneWorkspace, RowsHavePlans, Shown
  <2>3. \A a \in Approval : approval'[a] \in {NoOne, session'}
    BY <1>2 DEF SessionIsOfOneWorkspace
  <2> QED BY <2>1, <2>2, <2>3 DEF SessionIsOfOneWorkspace, Shown
<1>9. PurgeIsWhole'
  <2>1. ASSUME NEW r \in Run, runRow'[r] # Absent
        PROVE  planRow'[runRow'[r].plan] # NoOne
    BY <2>1, Purged DEF PurgeIsWhole, RowsHavePlans
  <2>2. ASSUME NEW a \in Approval, approvalRow'[a] # Absent
        PROVE  planRow'[approvalRow'[a].plan] # NoOne
    BY <2>2, Purged DEF PurgeIsWhole, RowsHavePlans
  <2> QED BY <1>1, <2>1, <2>2 DEF PurgeIsWhole
<1>10. ShownAsItEnded'
  <2> SUFFICES ASSUME NEW r \in Run, run'[r] # Absent
               PROVE  LET shown == run'[r].status  row == runRow'[r].status
                      IN /\ shown \in EndedRow \ {"failed"} =>
                              row \in {shown, "none"}
                         /\ shown = "remote_state_unknown" =>
                              row \in {"orphaned", "none"}
                         /\ shown = "failed" =>
                              row \in {"failed", "planned", "running", "none"}
    BY DEF ShownAsItEnded, Shown
  <2>1. run'[r] = run[r]
    BY <1>2
  <2>2. runRow'[r].status = runRow[r].status \/ runRow'[r].status = "none"
    BY Purged, AbsentFields
  <2> QED BY <2>1, <2>2 DEF ShownAsItEnded, Shown
<1> QED BY <1>3, <1>4, <1>5, <1>6, <1>7, <1>8, <1>9, <1>10

\* A preview takes a new id, of the session's workspace.
LEMMA PreviewKeeps ==
  ASSUME CoordinatorInv, NEW p \in Plan, Preview(p)
  PROVE  CoordinatorInv'
<1> USE DEF CoordinatorInv
<1>1. /\ UNCHANGED <<session, run, approval, asked, executing, aged, runRow,
                     approvalRow>>
      /\ session # NoOne /\ p \notin used /\ used' = used \cup {p}
      /\ planRow'[p] = session /\ preview'[p] = session
      /\ \A x \in Plan \ {p} :
           planRow'[x] = planRow[x] /\ preview'[x] = preview[x]
  BY DEF Preview, CoordinatorTypes
<1>2. planRow[p] = NoOne
  BY <1>1 DEF IdsAreUsed
<1>3. CoordinatorTypes'
  <2>1. /\ planRow' \in [Plan -> Workspace \cup {NoOne}]
        /\ preview' \in [Plan -> Workspace \cup {NoOne}]
    BY DEF Preview, CoordinatorTypes
  <2> QED BY <1>1, <2>1 DEF CoordinatorTypes
<1>4. RowsHavePlans' /\ IdsAreUsed' /\ LiveMeansExecuting' /\ ShownAsItEnded'
  BY <1>1
  DEF RowsHavePlans, IdsAreUsed, LiveMeansExecuting, ShownAsItEnded, Shown,
      IsLive
<1>5. RowsOfTheSession'
  BY <1>1, <1>2 DEF RowsOfTheSession, RowsHavePlans, PurgeIsWhole
<1>6. SessionIsOfOneWorkspace'
  BY <1>1 DEF SessionIsOfOneWorkspace, RowsHavePlans, Shown
<1>7. PurgeIsWhole'
  BY <1>1 DEF PurgeIsWhole, RowsHavePlans
<1> QED BY <1>3, <1>4, <1>5, <1>6, <1>7

\* An execution that starts has a running row, or is shown as refused.
LEMMA StartExecutionKeeps ==
  ASSUME CoordinatorInv, NEW r \in Run, NEW p \in Plan, StartExecution(r, p)
  PROVE  CoordinatorInv'
<1> USE DEF CoordinatorInv
<1>1. PICK shown, row :
        /\ run' = [run EXCEPT ![r] = [plan |-> p, status |-> shown]]
        /\ runRow' = IF row = "none" THEN runRow
                     ELSE [runRow EXCEPT ![r] = [plan |-> p, status |-> row]]
        /\ row # "none" => planRow[p] # NoOne
        /\ executing' = IF row = "running" THEN executing \cup {r}
                        ELSE executing
        /\ \/ shown \in Refused /\ row = "none"
           \/ shown = "failed" /\ row \in {"none", "planned"}
           \/ shown = "running" /\ row = "running"
  BY DEF StartExecution, Rejected, EndedRow
<1>2. /\ UNCHANGED <<session, preview, approval, asked, planRow, aged,
                     approvalRow>>
      /\ r \notin used /\ used' = used \cup {r}
      /\ preview[p] # NoOne /\ preview[p] = session
  BY DEF StartExecution
<1>3. /\ run[r] = Absent /\ runRow[r] = Absent /\ r \notin executing
      /\ planRow[p] \in {NoOne, session} /\ NoOne \notin Plan
  BY <1>2, CoordinatorAssumption DEF IdsAreUsed, RowsOfTheSession
<1>4. /\ run'[r].plan = p /\ run'[r].status = shown
      /\ \A q \in Run \ {r} : run'[q] = run[q] /\ runRow'[q] = runRow[q]
      /\ row = "none" => runRow'[r] = Absent
      /\ row # "none" => runRow'[r].plan = p /\ runRow'[r].status = row
  BY <1>1, <1>3 DEF CoordinatorTypes
<1>5. run'[r] # Absent
  BY <1>3, <1>4, AbsentFields
<1>6. CoordinatorTypes'
  <2>1. shown \in Status /\ row \in Status
    BY <1>1 DEF Status, Live, Refused, Ended, EndedRow
  <2>2. /\ run' \in [Run -> [plan : Plan \cup {NoOne}, status : Status]]
        /\ runRow' \in [Run -> [plan : Plan \cup {NoOne}, status : Status]]
    BY <1>1, <2>1 DEF CoordinatorTypes
  <2> QED BY <1>1, <1>2, <2>2 DEF CoordinatorTypes
<1>7. RowsHavePlans' /\ IdsAreUsed'
  BY <1>1, <1>2, <1>4 DEF RowsHavePlans, IdsAreUsed
<1>8. RowsOfTheSession'
  BY <1>2 DEF RowsOfTheSession
<1>9. LiveMeansExecuting'
  <2>1. row = "running" <=> shown \in Live
    BY <1>1 DEF Live, Refused
  <2>2. \A q \in Run \ {r} : q \in executing' <=> q \in executing
    BY <1>1
  <2>3. r \in executing' <=> row = "running"
    BY <1>1, <1>3
  <2> QED BY <1>4, <1>5, <2>1, <2>2, <2>3, <1>6
          DEF LiveMeansExecuting, Shown, IsLive, CoordinatorTypes
<1>10. SessionIsOfOneWorkspace'
  BY <1>2, <1>3, <1>4 DEF SessionIsOfOneWorkspace, Shown
<1>11. PurgeIsWhole'
  BY <1>1, <1>2, <1>3, <1>4 DEF PurgeIsWhole
<1>12. ShownAsItEnded'
  <2>1. ASSUME NEW q \in Run, q # r, run'[q] # Absent
        PROVE  run[q] # Absent /\ run'[q] = run[q] /\ runRow'[q] = runRow[q]
    BY <1>4, <2>1
  <2>2. /\ shown \notin EndedRow \ {"failed"}
        /\ shown # "remote_state_unknown"
        /\ shown = "failed" => row \in {"none", "planned"}
    BY <1>1 DEF EndedRow, Refused
  <2>3. runRow'[r].status = row
    BY <1>4, AbsentFields
  <2> QED BY <1>4, <2>1, <2>2, <2>3 DEF ShownAsItEnded, Shown
<1> QED BY <1>6, <1>7, <1>8, <1>9, <1>10, <1>11, <1>12

\* An execution that ends is shown as its row says, or as failed.
LEMMA ExecutionEndsKeeps ==
  ASSUME CoordinatorInv, NEW r \in Run, NEW row \in EndedRow \cup {"running"},
         NEW result \in Ended \cup {"running"}, NEW ok \in BOOLEAN,
         ExecutionEnds(r, row, result, ok)
  PROVE  CoordinatorInv'
<1> USE DEF CoordinatorInv
<1>1. /\ UNCHANGED <<session, preview, approval, asked, planRow, aged,
                     approvalRow, used>>
      /\ r \in executing /\ executing' = executing \ {r}
      /\ runRow' = [runRow EXCEPT ![r].status = row]
      /\ run' = [run EXCEPT ![r].status = Presented(row, result, ok)]
  BY DEF ExecutionEnds
<1>0. /\ row = "running" => ~ok
      /\ \/ result = row
         \/ result = "remote_state_unknown" /\ row = "orphaned"
  <2>1. \/ row \in EndedRow
        \/ row = "running" /\ ~ok
    BY DEF ExecutionEnds
  <2>2. \/ result = row
        \/ result = "remote_state_unknown" /\ row = "orphaned"
    BY Zenon DEF ExecutionEnds
  <2> QED BY <2>1, <2>2 DEF EndedRow
<1>2. PICK shown : shown = Presented(row, result, ok)
  OBVIOUS
<1>3. /\ shown \in Ended /\ shown \notin Live
      /\ shown \in EndedRow \ {"failed"} => row = shown
      /\ shown = "remote_state_unknown" => row = "orphaned"
      /\ shown = "failed" => row \in {"failed", "running"}
  BY <1>0, <1>2 DEF Presented, Rejected, Ended, EndedRow, Live
<1>4. runRow[r] # Absent /\ run[r] # Absent /\ runRow[r].status = "running"
  BY <1>1, AbsentFields DEF PurgeIsWhole, LiveMeansExecuting, Shown
<1>5. /\ \A q \in Run \ {r} : run'[q] = run[q] /\ runRow'[q] = runRow[q]
      /\ run'[r].plan = run[r].plan /\ run'[r].status = shown
      /\ runRow'[r].plan = runRow[r].plan /\ runRow'[r].status = row
  BY <1>1, <1>2 DEF CoordinatorTypes
<1>6. run'[r] # Absent /\ runRow'[r] # Absent
  BY <1>3, <1>5, AbsentFields DEF Ended, EndedRow
<1>7. CoordinatorTypes'
  <2>1. shown \in Status /\ row \in Status
    BY <1>3 DEF Status, Ended, Live
  <2>2. /\ run' \in [Run -> [plan : Plan \cup {NoOne}, status : Status]]
        /\ runRow' \in [Run -> [plan : Plan \cup {NoOne}, status : Status]]
    BY <1>1, <1>2, <2>1 DEF CoordinatorTypes
  <2> QED BY <1>1, <2>2 DEF CoordinatorTypes
<1>8. RowsHavePlans' /\ IdsAreUsed' /\ RowsOfTheSession'
  BY <1>1, <1>4, <1>5 DEF RowsHavePlans, IdsAreUsed, RowsOfTheSession
<1>9. LiveMeansExecuting'
  BY <1>1, <1>3, <1>5, <1>6, <1>7
  DEF LiveMeansExecuting, Shown, IsLive, CoordinatorTypes
<1>10. SessionIsOfOneWorkspace' /\ PurgeIsWhole'
  BY <1>1, <1>4, <1>5 DEF SessionIsOfOneWorkspace, PurgeIsWhole, Shown
<1>11. ShownAsItEnded'
  BY <1>3, <1>5 DEF ShownAsItEnded, Shown
<1> QED BY <1>7, <1>8, <1>9, <1>10, <1>11

\* A cancellation changes what is shown of a run that executes.
LEMMA CancelExecutionKeeps ==
  ASSUME CoordinatorInv, NEW r \in Run, CancelExecution(r)
  PROVE  CoordinatorInv'
<1> USE DEF CoordinatorInv
<1>1. /\ UNCHANGED <<session, preview, approval, asked, executing, planRow,
                     aged, runRow, approvalRow, used>>
      /\ r \in executing /\ run[r] # Absent
      /\ \A q \in Run \ {r} : run'[q] = run[q]
      /\ run'[r].plan = run[r].plan /\ run'[r].status = "cancelling"
  BY DEF CancelExecution, rows, CoordinatorTypes, Shown
<1>2. run'[r] # Absent
  BY <1>1, AbsentFields
<1>3. CoordinatorTypes'
  <2>1. run' \in [Run -> [plan : Plan \cup {NoOne}, status : Status]]
    BY DEF CancelExecution, CoordinatorTypes, Status, Live
  <2> QED BY <1>1, <2>1 DEF CoordinatorTypes
<1>4. RowsHavePlans' /\ IdsAreUsed' /\ RowsOfTheSession' /\ PurgeIsWhole'
  BY <1>1 DEF RowsHavePlans, IdsAreUsed, RowsOfTheSession, PurgeIsWhole
<1>5. LiveMeansExecuting'
  BY <1>1, <1>2 DEF LiveMeansExecuting, Shown, IsLive, Live
<1>6. SessionIsOfOneWorkspace'
  BY <1>1 DEF SessionIsOfOneWorkspace, Shown
<1>7. ShownAsItEnded'
  BY <1>1 DEF ShownAsItEnded, Shown, EndedRow
<1> QED BY <1>3, <1>4, <1>5, <1>6, <1>7

\* An approval is asked for by the session, for a plan of its workspace.
LEMMA RequestApprovalKeeps ==
  ASSUME CoordinatorInv, NEW a \in Approval, NEW p \in Plan,
         RequestApproval(a, p)
  PROVE  CoordinatorInv'
<1> USE DEF CoordinatorInv
<1>1. /\ UNCHANGED <<session, preview, run, asked, executing, planRow, aged,
                     runRow>>
      /\ used \subseteq used' /\ preview[p] = session /\ session # NoOne
      /\ planRow[p] # NoOne
      /\ approval'[a] = session /\ approvalRow'[a].plan = p
      /\ \A b \in Approval \ {a} :
           approval'[b] = approval[b] /\ approvalRow'[b] = approvalRow[b]
  BY DEF RequestApproval, CoordinatorTypes
<1>2. planRow[p] = session
  BY <1>1 DEF RowsOfTheSession
<1>3. CoordinatorTypes'
  <2>1. /\ approval' \in [Approval -> Workspace \cup {NoOne}]
        /\ approvalRow' \in [Approval -> [plan : Plan \cup {NoOne},
                                    status : {"none", "pending", "decided"}]]
    BY DEF RequestApproval, CoordinatorTypes
  <2> QED BY <1>1, <2>1 DEF CoordinatorTypes
<1>4. RowsHavePlans' /\ IdsAreUsed' /\ RowsOfTheSession'
  BY <1>1, <1>2 DEF RowsHavePlans, IdsAreUsed, RowsOfTheSession
<1>5. LiveMeansExecuting' /\ SessionIsOfOneWorkspace' /\ PurgeIsWhole'
  BY <1>1 DEF LiveMeansExecuting, SessionIsOfOneWorkspace, PurgeIsWhole, Shown,
              IsLive
<1>6. ShownAsItEnded'
  BY <1>1 DEF ShownAsItEnded, Shown
<1> QED BY <1>3, <1>4, <1>5, <1>6

\* A decision changes a status.
LEMMA DecideApprovalKeeps ==
  ASSUME CoordinatorInv, NEW a \in Approval, DecideApproval(a)
  PROVE  CoordinatorInv'
<1> USE DEF CoordinatorInv
<1>1. /\ UNCHANGED <<session, preview, run, approval, asked, executing, planRow,
                     aged, runRow, used>>
      /\ approvalRow[a].status = "pending"
      /\ approvalRow'[a].plan = approvalRow[a].plan
      /\ \A b \in Approval \ {a} : approvalRow'[b] = approvalRow[b]
  BY DEF DecideApproval, memory, CoordinatorTypes
<1>2. approvalRow[a] # Absent
  BY <1>1, AbsentFields
<1>3. CoordinatorTypes'
  <2>1. approvalRow' \in [Approval -> [plan : Plan \cup {NoOne},
                                    status : {"none", "pending", "decided"}]]
    BY DEF DecideApproval, CoordinatorTypes
  <2> QED BY <1>1, <2>1 DEF CoordinatorTypes
<1>4. RowsHavePlans' /\ IdsAreUsed' /\ RowsOfTheSession'
  BY <1>1, <1>2 DEF RowsHavePlans, IdsAreUsed, RowsOfTheSession
<1>5. LiveMeansExecuting' /\ SessionIsOfOneWorkspace' /\ PurgeIsWhole'
  BY <1>1, <1>2 DEF LiveMeansExecuting, SessionIsOfOneWorkspace, PurgeIsWhole,
                    Shown, IsLive
<1>6. ShownAsItEnded'
  BY <1>1 DEF ShownAsItEnded, Shown
<1> QED BY <1>3, <1>4, <1>5, <1>6

\* A restart forgets the session and orphans what was running.
LEMMA RestartKeeps ==
  ASSUME CoordinatorInv, Restart
  PROVE  CoordinatorInv'
<1> USE DEF CoordinatorInv
<1>1. /\ UNCHANGED <<planRow, aged, approvalRow, used>>
      /\ executing' = {}
      /\ session' = NoOne /\ asked' = NoOne
      /\ \A p \in Plan : preview'[p] = NoOne
      /\ \A r \in Run : run'[r] = Absent
      /\ \A a \in Approval : approval'[a] = NoOne
  BY DEF Restart
<1>2. \A r \in Run : runRow'[r].plan = runRow[r].plan
                     /\ (runRow'[r] # Absent => runRow[r] # Absent)
  <2> SUFFICES ASSUME NEW r \in Run
               PROVE  /\ runRow'[r].plan = runRow[r].plan
                      /\ runRow'[r] # Absent => runRow[r] # Absent
    OBVIOUS
  <2>1. CASE runRow[r].status = "running"
    <3>1. runRow[r] # Absent
      BY <2>1, AbsentFields
    <3>2. runRow'[r] = [runRow[r] EXCEPT !.status = "orphaned"]
      BY <2>1 DEF Restart
    <3>3. runRow[r] \in [plan : Plan \cup {NoOne}, status : Status]
      BY DEF CoordinatorTypes
    <3> QED BY <3>1, <3>2, <3>3
  <2>2. CASE runRow[r].status # "running"
    BY <2>2 DEF Restart
  <2> QED BY <2>1, <2>2
<1>3. CoordinatorTypes'
  <2>1. /\ run' \in [Run -> [plan : Plan \cup {NoOne}, status : Status]]
        /\ preview' \in [Plan -> Workspace \cup {NoOne}]
        /\ approval' \in [Approval -> Workspace \cup {NoOne}]
    BY AbsentFields DEF Restart
  <2>2. runRow' \in [Run -> [plan : Plan \cup {NoOne}, status : Status]]
    <3>1. "orphaned" \in Status
      BY DEF Status, Ended, EndedRow
    <3>2. \A r \in Run :
            runRow'[r] \in [plan : Plan \cup {NoOne}, status : Status]
      BY <3>1 DEF Restart, CoordinatorTypes
    <3> QED BY <3>2 DEF Restart
  <2> QED BY <1>1, <2>1, <2>2 DEF CoordinatorTypes
<1>4. RowsHavePlans' /\ IdsAreUsed' /\ RowsOfTheSession'
  BY <1>1, <1>2 DEF RowsHavePlans, IdsAreUsed, RowsOfTheSession
<1>5. LiveMeansExecuting' /\ SessionIsOfOneWorkspace' /\ PurgeIsWhole'
  BY <1>1, <1>2 DEF LiveMeansExecuting, SessionIsOfOneWorkspace, PurgeIsWhole,
                    Shown, IsLive
<1>6. ShownAsItEnded'
  BY <1>1 DEF ShownAsItEnded, Shown
<1> QED BY <1>3, <1>4, <1>5, <1>6

\* Dialogs, ageing and the store's moods.
LEMMA AsideKeeps ==
  ASSUME CoordinatorInv,
         UNCHANGED <<session, preview, run, approval, executing, planRow,
                     runRow, approvalRow, used>>,
         asked' \in Workspace \cup {NoOne}, aged' \subseteq Plan
  PROVE  CoordinatorInv'
BY DEF CoordinatorInv, CoordinatorTypes, RowsHavePlans, IdsAreUsed,
       RowsOfTheSession, LiveMeansExecuting, SessionIsOfOneWorkspace,
       PurgeIsWhole, ShownAsItEnded, Shown, IsLive

\* Initially there is nothing, and every handler keeps the session in order.
THEOREM SessionInOrder == Spec => []CoordinatorInv
<1>1. Init => CoordinatorInv
  BY CoordinatorAssumption, AbsentFields
  DEF Init, CoordinatorInv, CoordinatorTypes, RowsHavePlans, IdsAreUsed,
      RowsOfTheSession, LiveMeansExecuting, SessionIsOfOneWorkspace,
      PurgeIsWhole, ShownAsItEnded, Shown
<1>2. CoordinatorInv /\ [Next]_vars => CoordinatorInv'
  <2> SUFFICES ASSUME CoordinatorInv, [Next]_vars
               PROVE  CoordinatorInv'
    OBVIOUS
  <2>0. CoordinatorTypes
    BY DEF CoordinatorInv
  <2>1. ASSUME NEW w \in Workspace, OpenWorkspace(w)
        PROVE  CoordinatorInv'
    <3>1. PICK gone \in SUBSET Plan : Purge(gone)
      BY <2>0, <2>1 DEF OpenWorkspace, PurgeOnOpen, Of, CoordinatorTypes
    <3> QED BY <2>0, <2>1, <3>1, PurgingKeeps
            DEF OpenWorkspace, ForgetSession, memory, CoordinatorTypes
  <2>2. ASSUME NEW days \in {aged, {}}, SaveRetention(days)
        PROVE  CoordinatorInv'
    <3>1. PICK gone \in SUBSET Plan : Purge(gone)
      BY <2>0, <2>2 DEF SaveRetention, Of, CoordinatorTypes
    <3> QED BY <2>0, <2>2, <3>1, PurgingKeeps
            DEF SaveRetention, memory, CoordinatorTypes
  <2>3. ASSUME NEW w \in Workspace, DeleteWorkspaceData(w)
        PROVE  CoordinatorInv'
    <3>1. PICK gone \in SUBSET Plan : Purge(gone)
      BY <2>3 DEF DeleteWorkspaceData, Of
    <3> QED BY <2>0, <2>3, <3>1, PurgingKeeps
            DEF DeleteWorkspaceData, CoordinatorTypes
  <2>4. CASE \/ \E w \in Workspace : AskToDelete(w)
             \/ NothingDeleted \/ StoreChanges \/ UNCHANGED vars
             \/ \E p \in Plan : Age(p)
    BY <2>0, <2>4, AsideKeeps
    DEF AskToDelete, NothingDeleted, StoreChanges, Age, vars, memory, rows,
        CoordinatorTypes
  <2> QED BY <2>1, <2>2, <2>3, <2>4, PreviewKeeps, StartExecutionKeeps,
             ExecutionEndsKeeps, CancelExecutionKeeps, RequestApprovalKeeps,
             DecideApprovalKeeps, RestartKeeps DEF Next
<1> QED BY <1>1, <1>2, PTL DEF Spec

\* What executes is what the session shows as live.
THEOREM LiveIsExecuting == Spec => []LiveMeansExecuting
BY SessionInOrder, PTL DEF CoordinatorInv

\* Everything the session holds is of its workspace.
THEOREM OneWorkspaceAtATime == Spec => []SessionIsOfOneWorkspace
BY SessionInOrder, PTL DEF CoordinatorInv

\* Purges leave executions alone and no row without its plan.
THEOREM PurgesAreWhole == Spec => []PurgeIsWhole
BY SessionInOrder, PTL DEF CoordinatorInv

\* A run is shown as it ended.
THEOREM EndsAreShown == Spec => []ShownAsItEnded
BY SessionInOrder, PTL DEF CoordinatorInv


-----------------------------------------------------------------------------
(* What a handler may decide and delete                                    *)

\* No approval is decided by this step.
NothingDecided ==
  \A a \in Approval :
    ~(approvalRow[a].status = "pending" /\ approvalRow'[a].status = "decided")

DecidedHere ==
  \A a \in Approval :
    /\ approvalRow[a].status = "pending"
    /\ approvalRow'[a].status = "decided"
    => planRow[approvalRow[a].plan] = session

DeletedHere ==
  \A p \in Plan \ aged :
    planRow[p] # NoOne /\ planRow'[p] = NoOne =>
      planRow[p] = session /\ session = asked

\* A purge decides nothing, and deletes only what it is told to.
LEMMA PurgeDecides ==
  ASSUME CoordinatorInv, NEW gone \in SUBSET Plan, Purge(gone)
  PROVE  /\ NothingDecided
         /\ \A p \in Plan :
              planRow[p] # NoOne /\ planRow'[p] = NoOne => p \in gone
BY Purged, AbsentFields DEF NothingDecided

\* The person decides what the session asked, of a plan of its workspace.
LEMMA DecisionsHere ==
  ASSUME CoordinatorInv, NEW a \in Approval, DecideApproval(a)
  PROVE  DecidedHere
<1>1. /\ approval[a] = session /\ session # NoOne
      /\ approvalRow[a].status = "pending"
      /\ \A b \in Approval \ {a} : approvalRow'[b] = approvalRow[b]
  BY DEF DecideApproval, CoordinatorInv, CoordinatorTypes
<1>2. planRow[approvalRow[a].plan] = session
  BY <1>1, AbsentFields DEF CoordinatorInv, RowsOfTheSession
<1> QED BY <1>1, <1>2 DEF DecidedHere

\* Asking for an approval decides nothing.
LEMMA AskingDecidesNothing ==
  ASSUME CoordinatorInv, NEW a \in Approval, NEW p \in Plan,
         RequestApproval(a, p)
  PROVE  NothingDecided
<1>1. /\ approvalRow'[a].status = "pending"
      /\ \A b \in Approval \ {a} : approvalRow'[b] = approvalRow[b]
  BY DEF RequestApproval, CoordinatorInv, CoordinatorTypes
<1> QED BY <1>1 DEF NothingDecided

\* A person decides only approvals of the workspace on the screen, and what is
\* deleted before its time was asked about and is of that workspace.
THEOREM DecisionsHold == Spec => DecisionsAreOfTheSession
<1>1. ASSUME CoordinatorInv, Next
      PROVE  DecidedHere /\ DeletedHere
  <2>0. NothingDecided => DecidedHere
    BY DEF NothingDecided, DecidedHere
  <2>1. ASSUME NEW w \in Workspace, OpenWorkspace(w)
        PROVE  DecidedHere /\ DeletedHere
    <3>1. PICK gone \in SUBSET Plan : Purge(gone) /\ gone \subseteq aged
      BY <1>1, <2>1
      DEF OpenWorkspace, PurgeOnOpen, Of, CoordinatorInv, CoordinatorTypes
    <3> QED BY <1>1, <2>0, <3>1, PurgeDecides DEF DeletedHere
  <2>2. ASSUME NEW days \in {aged, {}}, SaveRetention(days)
        PROVE  DecidedHere /\ DeletedHere
    <3>1. PICK gone \in SUBSET Plan : Purge(gone) /\ gone \subseteq aged
      BY <1>1, <2>2 DEF SaveRetention, Of, CoordinatorInv, CoordinatorTypes
    <3> QED BY <1>1, <2>0, <3>1, PurgeDecides DEF DeletedHere
  <2>3. ASSUME NEW w \in Workspace, DeleteWorkspaceData(w)
        PROVE  DecidedHere /\ DeletedHere
    <3>1. /\ w = asked /\ w = session /\ Purge(Of(w, Plan))
          /\ Of(w, Plan) \in SUBSET Plan
      BY <2>3 DEF DeleteWorkspaceData, Of
    <3>2. /\ NothingDecided
          /\ \A p \in Plan :
               planRow[p] # NoOne /\ planRow'[p] = NoOne => p \in Of(w, Plan)
      BY <1>1, <3>1, PurgeDecides
    <3> QED BY <2>0, <3>1, <3>2 DEF DeletedHere, Of
  <2>4. ASSUME NEW p \in Plan, Preview(p)
        PROVE  DecidedHere /\ DeletedHere
    <3>1. /\ UNCHANGED approvalRow /\ session # NoOne
          /\ \A q \in Plan : planRow'[q] = IF q = p THEN session ELSE planRow[q]
      BY <1>1, <2>4 DEF Preview, CoordinatorInv, CoordinatorTypes
    <3> QED BY <3>1 DEF DecidedHere, DeletedHere
  <2>5. ASSUME NEW a \in Approval, DecideApproval(a)
        PROVE  DecidedHere /\ DeletedHere
    <3>1. UNCHANGED planRow
      BY <2>5 DEF DecideApproval
    <3> QED BY <1>1, <2>5, <3>1, DecisionsHere DEF DeletedHere
  <2>6. ASSUME NEW a \in Approval, NEW p \in Plan, RequestApproval(a, p)
        PROVE  DecidedHere /\ DeletedHere
    <3>1. UNCHANGED planRow
      BY <2>6 DEF RequestApproval
    <3> QED BY <1>1, <2>0, <2>6, <3>1, AskingDecidesNothing DEF DeletedHere
  <2>7. CASE UNCHANGED <<planRow, approvalRow>>
    BY <2>7 DEF DecidedHere, DeletedHere
  <2>8. ASSUME \/ \E w \in Workspace : AskToDelete(w)
               \/ NothingDeleted \/ StoreChanges \/ Restart
               \/ \E r \in Run, p \in Plan : StartExecution(r, p)
               \/ \E r \in Run, row \in EndedRow \cup {"running"},
                     result \in Ended \cup {"running"}, ok \in BOOLEAN :
                    ExecutionEnds(r, row, result, ok)
               \/ \E r \in Run : CancelExecution(r)
               \/ \E p \in Plan : Age(p)
        PROVE  UNCHANGED <<planRow, approvalRow>>
    BY <2>8
    DEF AskToDelete, NothingDeleted, StoreChanges, Restart, StartExecution,
        ExecutionEnds, CancelExecution, Age, rows
  <2> QED BY <1>1, <2>1, <2>2, <2>3, <2>4, <2>5, <2>6, <2>7, <2>8 DEF Next
<1>2. CoordinatorInv /\ [Next]_vars =>
      [/\ \A a \in Approval :
            /\ approvalRow[a].status = "pending"
            /\ approvalRow'[a].status = "decided"
            => planRow[approvalRow[a].plan] = session
       /\ \A p \in Plan \ aged :
            planRow[p] # NoOne /\ planRow'[p] = NoOne =>
              planRow[p] = session /\ session = asked]_vars
  BY <1>1 DEF DecidedHere, DeletedHere
<1> QED BY <1>2, SessionInOrder, PTL DEF Spec, DecisionsAreOfTheSession
=============================================================================

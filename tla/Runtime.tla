-------------------------------- MODULE Runtime --------------------------------
(***************************************************************************)
(* The execution runtime (packages/runtime/src/runtime-engine.ts) together *)
(* with the tables of the persistence store it drives                      *)
(* (packages/persistence/src/store.ts), the desktop's startup              *)
(* (apps/desktop/src/main/index.ts) and the provider at the other end.     *)
(*                                                                         *)
(* JavaScript runs one handler at a time.  A run is "on the thread" from   *)
(* the moment execute() is called or resumes from an await until it awaits *)
(* or returns; nothing else of the program runs meanwhile (ThreadFree).    *)
(* Each SQLite transaction is one step, so that the process can crash, the *)
(* disk can fill up or a deadline can pass between any two of them.        *)
(*                                                                         *)
(* Simplifications:                                                        *)
(*  - every plan has the same shape: steps 1..NSteps, in the order the     *)
(*    engine walks them;                                                   *)
(*  - what describe(step), Policy and the revalidation of the preview say  *)
(*    of a step is one value, descriptor[s]; digests are injective, so     *)
(*    comparing digests is comparing those values;                         *)
(*  - time is the event that matters of it: an approval's deadline passes; *)
(*  - blocked or denied plans write no row of these tables and are left    *)
(*    out, as is the audit chain.                                          *)
(***************************************************************************)
EXTENDS Naturals, StoreRules

CONSTANTS
  Run,            \* ids of execution runs
  Plan,           \* persisted plans
  NSteps,         \* number of steps of a plan
  Approval,       \* ids of approval records
  Descriptor,     \* what a step may turn out to do, as its descriptor says
  NeedsApproval,  \* steps whose Policy decision is require_approval
  ProviderStep,   \* steps whose descriptor carries a providerRequest
  DependsOn,      \* dependsOn of each step
  StoreFaults,    \* which of "backup", "full", "readonly" the store may undergo
  MayCrash,       \* whether the process may crash
  None            \* absence of an id

Step == 1 .. NSteps

ASSUME ConstantsAssumption ==
  /\ NSteps \in Nat \ {0}
  /\ NeedsApproval \subseteq Step
  /\ ProviderStep \subseteq Step
  /\ DependsOn \in [Step -> SUBSET Step]
  /\ StoreFaults \subseteq {"backup", "full", "readonly"}
  /\ MayCrash \in BOOLEAN
  /\ None \notin Run /\ None \notin Plan
  /\ None \notin Approval /\ None \notin Descriptor

VARIABLES
  \* the store's tables
  runStatus,   \* execution_runs.status
  runPlan,     \* execution_runs.plan_id
  approval,    \* approvals: status, plan, step, descriptor
  attempt,     \* provider_execution_attempts.remote_state, by run and step
  request,     \* provider_execution_attempts.request_digest
  resolved,    \* whether resolution_actor is set
  checkpoint,  \* provider_checkpoints.status, by run and step
  evidence,    \* step_evidence.outcome, by run and step
  \* memory of the process, lost in a crash
  frame,       \* the activation of execute() for each run
  up,          \* whether the process is running
  \* the world around the process
  store,       \* "ok", "backup" (writes are paused), "full" (writes throw for
               \* a while) or "readonly" (unhealthy until the next start)
  lapsed,      \* whether an approval's expiresAt has passed
  descriptor,  \* what a step would do now
  \* history
  paid,        \* approval consumed for a step of a run
  sent         \* the descriptor dispatch or recover was called with, or None

tables == <<runStatus, runPlan, approval, attempt, request, resolved,
            checkpoint, evidence>>
world == <<store, lapsed, descriptor>>
history == <<paid, sent>>
vars == <<tables, frame, up, world, history>>

-----------------------------------------------------------------------------
PC == {"idle", "created", "approved", "step", "attempt", "opened",
       "dispatching", "await", "unknown", "evidence", "own", "recovered",
       "verdict", "fail"}

Frame ==
  [pc : PC,
   cur : 1 .. NSteps,                               \* step being executed
   planned : [Step -> Descriptor \cup {None}],      \* initial.descriptor
   approvalOf : [Step -> Approval \cup {None}],     \* options.approvalIds
   recoveryOf : [Step -> Run \cup {None}],          \* recoveryCheckpointIds
   aborted : BOOLEAN,                               \* controller.signal
   latest : BOOLEAN,                                \* latestCheckpointRecordId
   outcome : Outcome,                               \* result.outcome
   tree : BOOLEAN]                                  \* treeTerminationConfirmed

NoFrame ==
  [pc |-> "idle", cur |-> 1,
   planned |-> [s \in Step |-> None],
   approvalOf |-> [s \in Step |-> None],
   recoveryOf |-> [s \in Step |-> None],
   aborted |-> FALSE, latest |-> FALSE, outcome |-> "failed", tree |-> TRUE]

ApprovalRecord ==
  [status : ApprovalStatus, plan : Plan \cup {None}, step : Step,
   does : Descriptor \cup {None}]

NoApproval == [status |-> "none", plan |-> None, step |-> 1, does |-> None]

ThreadFree == up /\ \A r \in Run : frame[r].pc \in {"idle", "await"}

\* activeRuns holds the run (set after the run became "running").
Active(r) == frame[r].pc \notin {"idle", "created", "approved"}

Writable == store = "ok"           \* #assertWritable, and the write succeeds
Privileged == store # "readonly"   \* assertPrivilegedActionsAvailable

\* The approval was asked for exactly this effect.
Covers(a, p, s) ==
  /\ approval[a].plan = p
  /\ approval[a].step = s
  /\ approval[a].does = descriptor[s]

Usable(a, p, s) == approval[a].status = "granted" /\ ~lapsed[a] /\ Covers(a, p, s)

Goto(r, label) == frame' = [frame EXCEPT ![r].pc = label]
Return(r) == frame' = [frame EXCEPT ![r] = NoFrame]

Init ==
  /\ runStatus = [r \in Run |-> "none"]
  /\ runPlan = [r \in Run |-> None]
  /\ approval = [a \in Approval |-> NoApproval]
  /\ attempt = [r \in Run |-> [s \in Step |-> "none"]]
  /\ request = [r \in Run |-> [s \in Step |-> None]]
  /\ resolved = [r \in Run |-> [s \in Step |-> FALSE]]
  /\ checkpoint = [r \in Run |-> [s \in Step |-> "none"]]
  /\ evidence = [r \in Run |-> [s \in Step |-> "none"]]
  /\ frame = [r \in Run |-> NoFrame]
  /\ up = TRUE
  /\ store = "ok"
  /\ lapsed = [a \in Approval |-> FALSE]
  /\ descriptor \in [Step -> Descriptor]
  /\ paid = [r \in Run |-> [s \in Step |-> None]]
  /\ sent = [r \in Run |-> [s \in Step |-> None]]

-----------------------------------------------------------------------------
(* Approvals: the dialogue with the person at the desk.                    *)

RequestApproval(a, p, s) ==
  /\ ThreadFree /\ Writable
  /\ s \in NeedsApproval
  /\ approval[a].status = "none"
  /\ approval' = [approval EXCEPT ![a] =
       [status |-> "pending", plan |-> p, step |-> s, does |-> descriptor[s]]]
  /\ UNCHANGED <<runStatus, runPlan, attempt, request, resolved, checkpoint,
                 evidence, frame, up, world, history>>

DecideApproval(a, decision) ==
  /\ ThreadFree /\ Writable
  /\ approval[a].status = "pending"
  /\ approval' = [approval EXCEPT ![a].status =
       IF lapsed[a] THEN "expired" ELSE decision]
  /\ UNCHANGED <<runStatus, runPlan, attempt, request, resolved, checkpoint,
                 evidence, frame, up, world, history>>

\* execute() meets a granted approval past its deadline: it is marked expired
\* and execute() returns "approval_required" without creating a run.
PreflightExpires(a) ==
  LET p == approval[a].plan
      s == approval[a].step
  IN /\ ThreadFree /\ Writable
     /\ approval[a].status = "granted" /\ lapsed[a]
     /\ approval[a].does = descriptor[s]
     /\ \A t \in NeedsApproval : t < s => \E b \in Approval : Usable(b, p, t)
     /\ approval' = [approval EXCEPT ![a].status = "expired"]
     /\ UNCHANGED <<runStatus, runPlan, attempt, request, resolved, checkpoint,
                    evidence, frame, up, world, history>>

-----------------------------------------------------------------------------
(* execute(): from the preflight to the first step.                        *)

\* What execute() remembers of its preflight and of its options.
FirstFrame(chosen, recoveries) ==
  [NoFrame EXCEPT
     !.pc = "created",
     !.planned = descriptor,
     !.approvalOf =
       [s \in Step |-> IF s \in NeedsApproval THEN chosen[s] ELSE None],
     !.recoveryOf =
       [s \in Step |-> IF s \in ProviderStep THEN recoveries[s] ELSE None]]

StartRun(r, p) ==
  /\ ThreadFree /\ Writable
  /\ runStatus[r] = "none"
  /\ \A q \in Run : Active(q) => runPlan[q] # p
  /\ \E chosen \in [NeedsApproval -> Approval],
        recoveries \in [ProviderStep -> Run \cup {None}] :
       /\ \A s \in NeedsApproval : Usable(chosen[s], p, s)
       /\ frame' = [frame EXCEPT ![r] = FirstFrame(chosen, recoveries)]
  /\ runStatus' = [runStatus EXCEPT ![r] = "planned"]
  /\ runPlan' = [runPlan EXCEPT ![r] = p]
  /\ UNCHANGED <<approval, attempt, request, resolved, checkpoint, evidence,
                 up, world, history>>

MarkApproved(r) ==
  /\ frame[r].pc = "created" /\ NeedsApproval # {}
  /\ Writable
  /\ "approved" \in RunSuccessors(runStatus[r])
  /\ runStatus' = [runStatus EXCEPT ![r] = "approved"]
  /\ Goto(r, "approved")
  /\ UNCHANGED <<runPlan, approval, attempt, request, resolved, checkpoint,
                 evidence, up, world, history>>

MarkRunning(r) ==
  /\ frame[r].pc = IF NeedsApproval # {} THEN "approved" ELSE "created"
  /\ Writable
  /\ "running" \in RunSuccessors(runStatus[r])
  /\ runStatus' = [runStatus EXCEPT ![r] = "running"]
  /\ Goto(r, "step")
  /\ UNCHANGED <<runPlan, approval, attempt, request, resolved, checkpoint,
                 evidence, up, world, history>>

\* These writes stand before the try: execute() rejects and the row stays.
LaunchThrows(r) ==
  /\ frame[r].pc \in {"created", "approved"}
  /\ ~Writable
  /\ Return(r)
  /\ UNCHANGED <<tables, up, world, history>>

-----------------------------------------------------------------------------
(* execute(): one step of the plan, up to the await.                       *)

DependenciesDone(s) == \A t \in DependsOn[s] : t < s

StepReady(r) ==
  LET s == frame[r].cur
  IN /\ DependenciesDone(s)
     /\ Privileged
     /\ descriptor[s] = frame[r].planned[s]

\* The checks of the step pass and no approval is needed.
EnterFreeStep(r) ==
  /\ frame[r].pc = "step" /\ StepReady(r)
  /\ frame[r].cur \notin NeedsApproval
  /\ Goto(r, "attempt")
  /\ UNCHANGED <<tables, up, world, history>>

\* Mutant of EnterApprovedStep: the status consumeApproval returns is ignored.
EnterApprovedStep_Unread(r) ==
  LET s == frame[r].cur
      a == frame[r].approvalOf[s]
  IN /\ frame[r].pc = "step" /\ StepReady(r)
     /\ s \in NeedsApproval /\ Writable /\ Covers(a, runPlan[r], s)
     /\ approval[a].status = "granted"
     /\ approval' = [approval EXCEPT ![a].status =
          IF lapsed[a] THEN "expired" ELSE "consumed"]
     /\ Goto(r, "attempt")
     /\ paid' = IF lapsed[a] THEN paid ELSE [paid EXCEPT ![r][s] = a]
     /\ UNCHANGED <<runStatus, runPlan, attempt, request, resolved, checkpoint,
                    evidence, up, world, sent>>

\* Mutant of EnterApprovedStep: the approval is checked but not consumed.
EnterApprovedStep_Reusable(r) ==
  LET s == frame[r].cur
      a == frame[r].approvalOf[s]
  IN /\ frame[r].pc = "step" /\ StepReady(r)
     /\ s \in NeedsApproval /\ Writable /\ Usable(a, runPlan[r], s)
     /\ Goto(r, "attempt")
     /\ paid' = [paid EXCEPT ![r][s] = a]
     /\ UNCHANGED <<tables, up, world, sent>>

\* consumeApproval: "consumed" lets the step go on, "expired" throws.
EnterApprovedStep(r) ==
  LET s == frame[r].cur
      a == frame[r].approvalOf[s]
  IN /\ frame[r].pc = "step" /\ StepReady(r)
     /\ s \in NeedsApproval
     /\ Writable
     /\ Covers(a, runPlan[r], s)
     /\ approval[a].status = "granted"
     /\ approval' = [approval EXCEPT ![a].status =
          IF lapsed[a] THEN "expired" ELSE "consumed"]
     /\ Goto(r, IF lapsed[a] THEN "fail" ELSE "attempt")
     /\ paid' = IF lapsed[a] THEN paid ELSE [paid EXCEPT ![r][s] = a]
     /\ UNCHANGED <<runStatus, runPlan, attempt, request, resolved, checkpoint,
                    evidence, up, world, sent>>

\* A check of the step throws into the outer catch.
StepRefused(r) ==
  LET s == frame[r].cur
      a == frame[r].approvalOf[s]
  IN /\ frame[r].pc = "step"
     /\ \/ ~StepReady(r)
        \/ /\ s \in NeedsApproval
           /\ \/ ~Writable
              \/ ~Covers(a, runPlan[r], s)
              \/ approval[a].status # "granted"
     /\ Goto(r, "fail")
     /\ UNCHANGED <<tables, up, world, history>>

\* The run whose checkpoint the caller asked to resume this step from.
Recovery(r) == frame[r].recoveryOf[frame[r].cur]

RecoveryValid(r) ==
  LET s == frame[r].cur
      q == Recovery(r)
  IN q # None =>
       /\ checkpoint[q][s] = "active"
       /\ runPlan[q] = runPlan[r]
       /\ request[q][s] = frame[r].planned[s]

OpenAttempt(r) ==
  LET s == frame[r].cur
  IN /\ frame[r].pc = "attempt" /\ s \in ProviderStep
     /\ RecoveryValid(r) /\ Writable
     /\ attempt' = [attempt EXCEPT ![r][s] = "not_dispatched"]
     /\ request' = [request EXCEPT ![r][s] = frame[r].planned[s]]
     /\ Goto(r, "opened")
     /\ UNCHANGED <<runStatus, runPlan, approval, resolved, checkpoint,
                    evidence, up, world, history>>

\* Mutant of MarkDispatching: the write-ahead of the call is forgotten.
MarkDispatching_Unwritten(r) ==
  /\ frame[r].pc = "opened" /\ Writable
  /\ Goto(r, "dispatching")
  /\ UNCHANGED <<tables, up, world, history>>

MarkDispatching(r) ==
  LET s == frame[r].cur
  IN /\ frame[r].pc = "opened"
     /\ Writable
     /\ attempt' = [attempt EXCEPT ![r][s] = "dispatching"]
     /\ Goto(r, "dispatching")
     /\ UNCHANGED <<runStatus, runPlan, approval, request, resolved, checkpoint,
                    evidence, up, world, history>>

AttemptThrows(r) ==
  /\ \/ /\ frame[r].pc = "attempt" /\ frame[r].cur \in ProviderStep
        /\ ~RecoveryValid(r) \/ ~Writable
     \/ frame[r].pc = "opened" /\ ~Writable
  /\ Goto(r, "fail")
  /\ UNCHANGED <<tables, up, world, history>>

\* Mutant of Dispatch: the step is described again when it is dispatched.
Dispatch_Redescribed(r) ==
  LET s == frame[r].cur
  IN /\ \/ frame[r].pc = "attempt" /\ s \notin ProviderStep
        \/ frame[r].pc = "dispatching"
     /\ sent' = [sent EXCEPT ![r][s] = descriptor[s]]
     /\ Goto(r, "await")
     /\ UNCHANGED <<tables, up, world, paid>>

\* dispatch() or recover() is called: from here on the effect may happen.
Dispatch(r) ==
  LET s == frame[r].cur
  IN /\ \/ frame[r].pc = "attempt" /\ s \notin ProviderStep
        \/ frame[r].pc = "dispatching"
     /\ sent' = [sent EXCEPT ![r][s] = frame[r].planned[s]]
     /\ Goto(r, "await")
     /\ UNCHANGED <<tables, up, world, paid>>

-----------------------------------------------------------------------------
(* While the run awaits its dispatcher.                                    *)

\* The provider streams a checkpoint: emit() saves it for this run and step.
EmitCheckpoint(r) ==
  LET s == frame[r].cur
  IN /\ ThreadFree /\ frame[r].pc = "await" /\ s \in ProviderStep
     /\ Writable
     /\ checkpoint[r][s] # "consumed"
     /\ checkpoint' = [checkpoint EXCEPT ![r][s] = "active"]
     /\ frame' = [frame EXCEPT ![r].latest = TRUE]
     /\ UNCHANGED <<runStatus, runPlan, approval, attempt, request, resolved,
                    evidence, up, world, history>>

\* cancel(): the request is recorded before the signal is aborted; when it
\* cannot be recorded cancel() throws and nothing changes.
Cancel(r) ==
  LET s == frame[r].cur
      recorded == s \in ProviderStep /\ attempt[r][s] \in CancellableRemote
  IN /\ ThreadFree /\ frame[r].pc = "await"
     /\ recorded => Writable
     /\ attempt' = IF recorded
                   THEN [attempt EXCEPT ![r][s] = "cancel_requested"]
                   ELSE attempt
     /\ frame' = [frame EXCEPT ![r].aborted = TRUE]
     /\ UNCHANGED <<runStatus, runPlan, approval, request, resolved, checkpoint,
                    evidence, up, world, history>>

\* A local dispatcher (process, git, memory...) answers.
LocalAnswer(r, outcome, tree) ==
  /\ ThreadFree /\ frame[r].pc = "await" /\ frame[r].cur \notin ProviderStep
  /\ outcome = "succeeded" => tree
  /\ frame' = [frame EXCEPT ![r].outcome = outcome, ![r].tree = tree,
                            ![r].pc = "evidence"]
  /\ UNCHANGED <<tables, up, world, history>>

LocalThrows(r) ==
  /\ ThreadFree /\ frame[r].pc = "await" /\ frame[r].cur \notin ProviderStep
  /\ Goto(r, "fail")
  /\ UNCHANGED <<tables, up, world, history>>

\* The remote states a provider's outcome may come with (adapter-host.ts).
RemoteOf(outcome) ==
  IF outcome = "timed_out" THEN {"failed", "cancelled"} ELSE {outcome}

\* Mutant of ProviderAnswer: outcome and remote state are not compared.
ProviderAnswer_Incoherent(r, outcome, remote) ==
  LET s == frame[r].cur
  IN /\ ThreadFree /\ frame[r].pc = "await" /\ s \in ProviderStep
     /\ Writable
     /\ remote \in RemoteSuccessors(attempt[r][s])
     /\ attempt' = [attempt EXCEPT ![r][s] = remote]
     /\ frame' = [frame EXCEPT ![r].outcome = outcome, ![r].tree = TRUE,
                               ![r].pc = "evidence"]
     /\ UNCHANGED <<runStatus, runPlan, approval, request, resolved, checkpoint,
                    evidence, up, world, history>>

\* The provider answers with a settled outcome and the store accepts it.
ProviderAnswer(r, outcome, remote) ==
  LET s == frame[r].cur
  IN /\ ThreadFree /\ frame[r].pc = "await" /\ s \in ProviderStep
     /\ remote \in RemoteOf(outcome)
     /\ Writable
     /\ remote \in RemoteSuccessors(attempt[r][s])
     /\ attempt' = [attempt EXCEPT ![r][s] = remote]
     /\ frame' = [frame EXCEPT ![r].outcome = outcome, ![r].tree = TRUE,
                               ![r].pc = "evidence"]
     /\ UNCHANGED <<runStatus, runPlan, approval, request, resolved, checkpoint,
                    evidence, up, world, history>>

\* The provider answers "unknown", rejects, or its result is refused.
ProviderUnknown(r) ==
  LET s == frame[r].cur
  IN /\ ThreadFree /\ frame[r].pc = "await" /\ s \in ProviderStep
     /\ Writable
     /\ attempt' = [attempt EXCEPT ![r][s] = "remote_state_unknown"]
     /\ Goto(r, "unknown")
     /\ UNCHANGED <<runStatus, runPlan, approval, request, resolved, checkpoint,
                    evidence, up, world, history>>

\* The answer cannot be recorded: the store does not write, or its table
\* refuses the state (a success after a cancellation request).
ProviderAnswerRefused(r, remote) ==
  LET s == frame[r].cur
  IN /\ ThreadFree /\ frame[r].pc = "await" /\ s \in ProviderStep
     /\ ~Writable \/ remote \notin RemoteSuccessors(attempt[r][s])
     /\ Goto(r, "fail")
     /\ UNCHANGED <<tables, up, world, history>>

-----------------------------------------------------------------------------
(* execute(): after the await.                                             *)

\* Mutant of FinishUnknown: the run returns without being orphaned.
FinishUnknown_Unwritten(r) ==
  /\ frame[r].pc = "unknown"
  /\ Return(r)
  /\ UNCHANGED <<tables, up, world, history>>

FinishUnknown(r) ==
  /\ frame[r].pc = "unknown"
  /\ Writable
  /\ "orphaned" \in RunSuccessors(runStatus[r])
  /\ runStatus' = [runStatus EXCEPT ![r] = "orphaned"]
  /\ Return(r)
  /\ UNCHANGED <<runPlan, approval, attempt, request, resolved, checkpoint,
                 evidence, up, world, history>>

RecordEvidence(r) ==
  LET s == frame[r].cur
  IN /\ frame[r].pc = "evidence"
     /\ Writable
     /\ evidence' = [evidence EXCEPT ![r][s] = frame[r].outcome]
     /\ Goto(r, "own")
     /\ UNCHANGED <<runStatus, runPlan, approval, attempt, request, resolved,
                    checkpoint, up, world, history>>

\* Mutant of OwnCheckpointDue: a failed step consumes its checkpoint too.
OwnCheckpointDue_Always(r) == frame[r].latest

\* A success consumes the checkpoint the step itself streamed last.
OwnCheckpointDue(r) == frame[r].outcome = "succeeded" /\ frame[r].latest

ConsumeOwnCheckpoint(r) ==
  LET s == frame[r].cur
  IN /\ frame[r].pc = "own" /\ OwnCheckpointDue(r)
     /\ Writable /\ checkpoint[r][s] = "active"
     /\ checkpoint' = [checkpoint EXCEPT ![r][s] = "consumed"]
     /\ Goto(r, "recovered")
     /\ UNCHANGED <<runStatus, runPlan, approval, attempt, request, resolved,
                    evidence, up, world, history>>

\* Any settled outcome consumes the checkpoint the step resumed from.
ConsumeRecoveryCheckpoint(r) ==
  LET s == frame[r].cur
      q == Recovery(r)
  IN /\ frame[r].pc = "recovered" /\ q # None
     /\ Writable /\ checkpoint[q][s] = "active"
     /\ checkpoint' = [checkpoint EXCEPT ![q][s] = "consumed"]
     /\ Goto(r, "verdict")
     /\ UNCHANGED <<runStatus, runPlan, approval, attempt, request, resolved,
                    evidence, up, world, history>>

NoCheckpointDue(r) ==
  /\ \/ frame[r].pc = "own" /\ ~OwnCheckpointDue(r) /\ Goto(r, "recovered")
     \/ frame[r].pc = "recovered" /\ Recovery(r) = None /\ Goto(r, "verdict")
  /\ UNCHANGED <<tables, up, world, history>>

\* Mutant of Continue: only an unconfirmed process tree stops the plan.
Continue_AfterFailure(r) == frame[r].tree

Continue(r) == frame[r].tree /\ frame[r].outcome = "succeeded"

NextStep(r) ==
  /\ frame[r].pc = "verdict" /\ Continue(r)
  /\ frame[r].cur < NSteps
  /\ frame' = [frame EXCEPT ![r].cur = @ + 1, ![r].latest = FALSE,
                            ![r].pc = "step"]
  /\ UNCHANGED <<tables, up, world, history>>

\* Mutant of FinalStatus: a failed last step completes the run.
FinalStatus_Optimistic(r) == IF frame[r].tree THEN "completed" ELSE "orphaned"

\* The status execute() gives the run that ends at this step.
FinalStatus(r) ==
  IF ~frame[r].tree THEN "orphaned"
  ELSE IF frame[r].outcome = "succeeded" THEN "completed"
  ELSE frame[r].outcome

FinishRun(r) ==
  /\ frame[r].pc = "verdict"
  /\ Continue(r) => frame[r].cur = NSteps
  /\ Writable
  /\ FinalStatus(r) \in RunSuccessors(runStatus[r])
  /\ runStatus' = [runStatus EXCEPT ![r] = FinalStatus(r)]
  /\ Return(r)
  /\ UNCHANGED <<runPlan, approval, attempt, request, resolved, checkpoint,
                 evidence, up, world, history>>

\* A write after the await throws into the outer catch.
WriteThrows(r) ==
  /\ \/ frame[r].pc \in {"unknown", "evidence"} /\ ~Writable
     \/ /\ frame[r].pc = "own" /\ OwnCheckpointDue(r)
        /\ ~Writable \/ checkpoint[r][frame[r].cur] # "active"
     \/ /\ frame[r].pc = "recovered" /\ Recovery(r) # None
        /\ ~Writable \/ checkpoint[Recovery(r)][frame[r].cur] # "active"
     \/ /\ frame[r].pc = "verdict" /\ (Continue(r) => frame[r].cur = NSteps)
        /\ ~Writable
  /\ Goto(r, "fail")
  /\ UNCHANGED <<tables, up, world, history>>

\* The outer catch of execute(); when it cannot write, execute() rejects and
\* the row keeps its status.
FailRun(r) ==
  LET status == IF frame[r].aborted THEN "cancelled" ELSE "failed"
  IN /\ frame[r].pc = "fail"
     /\ runStatus' = IF Writable /\ status \in RunSuccessors(runStatus[r])
                     THEN [runStatus EXCEPT ![r] = status]
                     ELSE runStatus
     /\ Return(r)
     /\ UNCHANGED <<runPlan, approval, attempt, request, resolved, checkpoint,
                    evidence, up, world, history>>

-----------------------------------------------------------------------------
(* The person resolves an attempt whose remote state is unknown.           *)

ResolveUnknown(r, s, resolution) ==
  /\ ThreadFree /\ Writable
  /\ attempt[r][s] = "remote_state_unknown"
  /\ attempt' = [attempt EXCEPT ![r][s] = resolution]
  /\ resolved' = [resolved EXCEPT ![r][s] = TRUE]
  /\ UNCHANGED <<runStatus, runPlan, approval, request, checkpoint, evidence,
                 frame, up, world, history>>

-----------------------------------------------------------------------------
(* The process and the world.                                              *)

Crash ==
  /\ MayCrash /\ up
  /\ up' = FALSE
  /\ frame' = [r \in Run |-> NoFrame]
  /\ UNCHANGED <<tables, world, history>>

\* Mutant of Restart: every run is orphaned, not only the running ones.
Restart_OrphansAll ==
  /\ ~up
  /\ up' = TRUE
  /\ store' = "ok"
  /\ runStatus' = [r \in Run |->
       IF runStatus[r] = "none" THEN "none" ELSE "orphaned"]
  /\ UNCHANGED <<runPlan, approval, attempt, request, resolved, checkpoint,
                 evidence, frame, lapsed, descriptor, history>>

\* Mutant of Restart: the attempts of the orphaned runs are left as they were.
Restart_ForgetsAttempts ==
  /\ ~up
  /\ up' = TRUE
  /\ store' = "ok"
  /\ runStatus' = [r \in Run |->
       IF runStatus[r] = "running" THEN "orphaned" ELSE runStatus[r]]
  /\ UNCHANGED <<runPlan, approval, attempt, request, resolved, checkpoint,
                 evidence, frame, lapsed, descriptor, history>>

\* Startup: open the store and, when it is healthy, orphan the runs the last
\* process left "running" (one transaction, recoverRunningRuns).
Restart ==
  /\ ~up
  /\ up' = TRUE
  /\ \/ /\ store' = "ok"
        /\ runStatus' = [r \in Run |->
             IF runStatus[r] = "running" THEN "orphaned" ELSE runStatus[r]]
        /\ attempt' = [r \in Run |-> [s \in Step |->
             IF runStatus[r] = "running" /\ attempt[r][s] \in LiveRemote
             THEN "remote_state_unknown" ELSE attempt[r][s]]]
     \/ /\ store' = "readonly" /\ "readonly" \in StoreFaults
        /\ UNCHANGED <<runStatus, attempt>>
  /\ UNCHANGED <<runPlan, approval, request, resolved, checkpoint, evidence,
                 frame, lapsed, descriptor, history>>

BeginBackup ==
  /\ "backup" \in StoreFaults
  /\ ThreadFree /\ Writable
  /\ store' = "backup"
  /\ UNCHANGED <<tables, frame, up, lapsed, descriptor, history>>

EndBackup ==
  /\ ThreadFree /\ store = "backup"
  /\ store' = "ok"
  /\ UNCHANGED <<tables, frame, up, lapsed, descriptor, history>>

\* The disk fills up, or an integrity check starts to fail.
StoreBreaks(fault) ==
  /\ fault \in StoreFaults
  /\ up /\ store = "ok"
  /\ store' = fault
  /\ UNCHANGED <<tables, frame, up, lapsed, descriptor, history>>

StoreHeals ==
  /\ up /\ store = "full"
  /\ store' = "ok"
  /\ UNCHANGED <<tables, frame, up, lapsed, descriptor, history>>

ApprovalLapses(a) ==
  /\ approval[a].status \in {"pending", "granted"}
  /\ ~lapsed[a]
  /\ lapsed' = [lapsed EXCEPT ![a] = TRUE]
  /\ UNCHANGED <<tables, frame, up, store, descriptor, history>>

DescriptorDrifts(s, d) ==
  /\ descriptor[s] # d
  /\ descriptor' = [descriptor EXCEPT ![s] = d]
  /\ UNCHANGED <<tables, frame, up, store, lapsed, history>>

-----------------------------------------------------------------------------
\* What execute() does on the thread, one transaction at a time.
EngineStep(r) ==
  \/ MarkApproved(r) \/ MarkRunning(r) \/ LaunchThrows(r)
  \/ EnterFreeStep(r) \/ EnterApprovedStep(r) \/ StepRefused(r)
  \/ OpenAttempt(r) \/ MarkDispatching(r) \/ AttemptThrows(r) \/ Dispatch(r)
  \/ FinishUnknown(r) \/ RecordEvidence(r)
  \/ ConsumeOwnCheckpoint(r) \/ ConsumeRecoveryCheckpoint(r)
  \/ NoCheckpointDue(r)
  \/ NextStep(r) \/ FinishRun(r) \/ WriteThrows(r) \/ FailRun(r)

\* What ends the await of a run.
Answer(r) ==
  \/ \E outcome \in Outcome, tree \in BOOLEAN : LocalAnswer(r, outcome, tree)
  \/ LocalThrows(r)
  \/ \E outcome \in Outcome, remote \in SettledRemote :
       ProviderAnswer(r, outcome, remote)
  \/ ProviderUnknown(r)
  \/ \E remote \in SettledRemote : ProviderAnswerRefused(r, remote)

Desk ==
  \/ \E a \in Approval, p \in Plan, s \in Step : RequestApproval(a, p, s)
  \/ \E a \in Approval, decision \in {"granted", "denied"} :
       DecideApproval(a, decision)
  \/ \E a \in Approval : PreflightExpires(a)
  \/ \E r \in Run, p \in Plan : StartRun(r, p)
  \/ \E r \in Run : Cancel(r)
  \/ \E r \in Run, s \in Step, resolution \in SettledRemote :
       ResolveUnknown(r, s, resolution)

World ==
  \/ Crash \/ BeginBackup \/ EndBackup \/ StoreHeals
  \/ \E fault \in {"full", "readonly"} : StoreBreaks(fault)
  \/ \E a \in Approval : ApprovalLapses(a)
  \/ \E s \in Step, d \in Descriptor : DescriptorDrifts(s, d)

Next ==
  \/ \E r \in Run : EngineStep(r) \/ Answer(r) \/ EmitCheckpoint(r)
  \/ Desk
  \/ Restart
  \/ World

Spec == Init /\ [][Next]_vars

=============================================================================

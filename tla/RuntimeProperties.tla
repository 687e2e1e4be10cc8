--------------------------- MODULE RuntimeProperties ---------------------------
(***************************************************************************)
(* What the runtime promises: its type invariant, its safety invariants,   *)
(* what a step may never do, the ledger of effects it implements and its   *)
(* liveness.                                                               *)
(***************************************************************************)
EXTENDS Runtime

\* The type invariant of the runtime and the store's tables.
TypeOK ==
  /\ runStatus \in [Run -> RunStatus]
  /\ runPlan \in [Run -> Plan \cup {None}]
  /\ approval \in [Approval -> ApprovalRecord]
  /\ attempt \in [Run -> [Step -> RemoteState]]
  /\ request \in [Run -> [Step -> Descriptor \cup {None}]]
  /\ resolved \in [Run -> [Step -> BOOLEAN]]
  /\ checkpoint \in [Run -> [Step -> {"none", "active", "consumed"}]]
  /\ evidence \in [Run -> [Step -> Outcome \cup {"none"}]]
  /\ frame \in [Run -> Frame]
  /\ up \in BOOLEAN
  /\ store \in {"ok", "backup", "full", "readonly"}
  /\ lapsed \in [Approval -> BOOLEAN]
  /\ descriptor \in [Step -> Descriptor]
  /\ paid \in [Run -> [Step -> Approval \cup {None}]]
  /\ sent \in [Run -> [Step -> Descriptor \cup {None}]]

-----------------------------------------------------------------------------
\* "An approval serves one plan, step and descriptor and is consumed before
\* the effect" (docs/architecture/runtime-and-approvals.md): whatever was
\* dispatched for a step that needs approval had been paid with an approval
\* for that plan and step and for what was dispatched, already consumed in
\* the store, however descriptors drift, approvals lapse or runs overlap.
EffectsAuthorised ==
  \A r \in Run : \A s \in NeedsApproval :
    sent[r][s] # None =>
      \E a \in Approval :
        /\ paid[r][s] = a
        /\ approval[a] = [status |-> "consumed", plan |-> runPlan[r],
                          step |-> s, does |-> sent[r][s]]

\* Two steps, of the same or of different runs, never share an approval.
ApprovalsSpentOnce ==
  \A r, q \in Run : \A s, t \in Step :
    paid[r][s] # None /\ paid[r][s] = paid[q][t] => r = q /\ s = t

\* A provider call is on record, with the digest of its request, before it is
\* made: whenever the process dies, no remote effect is unaccounted for.
CallsOnRecord ==
  \A r \in Run : \A s \in ProviderStep :
    sent[r][s] # None =>
      /\ request[r][s] = sent[r][s]
      /\ attempt[r][s] \notin {"none", "not_dispatched"}

\* A step is dispatched only when evidence of success of each of its
\* dependencies, in the same run, is in the store.
DependenciesFirst ==
  \A r \in Run : \A s \in Step :
    sent[r][s] # None => \A t \in DependsOn[s] : evidence[r][t] = "succeeded"

\* evaluateOutcome(), the postflight of the orchestration engine: its rows
\* belong together by how the tables are indexed.
Accepted(r) ==
  runStatus[r] = "completed" /\ \A s \in Step : evidence[r][s] = "succeeded"

\* "completed" is never claimed of a run that the postflight rejects, or
\* without every step having been dispatched and, where it ran at a provider,
\* the provider itself having succeeded.
CompletedMeansEvidence ==
  \A r \in Run : runStatus[r] = "completed" =>
    /\ Accepted(r)
    /\ \A s \in Step : /\ sent[r][s] # None
                       /\ s \in ProviderStep => attempt[r][s] = "succeeded"

\* Evidence of a provider step says what the attempt says, and a decision of a
\* person about an unknown attempt never stands beside evidence.
EvidenceMatchesAttempt ==
  \A r \in Run : \A s \in ProviderStep :
    evidence[r][s] # "none" =>
      /\ attempt[r][s] \in RemoteOf(evidence[r][s])
      /\ ~resolved[r][s]

\* A checkpoint is consumed only once the operation it belongs to has settled:
\* there is evidence of its own step, or of the same step of a later run of
\* the plan that resumed the same request.
CheckpointsOutliveDoubt ==
  \A r \in Run : \A s \in Step :
    checkpoint[r][s] = "consumed" =>
      \/ evidence[r][s] = "succeeded"
      \/ \E q \in Run \ {r} :
           /\ runPlan[q] = runPlan[r] /\ request[q][s] = request[r][s]
           /\ evidence[q][s] # "none"

\* While the store writes, nothing is left live that nobody executes
\* (recoverRunningRuns, store.ts 592-640): a run that the store calls running
\* is being executed unless the process is down; an unknown call orphans its
\* run; a provider call whose run is over has an outcome or is known to be
\* unknown, but for a cancellation that the provider answered with a success,
\* left as "cancel_requested" on a cancelled run.
NothingLiveLeftBehind ==
  StoreFaults = {} =>
    \A r \in Run :
      /\ up /\ runStatus[r] = "running" => Active(r)
      /\ \A s \in ProviderStep :
           attempt[r][s] \in LiveRemote /\ runStatus[r] # "running" =>
             attempt[r][s] = "cancel_requested" /\ runStatus[r] = "cancelled"
      /\ \A s \in Step :
           attempt[r][s] = "remote_state_unknown" \/ resolved[r][s] =>
             runStatus[r] = "orphaned" \/ frame[r].pc = "unknown" \/ ~up

\* "If a remote call may have happened and there is no terminal evidence, the
\* workflow ends in remote_state_unknown" (runtime-and-approvals.md): an
\* ended run without evidence of a call it made is orphaned.
EndsUnknownWithoutEvidence ==
  \A r \in Run : \A s \in ProviderStep :
    runStatus[r] \in TerminalRun /\ sent[r][s] # None
      /\ evidence[r][s] = "none" =>
        runStatus[r] = "orphaned"

-----------------------------------------------------------------------------
\* What is in the store's history stays: ended runs do not change status or
\* act again, evidence and spent approvals are final, and an attempt leaves a
\* settled or unknown state only by a person's decision about an unknown one.
HistoryIsFinal ==
  [][\A r \in Run :
       /\ runStatus[r] \in TerminalRun =>
            runStatus'[r] = runStatus[r] /\ sent'[r] = sent[r]
              /\ evidence'[r] = evidence[r]
       /\ \A s \in Step :
            /\ evidence[r][s] # "none" => evidence'[r][s] = evidence[r][s]
            /\ sent[r][s] # None => sent'[r][s] = sent[r][s]
            /\ attempt[r][s] \in SettledRemote => attempt'[r][s] = attempt[r][s]
            /\ attempt[r][s] = "remote_state_unknown"
                 /\ attempt'[r][s] # attempt[r][s] => resolved'[r][s]]_vars

\* "Failures, timeout and cancellation stop the plan"
\* (docs/architecture/runtime-and-approvals.md): once a cancellation has been
\* accepted, no further step of the run is dispatched.
CancellationStopsPlan ==
  [][\A r \in Run : \A s \in Step :
       frame[r].aborted /\ sent[r][s] = None => sent'[r][s] = None]_vars

\* The runtime implements the ledger of effects: each run's step that needs
\* approval is a slot, each approval a permit.
LedgerState ==
  [none |-> "none", pending |-> "asked", granted |-> "granted",
   denied |-> "void", expired |-> "void", consumed |-> "spent"]

EffectOf(p, s, d) == [plan |-> p, step |-> s, does |-> d]

Ledger == INSTANCE EffectLedger WITH
  Permit <- Approval,
  Slot <- Run \X NeedsApproval,
  Effect <- [plan : Plan, step : Step, does : Descriptor],
  Nothing <- None,
  permit <- [a \in Approval |->
     [state |-> LedgerState[approval[a].status],
      for |-> IF approval[a].status = "none" THEN None
              ELSE EffectOf(approval[a].plan, approval[a].step,
                            approval[a].does)]],
  spentOn <- [x \in Run \X NeedsApproval |-> paid[x[1]][x[2]]],
  done <- [x \in Run \X NeedsApproval |->
     IF sent[x[1]][x[2]] = None THEN None
     ELSE EffectOf(runPlan[x[1]], x[2], sent[x[1]][x[2]])]

ImplementsLedger == Ledger!LedgerSpec

\* While the process is up, a run the store calls running does not stay so for
\* ever: it ends, or the process goes down (and the next start orphans it).
RunsSettle ==
  \A r \in Run :
    up /\ runStatus[r] = "running" ~> runStatus[r] \in TerminalRun \/ ~up

=============================================================================

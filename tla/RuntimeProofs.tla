----------------------------- MODULE RuntimeProofs -----------------------------
(***************************************************************************)
(* Proofs about the runtime, for every set of runs, plans, approvals and   *)
(* descriptors, every number of steps and every combination of faults.     *)
(***************************************************************************)
EXTENDS RuntimeProperties, TLAPS

\* NoFrame is a frame.
LEMMA NoFrameType == NoFrame \in Frame
BY ConstantsAssumption DEF NoFrame, Frame, PC, Outcome, Step

\* The type of the frame a run returns with, or goes on with at a label.
LEMMA FrameMoves ==
  ASSUME frame \in [Run -> Frame], NEW r \in Run
  PROVE  /\ Return(r) => frame' \in [Run -> Frame]
         /\ \A label \in PC : Goto(r, label) => frame' \in [Run -> Frame]
<1>1. Return(r) => frame' \in [Run -> Frame]
  BY NoFrameType DEF Return
<1>2. ASSUME NEW label \in PC, Goto(r, label)
      PROVE  frame' \in [Run -> Frame]
  <2>1. [frame[r] EXCEPT !.pc = label] \in Frame
    BY DEF Frame
  <2>2. frame' = [frame EXCEPT ![r] = [frame[r] EXCEPT !.pc = label]]
    BY <1>2 DEF Goto
  <2> QED BY <2>1, <2>2
<1> QED BY <1>1, <1>2


\* A change of status keeps approvals well-formed, whatever it is changed on.
LEMMA StatusChange ==
  ASSUME approval \in [Approval -> ApprovalRecord],
         NEW st \in ApprovalStatus, NEW a,
         approval' = [approval EXCEPT ![a].status = st]
  PROVE  approval' \in [Approval -> ApprovalRecord]
<1>1. CASE a \in Approval
  <2>1. [approval[a] EXCEPT !.status = st] \in ApprovalRecord
    BY <1>1 DEF ApprovalRecord
  <2> QED BY <1>1, <2>1
<1>2. CASE a \notin Approval
  BY <1>2
<1> QED BY <1>1, <1>2

\* Every step of the engine preserves the type invariant.
LEMMA EngineTypes ==
  ASSUME TypeOK, NEW r \in Run, EngineStep(r)
  PROVE  TypeOK'
<1> USE ConstantsAssumption DEF TypeOK, tables, world, history
<1>0. frame[r] \in Frame
  OBVIOUS
<1>1. CASE MarkApproved(r)
  BY <1>0, <1>1, FrameMoves
  DEF MarkApproved, RunStatus, TerminalRun, RemoteState, ApprovalStatus,
      Outcome, PC, Frame, Step
<1>2. CASE MarkRunning(r)
  BY <1>0, <1>2, FrameMoves
  DEF MarkRunning, RunStatus, TerminalRun, RemoteState, ApprovalStatus,
      Outcome, PC, Frame, Step
<1>3. CASE LaunchThrows(r)
  BY <1>0, <1>3, FrameMoves
  DEF LaunchThrows, RunStatus, TerminalRun, RemoteState, ApprovalStatus,
      Outcome, PC, Frame, Step
<1>4. CASE EnterFreeStep(r)
  BY <1>0, <1>4, FrameMoves
  DEF EnterFreeStep, RunStatus, TerminalRun, RemoteState, ApprovalStatus,
      Outcome, PC, Frame, Step
<1>5. CASE EnterApprovedStep(r)
  <2> DEFINE a == frame[r].approvalOf[frame[r].cur]
  <2>1. a \in Approval \cup {None}
    BY <1>0 DEF Frame, Step
  <2>2. frame' \in [Run -> Frame]
    BY <1>5, FrameMoves DEF EnterApprovedStep, PC
  <2>3. approval' \in [Approval -> ApprovalRecord]
    <3> DEFINE st == IF lapsed[a] THEN "expired" ELSE "consumed"
    <3>1. approval' = [approval EXCEPT ![a].status = st]
      BY <1>5 DEF EnterApprovedStep
    <3>2. st \in ApprovalStatus
      BY DEF ApprovalStatus
    <3> QED BY <3>1, <3>2, StatusChange
  <2>4. paid' \in [Run -> [Step -> Approval \cup {None}]]
    BY <1>5, <2>1 DEF EnterApprovedStep
  <2> QED BY <1>5, <2>2, <2>3, <2>4 DEF EnterApprovedStep
<1>6. CASE StepRefused(r)
  BY <1>0, <1>6, FrameMoves
  DEF StepRefused, RunStatus, TerminalRun, RemoteState, ApprovalStatus,
      Outcome, PC, Frame, Step
<1>7. CASE OpenAttempt(r)
  BY <1>0, <1>7, FrameMoves
  DEF OpenAttempt, RunStatus, TerminalRun, RemoteState, ApprovalStatus,
      Outcome, PC, Frame, Step
<1>8. CASE MarkDispatching(r)
  BY <1>0, <1>8, FrameMoves
  DEF MarkDispatching, RunStatus, TerminalRun, RemoteState, ApprovalStatus,
      Outcome, PC, Frame, Step
<1>9. CASE AttemptThrows(r)
  BY <1>0, <1>9, FrameMoves
  DEF AttemptThrows, RunStatus, TerminalRun, RemoteState, ApprovalStatus,
      Outcome, PC, Frame, Step
<1>10. CASE Dispatch(r)
  BY <1>0, <1>10, FrameMoves
  DEF Dispatch, RunStatus, TerminalRun, RemoteState, ApprovalStatus, Outcome,
      PC, Frame, Step
<1>11. CASE FinishUnknown(r)
  BY <1>0, <1>11, FrameMoves
  DEF FinishUnknown, RunStatus, TerminalRun, RemoteState, ApprovalStatus,
      Outcome, PC, Frame, Step
<1>12. CASE RecordEvidence(r)
  BY <1>0, <1>12, FrameMoves
  DEF RecordEvidence, RunStatus, TerminalRun, RemoteState, ApprovalStatus,
      Outcome, PC, Frame, Step
<1>13. CASE ConsumeOwnCheckpoint(r)
  BY <1>0, <1>13, FrameMoves
  DEF ConsumeOwnCheckpoint, RunStatus, TerminalRun, RemoteState,
      ApprovalStatus, Outcome, PC, Frame, Step
<1>14. CASE ConsumeRecoveryCheckpoint(r)
  BY <1>0, <1>14, FrameMoves
  DEF ConsumeRecoveryCheckpoint, RunStatus, TerminalRun, RemoteState,
      ApprovalStatus, Outcome, PC, Frame, Step
<1>15. CASE NoCheckpointDue(r)
  BY <1>0, <1>15, FrameMoves
  DEF NoCheckpointDue, RunStatus, TerminalRun, RemoteState, ApprovalStatus,
      Outcome, PC, Frame, Step
<1>16. CASE NextStep(r)
  <2> DEFINE g == [frame[r] EXCEPT !.cur = frame[r].cur + 1,
                                   !.latest = FALSE, !.pc = "step"]
  <2>1. frame[r].cur + 1 \in 1 .. NSteps
    BY <1>0, <1>16 DEF NextStep, Frame
  <2>2. g \in Frame
    BY <1>0, <2>1 DEF Frame, PC
  <2>3. frame' = [frame EXCEPT ![r] = g]
    BY <1>16 DEF NextStep
  <2> QED BY <1>16, <2>2, <2>3 DEF NextStep
<1>17. CASE FinishRun(r)
  BY <1>0, <1>17, FrameMoves
  DEF FinishRun, FinalStatus, RunStatus, TerminalRun, RemoteState,
      ApprovalStatus, Outcome, PC, Frame, Step
<1>18. CASE WriteThrows(r)
  BY <1>0, <1>18, FrameMoves
  DEF WriteThrows, RunStatus, TerminalRun, RemoteState, ApprovalStatus,
      Outcome, PC, Frame, Step
<1>19. CASE FailRun(r)
  BY <1>0, <1>19, FrameMoves
  DEF FailRun, RunStatus, TerminalRun, RemoteState, ApprovalStatus, Outcome,
      PC, Frame, Step
<1> HIDE DEF TypeOK, tables, world, history
<1> QED BY <1>1, <1>2, <1>3, <1>4, <1>5, <1>6, <1>7, <1>8, <1>9, <1>10, <1>11,
           <1>12, <1>13, <1>14, <1>15, <1>16, <1>17, <1>18, <1>19
        DEF EngineStep

\* So does every answer of a dispatcher and every streamed checkpoint.
LEMMA AnswerTypes ==
  ASSUME TypeOK, NEW r \in Run, Answer(r) \/ EmitCheckpoint(r)
  PROVE  TypeOK'
<1> USE ConstantsAssumption DEF TypeOK, tables, world, history
<1>0. frame[r] \in Frame
  OBVIOUS
<1>1. ASSUME NEW outcome \in Outcome, NEW tree \in BOOLEAN,
             NEW label \in PC,
             frame' = [frame EXCEPT ![r].outcome = outcome, ![r].tree = tree,
                                    ![r].pc = label]
      PROVE  frame' \in [Run -> Frame]
  <2> DEFINE g == [frame[r] EXCEPT !.outcome = outcome, !.tree = tree,
                                   !.pc = label]
  <2>1. g \in Frame
    BY <1>0 DEF Frame
  <2>2. frame' = [frame EXCEPT ![r] = g]
    BY <1>1
  <2> QED BY <2>1, <2>2
<1>2. ASSUME NEW outcome \in Outcome, NEW tree \in BOOLEAN,
             LocalAnswer(r, outcome, tree)
      PROVE  TypeOK'
  BY <1>1, <1>2 DEF LocalAnswer, PC
<1>3. CASE LocalThrows(r)
  BY <1>3, FrameMoves DEF LocalThrows, PC
<1>4. ASSUME NEW outcome \in Outcome, NEW remote \in SettledRemote,
             ProviderAnswer(r, outcome, remote)
      PROVE  TypeOK'
  BY <1>1, <1>4 DEF ProviderAnswer, PC, SettledRemote, RemoteState
<1>5. CASE ProviderUnknown(r)
  BY <1>5, FrameMoves DEF ProviderUnknown, PC, RemoteState
<1>6. ASSUME NEW remote \in SettledRemote, ProviderAnswerRefused(r, remote)
      PROVE  TypeOK'
  BY <1>6, FrameMoves DEF ProviderAnswerRefused, PC
<1>7. CASE EmitCheckpoint(r)
  <2>1. [frame[r] EXCEPT !.latest = TRUE] \in Frame
    BY <1>0 DEF Frame
  <2>2. frame' = [frame EXCEPT ![r] = [frame[r] EXCEPT !.latest = TRUE]]
    BY <1>7 DEF EmitCheckpoint
  <2> QED BY <1>7, <2>1, <2>2 DEF EmitCheckpoint
<1> HIDE DEF TypeOK, tables, world, history
<1> QED BY <1>2, <1>3, <1>4, <1>5, <1>6, <1>7 DEF Answer

\* So does everything a person does at the desk.
LEMMA DeskTypes ==
  ASSUME TypeOK, Desk
  PROVE  TypeOK'
<1> USE ConstantsAssumption DEF TypeOK, tables, world, history
<1>1. ASSUME NEW a \in Approval, NEW p \in Plan, NEW s \in Step,
             RequestApproval(a, p, s)
      PROVE  TypeOK'
  BY <1>1 DEF RequestApproval, ApprovalRecord, ApprovalStatus
<1>2. ASSUME NEW a \in Approval, NEW decision \in {"granted", "denied"},
             DecideApproval(a, decision)
      PROVE  TypeOK'
  <2> DEFINE st == IF lapsed[a] THEN "expired" ELSE decision
  <2>1. st \in ApprovalStatus
    BY DEF ApprovalStatus
  <2>2. approval' = [approval EXCEPT ![a].status = st]
    BY <1>2 DEF DecideApproval
  <2>3. approval' \in [Approval -> ApprovalRecord]
    BY <2>1, <2>2, StatusChange
  <2> QED BY <1>2, <2>3 DEF DecideApproval
<1>3. ASSUME NEW a \in Approval, PreflightExpires(a)
      PROVE  TypeOK'
  <2>1. approval' = [approval EXCEPT ![a].status = "expired"]
    BY <1>3 DEF PreflightExpires
  <2>2. approval' \in [Approval -> ApprovalRecord]
    BY <2>1, StatusChange DEF ApprovalStatus
  <2> QED BY <1>3, <2>2 DEF PreflightExpires
<1>4. ASSUME NEW r \in Run, NEW p \in Plan, StartRun(r, p)
      PROVE  TypeOK'
  <2>1. PICK chosen \in [NeedsApproval -> Approval],
             recoveries \in [ProviderStep -> Run \cup {None}] :
          frame' = [frame EXCEPT ![r] = FirstFrame(chosen, recoveries)]
    BY <1>4 DEF StartRun
  <2>2. FirstFrame(chosen, recoveries) \in Frame
    BY NoFrameType DEF FirstFrame, Frame, PC
  <2>3. frame' \in [Run -> Frame]
    BY <2>1, <2>2
  <2> QED BY <1>4, <2>3 DEF StartRun, RunStatus
<1>5. ASSUME NEW r \in Run, Cancel(r)
      PROVE  TypeOK'
  <2>0. frame[r] \in Frame
    OBVIOUS
  <2>1. [frame[r] EXCEPT !.aborted = TRUE] \in Frame
    BY <2>0 DEF Frame
  <2>2. frame' = [frame EXCEPT ![r] = [frame[r] EXCEPT !.aborted = TRUE]]
    BY <1>5 DEF Cancel
  <2> QED BY <1>5, <2>1, <2>2 DEF Cancel, RemoteState
<1>6. ASSUME NEW r \in Run, NEW s \in Step, NEW resolution \in SettledRemote,
             ResolveUnknown(r, s, resolution)
      PROVE  TypeOK'
  BY <1>6 DEF ResolveUnknown, SettledRemote, RemoteState
<1> HIDE DEF TypeOK, tables, world, history
<1> QED BY <1>1, <1>2, <1>3, <1>4, <1>5, <1>6 DEF Desk

\* So do crashes, restarts and everything else the world does.
LEMMA WorldTypes ==
  ASSUME TypeOK, Restart \/ World
  PROVE  TypeOK'
<1> USE ConstantsAssumption DEF TypeOK, tables, world, history
<1>1. CASE Restart
  BY <1>1 DEF Restart, RunStatus, RemoteState
<1>2. CASE Crash
  BY <1>2, NoFrameType DEF Crash
<1>3. CASE BeginBackup \/ EndBackup \/ StoreHeals
  BY <1>3 DEF BeginBackup, EndBackup, StoreHeals
<1>4. ASSUME NEW fault \in {"full", "readonly"}, StoreBreaks(fault)
      PROVE  TypeOK'
  BY <1>4 DEF StoreBreaks
<1>5. ASSUME NEW a \in Approval, ApprovalLapses(a)
      PROVE  TypeOK'
  BY <1>5 DEF ApprovalLapses
<1>6. ASSUME NEW s \in Step, NEW d \in Descriptor, DescriptorDrifts(s, d)
      PROVE  TypeOK'
  BY <1>6 DEF DescriptorDrifts
<1> HIDE DEF TypeOK, tables, world, history
<1> QED BY <1>1, <1>2, <1>3, <1>4, <1>5, <1>6 DEF World

\* The runtime and its tables never leave their types.
THEOREM TypesHold == Spec => []TypeOK
<1>1. Init => TypeOK
  BY ConstantsAssumption, NoFrameType
  DEF Init, TypeOK, NoApproval, ApprovalRecord, ApprovalStatus, RunStatus,
      RemoteState, Outcome, Step
<1>2. TypeOK /\ [Next]_vars => TypeOK'
  <2> SUFFICES ASSUME TypeOK, [Next]_vars
               PROVE  TypeOK'
    OBVIOUS
  <2>1. CASE UNCHANGED vars
    BY <2>1 DEF TypeOK, vars, tables, world, history
  <2>2. CASE Next
    BY <2>2, EngineTypes, AnswerTypes, DeskTypes, WorldTypes DEF Next
  <2> QED BY <2>1, <2>2
<1> QED BY <1>1, <1>2, PTL DEF Spec

-----------------------------------------------------------------------------
(***************************************************************************)
(* No effect without a spent approval.  EffectsAuthorised does not follow  *)
(* from itself: between consuming an approval and dispatching, the run     *)
(* holds a paid step that has not acted, and a step that has not been      *)
(* reached must not have been paid or acted before.  PayInv says so of one *)
(* run.                                                                    *)
(***************************************************************************)

\* Where the current step has not been paid, or has not acted, yet.
BeforePaying == {"created", "approved", "step"}
BeforeActing == BeforePaying \cup {"attempt", "opened", "dispatching"}

Launched(r) == frame[r].pc # "idle"

LaunchInv(r) ==
  /\ Launched(r) =>
       /\ runStatus[r] # "none"
       /\ frame[r].planned \in [Step -> Descriptor]
       /\ \A s \in NeedsApproval : frame[r].approvalOf[s] \in Approval
  /\ runStatus[r] = "none" =>
       \A s \in Step : paid[r][s] = None /\ sent[r][s] = None

\* The steps ahead of the run are untouched.
AheadInv(r) ==
  Launched(r) =>
    \A s \in Step :
      /\ s > frame[r].cur => paid[r][s] = None /\ sent[r][s] = None
      /\ s = frame[r].cur =>
           /\ frame[r].pc \in BeforePaying => paid[r][s] = None
           /\ frame[r].pc \in BeforeActing => sent[r][s] = None

\* What was paid was paid with an approval of this plan and step, and what
\* acts or acted is what that approval was asked for.
PaidInv(r) ==
  /\ \A s \in Step : paid[r][s] # None =>
       /\ paid[r][s] \in Approval
       /\ approval[paid[r][s]].status = "consumed"
       /\ approval[paid[r][s]].plan = runPlan[r]
       /\ approval[paid[r][s]].step = s
  /\ Launched(r) /\ frame[r].pc \in BeforeActing \ BeforePaying =>
       (frame[r].cur \in NeedsApproval =>
         /\ paid[r][frame[r].cur] # None
         /\ approval[paid[r][frame[r].cur]].does
              = frame[r].planned[frame[r].cur])
  /\ \A s \in NeedsApproval : sent[r][s] # None =>
       /\ paid[r][s] # None
       /\ approval[paid[r][s]].does = sent[r][s]

PayInv == \A r \in Run : LaunchInv(r) /\ AheadInv(r) /\ PaidInv(r)

\* A step is calm when it leaves payments, effects, approvals and plans alone,
\* no run comes into being or changes its step, and no run goes back to a
\* point before paying or acting.
Calm ==
  /\ UNCHANGED <<paid, sent, approval, runPlan>>
  /\ \A q \in Run :
       /\ runStatus'[q] = "none" => runStatus[q] = "none"
       /\ frame'[q].pc # "idle" =>
            /\ frame[q].pc # "idle" /\ runStatus'[q] # "none"
            /\ frame'[q].cur = frame[q].cur
            /\ frame'[q].planned = frame[q].planned
            /\ frame'[q].approvalOf = frame[q].approvalOf
            /\ frame'[q].pc \in BeforePaying => frame[q].pc \in BeforePaying
            /\ frame'[q].pc \in BeforeActing => frame[q].pc \in BeforeActing
            /\ frame'[q].pc \in BeforeActing \ BeforePaying =>
                 frame[q].pc \in BeforeActing \ BeforePaying

LEMMA CalmKeepsPay ==
  ASSUME TypeOK, PayInv, Calm
  PROVE  PayInv'
<1> SUFFICES ASSUME NEW q \in Run
             PROVE  LaunchInv(q)' /\ AheadInv(q)' /\ PaidInv(q)'
  BY DEF PayInv
<1>0. LaunchInv(q) /\ AheadInv(q) /\ PaidInv(q)
  BY DEF PayInv
<1>1. LaunchInv(q)'
  BY <1>0 DEF Calm, LaunchInv, Launched
<1>2. AheadInv(q)'
  BY <1>0 DEF Calm, AheadInv, Launched
<1>3. PaidInv(q)'
  BY <1>0 DEF Calm, PaidInv, Launched
<1> QED BY <1>1, <1>2, <1>3

\* Returning and moving on to a later point are calm.
LEMMA CalmMoves ==
  ASSUME TypeOK, PayInv, NEW r \in Run,
         UNCHANGED <<paid, sent, approval, runPlan>>,
         \A q \in Run : runStatus'[q] = "none" => runStatus[q] = "none",
         frame[r].pc # "idle",
         \/ Return(r)
         \/ \E label \in PC \ BeforeActing : Goto(r, label)
         \/ frame[r].pc \in BeforePaying
              /\ \E label \in BeforePaying : Goto(r, label)
         \/ frame[r].pc \in BeforeActing \ BeforePaying
              /\ \E label \in BeforeActing \ BeforePaying : Goto(r, label)
  PROVE  PayInv'
<1>0. frame \in [Run -> Frame] /\ frame[r] \in Frame
  BY DEF TypeOK
<1>1. \A q \in Run : frame[q].pc # "idle" => runStatus'[q] # "none"
  BY DEF PayInv, LaunchInv, Launched
<1>2. \A q \in Run \ {r} : frame'[q] = frame[q]
  BY <1>0 DEF Return, Goto
<1>3. CASE Return(r)
  <2>1. frame'[r].pc = "idle"
    BY <1>0, <1>3 DEF Return, NoFrame
  <2>2. Calm
    BY <1>1, <1>2, <2>1 DEF Calm
  <2> QED BY <2>2, CalmKeepsPay
<1>4. ASSUME NEW label \in PC, Goto(r, label),
             label \in BeforePaying => frame[r].pc \in BeforePaying,
             label \in BeforeActing => frame[r].pc \in BeforeActing,
             label \in BeforeActing \ BeforePaying =>
               frame[r].pc \in BeforeActing \ BeforePaying
      PROVE  PayInv'
  <2>1. /\ frame'[r].pc = label
        /\ frame'[r].cur = frame[r].cur
        /\ frame'[r].planned = frame[r].planned
        /\ frame'[r].approvalOf = frame[r].approvalOf
    BY <1>0, <1>4 DEF Goto, Frame
  <2>2. Calm
    BY <1>1, <1>2, <1>4, <2>1 DEF Calm
  <2> QED BY <2>2, CalmKeepsPay
<1> QED BY <1>3, <1>4 DEF BeforePaying, BeforeActing, PC

\* Most of what the engine does is calm.
LEMMA CalmEngine ==
  ASSUME TypeOK, PayInv, NEW r \in Run,
         \/ MarkApproved(r) \/ MarkRunning(r) \/ LaunchThrows(r)
         \/ StepRefused(r) \/ OpenAttempt(r) \/ MarkDispatching(r)
         \/ AttemptThrows(r) \/ FinishUnknown(r) \/ RecordEvidence(r)
         \/ ConsumeOwnCheckpoint(r) \/ ConsumeRecoveryCheckpoint(r)
         \/ NoCheckpointDue(r) \/ FinishRun(r) \/ WriteThrows(r) \/ FailRun(r)
  PROVE  PayInv'
<1> USE DEF tables, history, BeforePaying, BeforeActing, PC
<1>0. runStatus \in [Run -> RunStatus] /\ frame[r] \in Frame
  BY DEF TypeOK
<1>1. CASE MarkApproved(r)
  BY <1>0, <1>1, CalmMoves DEF MarkApproved
<1>2. CASE MarkRunning(r)
  BY <1>0, <1>2, CalmMoves DEF MarkRunning
<1>3. CASE LaunchThrows(r)
  BY <1>0, <1>3, CalmMoves DEF LaunchThrows
<1>4. CASE StepRefused(r)
  BY <1>0, <1>4, CalmMoves DEF StepRefused
<1>5. CASE OpenAttempt(r)
  BY <1>0, <1>5, CalmMoves DEF OpenAttempt
<1>6. CASE MarkDispatching(r)
  BY <1>0, <1>6, CalmMoves DEF MarkDispatching
<1>7. CASE AttemptThrows(r)
  BY <1>0, <1>7, CalmMoves DEF AttemptThrows
<1>8. CASE FinishUnknown(r)
  BY <1>0, <1>8, CalmMoves DEF FinishUnknown
<1>9. CASE RecordEvidence(r)
  BY <1>0, <1>9, CalmMoves DEF RecordEvidence
<1>10. CASE ConsumeOwnCheckpoint(r)
  BY <1>0, <1>10, CalmMoves DEF ConsumeOwnCheckpoint
<1>11. CASE ConsumeRecoveryCheckpoint(r)
  BY <1>0, <1>11, CalmMoves DEF ConsumeRecoveryCheckpoint
<1>12. CASE NoCheckpointDue(r)
  BY <1>0, <1>12, CalmMoves DEF NoCheckpointDue
<1>13. CASE FinishRun(r)
  BY <1>0, <1>13, CalmMoves DEF FinishRun, FinalStatus, Frame, Outcome
<1>14. CASE WriteThrows(r)
  BY <1>0, <1>14, CalmMoves DEF WriteThrows
<1>15. CASE FailRun(r)
  BY <1>0, <1>15, CalmMoves DEF FailRun
<1> QED BY <1>1, <1>2, <1>3, <1>4, <1>5, <1>6, <1>7, <1>8, <1>9, <1>10, <1>11,
           <1>12, <1>13, <1>14, <1>15

\* Passing the checks of a step that needs no approval.
LEMMA EnterFreeStepPays ==
  ASSUME TypeOK, PayInv, NEW r \in Run, EnterFreeStep(r)
  PROVE  PayInv'
<1> SUFFICES ASSUME NEW q \in Run
             PROVE  LaunchInv(q)' /\ AheadInv(q)' /\ PaidInv(q)'
  BY DEF PayInv
<1> USE DEF EnterFreeStep, Goto, tables, history, BeforePaying, BeforeActing
<1>0. LaunchInv(q) /\ AheadInv(q) /\ PaidInv(q)
  BY DEF PayInv
<1>1. CASE q # r
  BY <1>0, <1>1 DEF TypeOK, LaunchInv, AheadInv, PaidInv, Launched
<1>2. CASE q = r
  <2>1. /\ frame'[r].pc = "attempt" /\ frame'[r].cur = frame[r].cur
        /\ frame'[r].planned = frame[r].planned
        /\ frame'[r].approvalOf = frame[r].approvalOf
        /\ frame[r].cur \notin NeedsApproval
    BY DEF TypeOK, Frame
  <2>2. LaunchInv(r)' /\ AheadInv(r)'
    BY <1>0, <1>2, <2>1 DEF LaunchInv, AheadInv, Launched
  <2>3. PaidInv(r)'
    BY <1>0, <1>2, <2>1 DEF PaidInv, Launched
  <2> QED BY <1>2, <2>2, <2>3
<1> QED BY <1>1, <1>2

\* A run's payments stay in order while neither they nor the approvals they
\* were made with change, and the run does not come closer to acting.
LEMMA PaidKept ==
  ASSUME TypeOK, NEW q \in Run, PaidInv(q),
         \A x \in Step : paid'[q][x] = paid[q][x],
         sent'[q] = sent[q], runPlan'[q] = runPlan[q],
         \A x \in Step : paid[q][x] # None =>
           approval'[paid[q][x]] = approval[paid[q][x]],
         frame'[q].pc \in BeforeActing \ BeforePaying => frame'[q] = frame[q]
  PROVE  PaidInv(q)'
<1>1. \A x \in Step : paid'[q][x] # None =>
        /\ paid'[q][x] \in Approval
        /\ approval'[paid'[q][x]].status = "consumed"
        /\ approval'[paid'[q][x]].plan = runPlan'[q]
        /\ approval'[paid'[q][x]].step = x
  BY DEF PaidInv
<1>2. \A x \in NeedsApproval : sent'[q][x] # None =>
        paid'[q][x] # None /\ approval'[paid'[q][x]].does = sent'[q][x]
  BY ConstantsAssumption DEF PaidInv
<1>3. ASSUME Launched(q)', frame'[q].pc \in BeforeActing \ BeforePaying,
             frame'[q].cur \in NeedsApproval
      PROVE  /\ paid'[q][frame'[q].cur] # None
             /\ approval'[paid'[q][frame'[q].cur]].does
                  = frame'[q].planned[frame'[q].cur]
  <2>1. frame'[q] = frame[q] /\ frame[q].cur \in Step
    BY <1>3, ConstantsAssumption
  <2> QED BY <1>3, <2>1 DEF PaidInv, Launched
<1> QED BY <1>1, <1>2, <1>3 DEF PaidInv

\* Consuming the approval of a step: it was granted, so it had not been spent.
LEMMA EnterApprovedStepPays ==
  ASSUME TypeOK, PayInv, NEW r \in Run, EnterApprovedStep(r)
  PROVE  PayInv'
<1> DEFINE s == frame[r].cur
           a == frame[r].approvalOf[s]
<1> SUFFICES ASSUME NEW q \in Run
             PROVE  LaunchInv(q)' /\ AheadInv(q)' /\ PaidInv(q)'
  BY DEF PayInv
<1>0. /\ LaunchInv(q) /\ AheadInv(q) /\ PaidInv(q)
      /\ LaunchInv(r) /\ AheadInv(r) /\ PaidInv(r)
  BY DEF PayInv
<1>1. /\ frame[r].pc = "step" /\ s \in NeedsApproval /\ s \in Step
      /\ approval[a].status = "granted" /\ Covers(a, runPlan[r], s)
      /\ descriptor[s] = frame[r].planned[s]
      /\ UNCHANGED <<runStatus, runPlan, sent>>
  BY ConstantsAssumption DEF EnterApprovedStep, StepReady
<1>2. a \in Approval /\ a # None
  BY <1>0, <1>1, ConstantsAssumption DEF LaunchInv, Launched
<1>3. /\ approval' \in [Approval -> ApprovalRecord]
      /\ \A b \in Approval \ {a} : approval'[b] = approval[b]
      /\ approval'[a].plan = approval[a].plan
      /\ approval'[a].step = approval[a].step
      /\ approval'[a].does = approval[a].does
      /\ ~lapsed[a] => approval'[a].status = "consumed"
  <2>1. approval \in [Approval -> ApprovalRecord] /\ approval[a] \in ApprovalRecord
    BY <1>2 DEF TypeOK
  <2>2. approval' = [approval EXCEPT ![a].status =
                       IF lapsed[a] THEN "expired" ELSE "consumed"]
    BY DEF EnterApprovedStep
  <2>3. approval' \in [Approval -> ApprovalRecord]
    BY <2>1, <2>2, StatusChange DEF ApprovalStatus
  <2> QED BY <1>2, <2>1, <2>2, <2>3 DEF ApprovalRecord
<1>4. /\ \A p \in Run \ {r} : frame'[p] = frame[p]
      /\ frame'[r].cur = frame[r].cur
      /\ frame'[r].planned = frame[r].planned
      /\ frame'[r].approvalOf = frame[r].approvalOf
      /\ frame'[r].pc = IF lapsed[a] THEN "fail" ELSE "attempt"
  BY DEF EnterApprovedStep, Goto, TypeOK, Frame
<1>5. \A p \in Run : \A x \in Step :
        paid'[p][x] = IF ~lapsed[a] /\ p = r /\ x = s THEN a ELSE paid[p][x]
  BY <1>1 DEF EnterApprovedStep, TypeOK
\* What was paid before was paid with other approvals.
<1>6. \A x \in Step : paid[q][x] # None => paid[q][x] \in Approval \ {a}
  BY <1>0, <1>1 DEF PaidInv
<1>7. LaunchInv(q)'
  BY <1>0, <1>1, <1>4, <1>5 DEF LaunchInv, Launched
<1>8. sent[r][s] = None
  BY <1>0, <1>1 DEF AheadInv, Launched, BeforeActing, BeforePaying
<1>9. /\ frame[q].cur \in Nat /\ s \in Nat
      /\ s \in Step /\ NeedsApproval \subseteq Step /\ Step \subseteq Nat
  BY <1>1, ConstantsAssumption DEF TypeOK, Frame, Step
<1>10. AheadInv(q)'
  <2>1. CASE q # r
    BY <1>0, <1>1, <1>4, <1>5, <2>1 DEF AheadInv, Launched
  <2>2. CASE q = r
    BY <1>0, <1>1, <1>4, <1>5, <1>8, <1>9, <2>2
    DEF AheadInv, Launched, BeforePaying, BeforeActing
  <2> QED BY <2>1, <2>2
<1>11. PaidInv(q)'
  <2>1. CASE q # r \/ lapsed[a]
    <3>1. \A x \in Step : paid'[q][x] = paid[q][x]
      BY <1>5, <2>1
    <3>2. \A x \in Step : paid[q][x] # None =>
            approval'[paid[q][x]] = approval[paid[q][x]]
      BY <1>3, <1>6
    <3>3. frame'[q].pc \in BeforeActing \ BeforePaying => frame'[q] = frame[q]
      BY <1>4, <2>1 DEF BeforeActing, BeforePaying
    <3> QED BY <1>0, <1>1, <3>1, <3>2, <3>3, PaidKept
  <2>2. CASE q = r /\ ~lapsed[a]
    <3>1. /\ paid'[r][s] = a
          /\ \A x \in Step \ {s} : paid'[r][x] = paid[r][x]
      BY <1>1, <1>5, <2>2
    <3>2. \A x \in Step \ {s} : paid[r][x] # None =>
            approval'[paid[r][x]] = approval[paid[r][x]]
      BY <1>3, <1>6, <2>2
    <3>3. /\ approval'[a].status = "consumed" /\ approval'[a].plan = runPlan[r]
          /\ approval'[a].step = s /\ approval'[a].does = frame[r].planned[s]
      BY <1>1, <1>3, <2>2 DEF Covers
    <3>4. \A x \in Step : paid'[r][x] # None =>
            /\ paid'[r][x] \in Approval
            /\ approval'[paid'[r][x]].status = "consumed"
            /\ approval'[paid'[r][x]].plan = runPlan'[r]
            /\ approval'[paid'[r][x]].step = x
      BY <1>0, <1>1, <1>2, <3>1, <3>2, <3>3 DEF PaidInv
    <3>5. \A x \in NeedsApproval : sent'[r][x] # None =>
            paid'[r][x] # None /\ approval'[paid'[r][x]].does = sent'[r][x]
      BY <1>0, <1>1, <1>8, <1>9, <3>1, <3>2 DEF PaidInv
    <3> QED BY <1>2, <1>4, <2>2, <3>1, <3>3, <3>4, <3>5 DEF PaidInv
  <2> QED BY <2>1, <2>2
<1> QED BY <1>7, <1>10, <1>11

\* Dispatching: what is sent is what the preflight planned, which is what the
\* approval that was paid is for.
LEMMA DispatchPays ==
  ASSUME TypeOK, PayInv, NEW r \in Run, Dispatch(r)
  PROVE  PayInv'
<1> DEFINE s == frame[r].cur
<1> SUFFICES ASSUME NEW q \in Run
             PROVE  LaunchInv(q)' /\ AheadInv(q)' /\ PaidInv(q)'
  BY DEF PayInv
<1>0. /\ LaunchInv(q) /\ AheadInv(q) /\ PaidInv(q)
      /\ LaunchInv(r) /\ AheadInv(r) /\ PaidInv(r)
  BY DEF PayInv
<1>1. /\ frame[r].pc \in {"attempt", "dispatching"}
      /\ UNCHANGED <<runStatus, runPlan, approval, paid>>
  BY DEF Dispatch, tables
<1>2. /\ \A p \in Run \ {r} : frame'[p] = frame[p] /\ sent'[p] = sent[p]
      /\ frame'[r].pc = "await" /\ frame'[r].cur = s
      /\ frame'[r].planned = frame[r].planned
      /\ frame'[r].approvalOf = frame[r].approvalOf
      /\ s \in Step /\ Step \subseteq Nat /\ NeedsApproval \subseteq Step
      /\ sent'[r][s] = frame[r].planned[s]
      /\ \A x \in Step \ {s} : sent'[r][x] = sent[r][x]
  BY ConstantsAssumption DEF Dispatch, Goto, TypeOK, Frame, Step
<1>3. CASE q # r
  <2>1. LaunchInv(q)' /\ AheadInv(q)'
    BY <1>0, <1>1, <1>2, <1>3 DEF LaunchInv, AheadInv, Launched
  <2>2. PaidInv(q)'
    BY <1>0, <1>1, <1>2, <1>3, PaidKept
  <2> QED BY <2>1, <2>2
<1>4. CASE q = r
  <2>1. LaunchInv(r)'
    BY <1>0, <1>1, <1>2 DEF LaunchInv, Launched
  <2>2. AheadInv(r)'
    BY <1>0, <1>1, <1>2 DEF AheadInv, Launched, BeforeActing, BeforePaying
  <2>3. s \in NeedsApproval =>
          paid[r][s] # None /\ approval[paid[r][s]].does = frame[r].planned[s]
    BY <1>0, <1>1 DEF PaidInv, Launched, BeforeActing, BeforePaying
  <2>4. \A x \in NeedsApproval : sent'[r][x] # None =>
          paid'[r][x] # None /\ approval'[paid'[r][x]].does = sent'[r][x]
    BY <1>0, <1>1, <1>2, <2>3 DEF PaidInv
  <2>5. frame'[r].pc \notin BeforeActing \ BeforePaying
    BY <1>2 DEF BeforeActing, BeforePaying
  <2>6. PaidInv(r)'
    BY <1>0, <1>1, <2>4, <2>5 DEF PaidInv
  <2> QED BY <1>4, <2>1, <2>2, <2>6
<1> QED BY <1>3, <1>4

\* The loop goes on to a step that was ahead of the run, hence untouched.
LEMMA NextStepPays ==
  ASSUME TypeOK, PayInv, NEW r \in Run, NextStep(r)
  PROVE  PayInv'
<1> SUFFICES ASSUME NEW q \in Run
             PROVE  LaunchInv(q)' /\ AheadInv(q)' /\ PaidInv(q)'
  BY DEF PayInv
<1>0. LaunchInv(q) /\ AheadInv(q) /\ PaidInv(q)
  BY DEF PayInv
<1>1. /\ UNCHANGED <<runStatus, runPlan, approval, paid, sent>>
      /\ frame[r].pc = "verdict"
  BY DEF NextStep, tables, history
<1>2. /\ \A p \in Run \ {r} : frame'[p] = frame[p]
      /\ frame'[r].pc = "step" /\ frame'[r].cur = frame[r].cur + 1
      /\ frame'[r].planned = frame[r].planned
      /\ frame'[r].approvalOf = frame[r].approvalOf
      /\ frame[r].cur \in Nat /\ Step \subseteq Nat
  BY ConstantsAssumption DEF NextStep, TypeOK, Frame, Step
<1>3. LaunchInv(q)'
  BY <1>0, <1>1, <1>2 DEF LaunchInv, Launched
<1>4. AheadInv(q)'
  <2>1. CASE q # r
    BY <1>0, <1>1, <1>2, <2>1 DEF AheadInv, Launched
  <2>2. CASE q = r
    BY <1>0, <1>1, <1>2, <2>2 DEF AheadInv, Launched
  <2> QED BY <2>1, <2>2
<1>5. PaidInv(q)'
  <2>1. frame'[q].pc \in BeforeActing \ BeforePaying => frame'[q] = frame[q]
    BY <1>2 DEF BeforeActing, BeforePaying
  <2> QED BY <1>0, <1>1, <2>1, PaidKept
<1> QED BY <1>3, <1>4, <1>5

\* While a run awaits nothing is paid or sent.
LEMMA AwaitPays ==
  ASSUME TypeOK, PayInv, NEW r \in Run,
         Answer(r) \/ EmitCheckpoint(r) \/ Cancel(r)
  PROVE  PayInv'
<1> USE DEF tables, history
<1>0. frame \in [Run -> Frame] /\ frame[r] \in Frame
  BY DEF TypeOK
<1>1. /\ UNCHANGED <<paid, sent, approval, runPlan, runStatus>>
      /\ frame[r].pc = "await"
  BY DEF Answer, LocalAnswer, LocalThrows, ProviderAnswer, ProviderUnknown,
         ProviderAnswerRefused, EmitCheckpoint, Cancel
<1>2. \A q \in Run \ {r} : frame'[q] = frame[q]
  BY <1>0 DEF Answer, LocalAnswer, LocalThrows, ProviderAnswer,
         ProviderUnknown, ProviderAnswerRefused, EmitCheckpoint, Cancel, Goto
<1>3. /\ frame'[r].pc \in {"await", "unknown", "evidence", "fail"}
      /\ frame'[r].cur = frame[r].cur
      /\ frame'[r].planned = frame[r].planned
      /\ frame'[r].approvalOf = frame[r].approvalOf
  <2>1. CASE EmitCheckpoint(r)
    BY <1>0, <2>1 DEF EmitCheckpoint, Frame
  <2>2. CASE Cancel(r)
    BY <1>0, <2>2 DEF Cancel, Frame
  <2>3. ASSUME NEW outcome \in Outcome, NEW tree \in BOOLEAN,
               frame' = [frame EXCEPT ![r].outcome = outcome,
                                      ![r].tree = tree, ![r].pc = "evidence"]
        PROVE  /\ frame'[r].pc = "evidence" /\ frame'[r].cur = frame[r].cur
               /\ frame'[r].planned = frame[r].planned
               /\ frame'[r].approvalOf = frame[r].approvalOf
    BY <1>0, <2>3 DEF Frame
  <2>4. ASSUME NEW label \in {"fail", "unknown"}, Goto(r, label)
        PROVE  /\ frame'[r].pc = label /\ frame'[r].cur = frame[r].cur
               /\ frame'[r].planned = frame[r].planned
               /\ frame'[r].approvalOf = frame[r].approvalOf
    BY <1>0, <2>4 DEF Goto, Frame
  <2>5. CASE Answer(r)
    BY <2>3, <2>4, <2>5 DEF Answer, LocalAnswer, LocalThrows, ProviderAnswer,
         ProviderUnknown, ProviderAnswerRefused
  <2> QED BY <2>1, <2>2, <2>5
<1>4. Calm
  BY <1>1, <1>2, <1>3
  DEF Calm, PayInv, LaunchInv, Launched, BeforeActing, BeforePaying
<1> QED BY <1>4, CalmKeepsPay

\* Asking for, deciding and expiring approvals leaves spent ones alone.
LEMMA ApprovalDeskPays ==
  ASSUME TypeOK, PayInv, NEW a \in Approval,
         approval[a].status # "consumed",
         \A b \in Approval \ {a} : approval'[b] = approval[b],
         UNCHANGED <<runStatus, runPlan, frame, paid, sent>>
  PROVE  PayInv'
<1> SUFFICES ASSUME NEW q \in Run
             PROVE  LaunchInv(q)' /\ AheadInv(q)' /\ PaidInv(q)'
  BY DEF PayInv
<1>0. LaunchInv(q) /\ AheadInv(q) /\ PaidInv(q)
  BY DEF PayInv
<1>1. LaunchInv(q)' /\ AheadInv(q)'
  BY <1>0 DEF LaunchInv, AheadInv, Launched
<1>2. \A x \in Step : paid[q][x] # None =>
        approval'[paid[q][x]] = approval[paid[q][x]]
  BY <1>0 DEF PaidInv
<1>3. PaidInv(q)'
  BY <1>0, <1>2, PaidKept
<1> QED BY <1>1, <1>3

\* A new run starts with approvals of its options and nothing paid.
LEMMA StartRunPays ==
  ASSUME TypeOK, PayInv, NEW r \in Run, NEW p \in Plan, StartRun(r, p)
  PROVE  PayInv'
<1> SUFFICES ASSUME NEW q \in Run
             PROVE  LaunchInv(q)' /\ AheadInv(q)' /\ PaidInv(q)'
  BY DEF PayInv
<1>0. /\ LaunchInv(q) /\ AheadInv(q) /\ PaidInv(q)
      /\ LaunchInv(r) /\ PaidInv(r)
  BY DEF PayInv
<1>1. /\ UNCHANGED <<approval, paid, sent>>
      /\ runStatus[r] = "none" /\ runStatus'[r] = "planned"
      /\ \A x \in Run \ {r} : /\ runStatus'[x] = runStatus[x]
                             /\ runPlan'[x] = runPlan[x]
                             /\ frame'[x] = frame[x]
  BY DEF StartRun, history, TypeOK
<1>2. PICK chosen \in [NeedsApproval -> Approval],
           recoveries \in [ProviderStep -> Run \cup {None}] :
        frame' = [frame EXCEPT ![r] = FirstFrame(chosen, recoveries)]
  BY DEF StartRun
<1>3. /\ frame'[r].pc = "created" /\ frame'[r].planned = descriptor
      /\ \A s \in NeedsApproval : frame'[r].approvalOf[s] = chosen[s]
  BY <1>2, ConstantsAssumption DEF FirstFrame, NoFrame, TypeOK
<1>4. \A s \in Step : paid[r][s] = None /\ sent[r][s] = None
  BY <1>0, <1>1 DEF LaunchInv
<1>5. LaunchInv(q)' /\ AheadInv(q)'
  <2>1. CASE q # r
    BY <1>0, <1>1, <2>1 DEF LaunchInv, AheadInv, Launched
  <2>2. CASE q = r
    BY <1>1, <1>3, <1>4, <2>2 DEF LaunchInv, AheadInv, Launched, TypeOK
  <2> QED BY <2>1, <2>2
<1>6. PaidInv(q)'
  <2>1. CASE q # r
    BY <1>0, <1>1, <2>1, PaidKept
  <2>2. CASE q = r
    BY <1>1, <1>3, <1>4, <2>2, ConstantsAssumption
    DEF PaidInv, Launched, BeforeActing, BeforePaying
  <2> QED BY <2>1, <2>2
<1> QED BY <1>5, <1>6

\* Whatever happens at the desk keeps payments in order.
LEMMA DeskPays ==
  ASSUME TypeOK, PayInv, Desk
  PROVE  PayInv'
<1> USE DEF history
<1>0. approval \in [Approval -> ApprovalRecord]
  BY DEF TypeOK
<1>1. ASSUME NEW a \in Approval, NEW p \in Plan, NEW s \in Step,
             RequestApproval(a, p, s)
      PROVE  PayInv'
  BY <1>0, <1>1, ApprovalDeskPays DEF RequestApproval
<1>2. ASSUME NEW a \in Approval, NEW decision \in {"granted", "denied"},
             DecideApproval(a, decision)
      PROVE  PayInv'
  BY <1>0, <1>2, ApprovalDeskPays DEF DecideApproval
<1>3. ASSUME NEW a \in Approval, PreflightExpires(a)
      PROVE  PayInv'
  BY <1>0, <1>3, ApprovalDeskPays DEF PreflightExpires
<1>4. ASSUME NEW r \in Run, NEW p \in Plan, StartRun(r, p)
      PROVE  PayInv'
  BY <1>4, StartRunPays
<1>5. ASSUME NEW r \in Run, Cancel(r)
      PROVE  PayInv'
  BY <1>5, AwaitPays
<1>6. ASSUME NEW r \in Run, NEW s \in Step, NEW resolution \in SettledRemote,
             ResolveUnknown(r, s, resolution)
      PROVE  PayInv'
  <2>1. Calm
    BY <1>6 DEF ResolveUnknown, Calm, PayInv, LaunchInv, Launched
  <2> QED BY <2>1, CalmKeepsPay
<1> QED BY <1>1, <1>2, <1>3, <1>4, <1>5, <1>6 DEF Desk

\* Crashes, restarts and faults pay and send nothing.
LEMMA WorldPays ==
  ASSUME TypeOK, PayInv, Restart \/ World
  PROVE  PayInv'
<1> USE DEF tables, history
<1>1. CASE Restart
  <2>1. /\ UNCHANGED <<paid, sent, approval, runPlan, frame>>
        /\ \A q \in Run : runStatus'[q] = "none" => runStatus[q] = "none"
    BY <1>1 DEF Restart, TypeOK
  <2>2. Calm
    BY <2>1 DEF Calm, PayInv, LaunchInv, Launched
  <2> QED BY <2>2, CalmKeepsPay
<1>2. CASE Crash
  <2>1. Calm
    BY <1>2 DEF Crash, Calm, NoFrame
  <2> QED BY <2>1, CalmKeepsPay
<1>3. CASE World /\ ~Crash
  <2>1. UNCHANGED <<tables, frame, history>>
    BY <1>3 DEF World, BeginBackup, EndBackup, StoreHeals, StoreBreaks,
                ApprovalLapses, DescriptorDrifts
  <2>2. Calm
    BY <2>1 DEF Calm, PayInv, LaunchInv, Launched
  <2> QED BY <2>2, CalmKeepsPay
<1> QED BY <1>1, <1>2, <1>3

\* The inductive invariant behind the authorisation theorems.
THEOREM PaymentsInOrder == Spec => []PayInv
<1>1. Init => PayInv
  BY ConstantsAssumption
  DEF Init, PayInv, LaunchInv, AheadInv, PaidInv, Launched, NoFrame
<1>2. TypeOK /\ PayInv /\ [Next]_vars => PayInv'
  <2> SUFFICES ASSUME TypeOK, PayInv, [Next]_vars
               PROVE  PayInv'
    OBVIOUS
  <2>1. CASE UNCHANGED vars
    <3>1. Calm
      BY <2>1 DEF vars, tables, history, Calm, PayInv, LaunchInv, Launched
    <3> QED BY <3>1, CalmKeepsPay
  <2>2. ASSUME NEW r \in Run, EngineStep(r)
        PROVE  PayInv'
    BY <2>2, CalmEngine, EnterFreeStepPays, EnterApprovedStepPays,
       DispatchPays, NextStepPays DEF EngineStep
  <2>3. ASSUME NEW r \in Run, Answer(r) \/ EmitCheckpoint(r)
        PROVE  PayInv'
    BY <2>3, AwaitPays
  <2>4. CASE Desk
    BY <2>4, DeskPays
  <2>5. CASE Restart \/ World
    BY <2>5, WorldPays
  <2> QED BY <2>1, <2>2, <2>3, <2>4, <2>5 DEF Next
<1> QED BY <1>1, <1>2, TypesHold, PTL DEF Spec

\* Whatever was dispatched for a step that needs approval was paid with an
\* approval for it, consumed before.
THEOREM NoUnauthorisedEffect == Spec => []EffectsAuthorised
<1>1. TypeOK /\ PayInv => EffectsAuthorised
  <2> SUFFICES ASSUME TypeOK, PayInv, NEW r \in Run, NEW s \in NeedsApproval,
                      sent[r][s] # None
               PROVE  \E a \in Approval :
                        /\ paid[r][s] = a
                        /\ approval[a] = [status |-> "consumed",
                                          plan |-> runPlan[r], step |-> s,
                                          does |-> sent[r][s]]
    BY DEF EffectsAuthorised
  <2> DEFINE a == paid[r][s]
  <2>1. s \in Step /\ PaidInv(r)
    BY ConstantsAssumption DEF PayInv
  <2>2. /\ a \in Approval /\ approval[a].status = "consumed"
        /\ approval[a].plan = runPlan[r] /\ approval[a].step = s
        /\ approval[a].does = sent[r][s]
    BY <2>1 DEF PaidInv
  <2>3. approval[a] = [status |-> "consumed", plan |-> runPlan[r],
                       step |-> s, does |-> sent[r][s]]
    BY <2>2 DEF TypeOK, ApprovalRecord
  <2> QED BY <2>2, <2>3
<1> QED BY <1>1, TypesHold, PaymentsInOrder, PTL

\* No approval is spent twice: only a granted approval can be spent, and those
\* spent before are consumed.
THEOREM NoApprovalSpentTwice == Spec => []ApprovalsSpentOnce
<1>1. Init => ApprovalsSpentOnce
  BY DEF Init, ApprovalsSpentOnce
<1>2. TypeOK /\ PayInv /\ ApprovalsSpentOnce /\ [Next]_vars
        => ApprovalsSpentOnce'
  <2> SUFFICES ASSUME TypeOK, PayInv, ApprovalsSpentOnce, [Next]_vars
               PROVE  ApprovalsSpentOnce'
    OBVIOUS
  <2>1. CASE UNCHANGED paid
    BY <2>1 DEF ApprovalsSpentOnce
  <2>2. ASSUME NEW r \in Run, EnterApprovedStep(r), paid' # paid
        PROVE  ApprovalsSpentOnce'
    <3> DEFINE s == frame[r].cur
               a == frame[r].approvalOf[s]
    <3>1. /\ paid' = [paid EXCEPT ![r][s] = a] /\ approval[a].status = "granted"
          /\ s \in Step
      BY <2>2, ConstantsAssumption DEF EnterApprovedStep
    <3>2. \A q \in Run : \A x \in Step : paid[q][x] # None => paid[q][x] # a
      BY <3>1 DEF PayInv, PaidInv
    <3>3. \A q \in Run : \A x \in Step :
            paid'[q][x] = IF q = r /\ x = s THEN a ELSE paid[q][x]
      BY <3>1 DEF TypeOK
    <3> QED BY <3>2, <3>3 DEF ApprovalsSpentOnce
  <2>3. ASSUME NEW r \in Run, EngineStep(r), ~EnterApprovedStep(r)
        PROVE  UNCHANGED paid
    BY <2>3 DEF EngineStep, MarkApproved, MarkRunning, LaunchThrows,
      EnterFreeStep, StepRefused, OpenAttempt, MarkDispatching, AttemptThrows,
      Dispatch, FinishUnknown, RecordEvidence, ConsumeOwnCheckpoint,
      ConsumeRecoveryCheckpoint, NoCheckpointDue, NextStep, FinishRun,
      WriteThrows, FailRun, history
  <2>4. ASSUME NEW r \in Run, Answer(r) \/ EmitCheckpoint(r)
        PROVE  UNCHANGED paid
    BY <2>4 DEF Answer, LocalAnswer, LocalThrows, ProviderAnswer,
      ProviderUnknown, ProviderAnswerRefused, EmitCheckpoint, history
  <2>5. CASE Desk
    BY <2>1, <2>5 DEF Desk, RequestApproval, DecideApproval, PreflightExpires,
      StartRun, Cancel, ResolveUnknown, history
  <2>6. CASE Restart \/ World
    BY <2>1, <2>6 DEF Restart, World, Crash, BeginBackup, EndBackup, StoreHeals,
      StoreBreaks, ApprovalLapses, DescriptorDrifts, history
  <2>7. CASE UNCHANGED vars
    BY <2>1, <2>7 DEF vars, history
  <2> QED BY <2>1, <2>2, <2>3, <2>4, <2>5, <2>6, <2>7 DEF Next
<1> QED BY <1>1, <1>2, TypesHold, PaymentsInOrder, PTL DEF Spec

-----------------------------------------------------------------------------
(***************************************************************************)
(* The runtime implements the ledger of effects.  A slot of the ledger is  *)
(* a step, of a run, that needs approval; PayInv gives what the ledger's   *)
(* actions ask for: a slot is not paid before its permit is spent on it,   *)
(* has not acted before it acts, and acts as its permit says.              *)
(***************************************************************************)

\* The ledger's variables, as the runtime's state gives them.
EffectFor(a) ==
  IF approval[a].status = "none" THEN None
  ELSE EffectOf(approval[a].plan, approval[a].step, approval[a].does)

PermitOf(a) == [state |-> LedgerState[approval[a].status], for |-> EffectFor(a)]

DoneBy(r, s) ==
  IF sent[r][s] = None THEN None ELSE EffectOf(runPlan[r], s, sent[r][s])

Slots == Run \X NeedsApproval
Permits == [a \in Approval |-> PermitOf(a)]
SpentOn == [x \in Slots |-> paid[x[1]][x[2]]]
Done == [x \in Slots |-> DoneBy(x[1], x[2])]

\* The states of a permit, by the status of its approval.
LEMMA LedgerStates ==
 /\ LedgerState["none"] = "none" /\ LedgerState["pending"] = "asked"
 /\ LedgerState["granted"] = "granted" /\ LedgerState["denied"] = "void"
 /\ LedgerState["expired"] = "void" /\ LedgerState["consumed"] = "spent"
BY DEF LedgerState

\* The ledger begins with no permit asked for.
LEMMA LedgerBegins ==
  ASSUME Permits = [a \in Approval |-> [state |-> "none", for |-> None]],
         SpentOn = [x \in Slots |-> None], Done = [x \in Slots |-> None]
  PROVE  Ledger!LedgerInit
BY DEF Ledger!LedgerInit, Permits, SpentOn, Done, PermitOf, EffectFor, DoneBy,
       Slots

\* Where its variables stand still, so does the ledger.
LEMMA LedgerStands ==
  ASSUME UNCHANGED <<Permits, SpentOn, Done>>
  PROVE  UNCHANGED Ledger!ledgerVars
BY DEF Ledger!ledgerVars, Permits, SpentOn, Done, PermitOf, EffectFor, DoneBy,
       Slots

\* A permit is asked for.
LEMMA LedgerAsks ==
  ASSUME NEW a \in Approval, Permits[a].state = "none",
         NEW e \in [plan : Plan, step : Step, does : Descriptor],
         Permits' = [Permits EXCEPT ![a] = [state |-> "asked", for |-> e]],
         UNCHANGED <<SpentOn, Done>>
  PROVE  Ledger!LedgerNext
BY DEF Ledger!LedgerNext, Ledger!Ask, Permits, SpentOn, Done, PermitOf,
       EffectFor, DoneBy, Slots

\* A person decides about a permit.
LEMMA LedgerDecides ==
  ASSUME NEW a \in Approval, Permits[a].state = "asked",
         NEW verdict \in {"granted", "void"},
         Permits' = [Permits EXCEPT ![a] =
                       [state |-> verdict, for |-> Permits[a].for]],
         UNCHANGED <<SpentOn, Done>>
  PROVE  Ledger!LedgerNext
BY DEF Ledger!LedgerNext, Ledger!Decide, Permits, SpentOn, Done, PermitOf,
       EffectFor, DoneBy, Slots

\* A granted permit is withdrawn.
LEMMA LedgerWithdraws ==
  ASSUME NEW a \in Approval, Permits[a].state = "granted",
         Permits' = [Permits EXCEPT ![a] =
                       [state |-> "void", for |-> Permits[a].for]],
         UNCHANGED <<SpentOn, Done>>
  PROVE  Ledger!LedgerNext
BY DEF Ledger!LedgerNext, Ledger!Withdraw, Permits, SpentOn, Done, PermitOf,
       EffectFor, DoneBy, Slots

\* A granted permit is spent on a slot.
LEMMA LedgerSpends ==
  ASSUME NEW a \in Approval, NEW x \in Slots, Permits[a].state = "granted",
         SpentOn[x] = None, Done[x] = None,
         Permits' = [Permits EXCEPT ![a] =
                       [state |-> "spent", for |-> Permits[a].for]],
         SpentOn' = [SpentOn EXCEPT ![x] = a], UNCHANGED Done
  PROVE  Ledger!LedgerNext
BY DEF Ledger!LedgerNext, Ledger!Spend, Permits, SpentOn, Done, PermitOf,
       EffectFor, DoneBy, Slots

\* A slot acts.
LEMMA LedgerActs ==
  ASSUME NEW x \in Slots, SpentOn[x] # None, Done[x] = None,
         Done' = [Done EXCEPT ![x] = Permits[SpentOn[x]].for],
         UNCHANGED <<Permits, SpentOn>>
  PROVE  Ledger!LedgerNext
BY DEF Ledger!LedgerNext, Ledger!Act, Permits, SpentOn, Done, PermitOf,
       EffectFor, DoneBy, Slots

\* A permit changes as its approval does.
LEMMA PermitMoves ==
  ASSUME TypeOK, NEW a \in Approval, NEW st,
         approval' = [approval EXCEPT ![a].status = st],
         approval[a].status # "none", st # "none"
  PROVE  Permits' = [Permits EXCEPT ![a] =
                       [state |-> LedgerState[st], for |-> Permits[a].for]]
<1>1. /\ approval[a] \in ApprovalRecord
      /\ \A b \in Approval \ {a} : approval'[b] = approval[b]
      /\ approval'[a].status = st /\ approval'[a].plan = approval[a].plan
      /\ approval'[a].step = approval[a].step
      /\ approval'[a].does = approval[a].does
  BY DEF TypeOK, ApprovalRecord
<1>2. /\ \A b \in Approval \ {a} : PermitOf(b)' = PermitOf(b)
      /\ PermitOf(a)' = [state |-> LedgerState[st], for |-> PermitOf(a).for]
  BY <1>1 DEF PermitOf, EffectFor
<1> QED BY <1>2 DEF Permits

\* Steps that leave approvals, payments, plans and what was sent alone.
LEMMA LedgerAlone ==
  ASSUME UNCHANGED <<approval, paid, sent, runPlan>>
  PROVE  UNCHANGED <<Permits, SpentOn, Done>>
BY DEF Permits, PermitOf, EffectFor, SpentOn, Done, DoneBy

\* What the desk does to approvals is what the ledger does to permits.
LEMMA DeskOnLedger ==
  ASSUME TypeOK, PayInv, Desk
  PROVE  [Ledger!LedgerNext]_(Ledger!ledgerVars)
<1> USE DEF history
<1>1. ASSUME NEW a \in Approval, NEW p \in Plan, NEW s \in Step,
             RequestApproval(a, p, s)
      PROVE  Ledger!LedgerNext
  <2> DEFINE e == EffectOf(p, s, descriptor[s])
  <2>1. e \in [plan : Plan, step : Step, does : Descriptor]
    BY <1>1 DEF EffectOf, TypeOK
  <2>2. /\ approval[a].status = "none" /\ approval'[a].status = "pending"
        /\ EffectFor(a)' = e
        /\ \A b \in Approval \ {a} : approval'[b] = approval[b]
        /\ UNCHANGED <<paid, sent, runPlan>>
    BY <1>1 DEF RequestApproval, EffectFor, TypeOK
  <2>3. Permits' = [Permits EXCEPT ![a] = [state |-> "asked", for |-> e]]
    BY <2>2, LedgerStates DEF Permits, PermitOf, EffectFor
  <2>4. Permits[a].state = "none" /\ UNCHANGED <<SpentOn, Done>>
    BY <2>2, LedgerStates DEF Permits, PermitOf, SpentOn, Done, DoneBy
  <2> HIDE DEF e
  <2> QED BY <2>1, <2>3, <2>4, LedgerAsks
<1>2. ASSUME NEW a \in Approval, NEW decision \in {"granted", "denied"},
             DecideApproval(a, decision)
      PROVE  Ledger!LedgerNext
  <2>1. PICK st \in {"granted", "denied", "expired"} :
          approval' = [approval EXCEPT ![a].status = st]
    BY <1>2 DEF DecideApproval
  <2>2. approval[a].status = "pending" /\ UNCHANGED <<paid, sent, runPlan>>
    BY <1>2 DEF DecideApproval
  <2>3. Permits' = [Permits EXCEPT ![a] =
                      [state |-> LedgerState[st], for |-> Permits[a].for]]
    BY <2>1, <2>2, PermitMoves
  <2>4. LedgerState[st] \in {"granted", "void"}
    BY LedgerStates
  <2>5. Permits[a].state = "asked" /\ UNCHANGED <<SpentOn, Done>>
    BY <2>2, LedgerStates DEF Permits, PermitOf, SpentOn, Done, DoneBy
  <2> QED BY <2>3, <2>4, <2>5, LedgerDecides
<1>3. ASSUME NEW a \in Approval, PreflightExpires(a)
      PROVE  Ledger!LedgerNext
  <2>1. /\ approval[a].status = "granted" /\ UNCHANGED <<paid, sent, runPlan>>
        /\ approval' = [approval EXCEPT ![a].status = "expired"]
    BY <1>3 DEF PreflightExpires
  <2>2. Permits' = [Permits EXCEPT ![a] =
                      [state |-> "void", for |-> Permits[a].for]]
    <3>1. PICK st : st = "expired"
      OBVIOUS
    <3>2. Permits' = [Permits EXCEPT ![a] =
                        [state |-> LedgerState[st], for |-> Permits[a].for]]
      BY <2>1, <3>1, PermitMoves
    <3> QED BY <3>1, <3>2, LedgerStates
  <2>3. Permits[a].state = "granted" /\ UNCHANGED <<SpentOn, Done>>
    BY <2>1, LedgerStates DEF Permits, PermitOf, SpentOn, Done, DoneBy
  <2> QED BY <2>2, <2>3, LedgerWithdraws
<1>4. ASSUME NEW r \in Run, NEW p \in Plan, StartRun(r, p)
      PROVE  UNCHANGED Ledger!ledgerVars
  <2>1. /\ UNCHANGED <<approval, paid, sent>> /\ runStatus[r] = "none"
        /\ \A q \in Run \ {r} : runPlan'[q] = runPlan[q]
    BY <1>4 DEF StartRun, TypeOK
  <2>2. \A s \in Step : sent[r][s] = None
    BY <2>1 DEF PayInv, LaunchInv
  <2>3. \A q \in Run : \A s \in NeedsApproval : DoneBy(q, s)' = DoneBy(q, s)
    BY <2>1, <2>2, ConstantsAssumption DEF DoneBy
  <2>4. UNCHANGED <<Permits, SpentOn, Done>>
    BY <2>1, <2>3 DEF Permits, PermitOf, EffectFor, SpentOn, Done, Slots
  <2> QED BY <2>4, LedgerStands
<1>5. ASSUME NEW r \in Run, Cancel(r)
      PROVE  UNCHANGED Ledger!ledgerVars
  BY <1>5, LedgerAlone, LedgerStands DEF Cancel
<1>6. ASSUME NEW r \in Run, NEW s \in Step, NEW resolution \in SettledRemote,
             ResolveUnknown(r, s, resolution)
      PROVE  UNCHANGED Ledger!ledgerVars
  BY <1>6, LedgerAlone, LedgerStands DEF ResolveUnknown
<1> HIDE DEF history
<1> QED BY <1>1, <1>2, <1>3, <1>4, <1>5, <1>6 DEF Desk

\* Consuming an approval spends its permit on the run's step, or withdraws it.
LEMMA PaysOnLedger ==
  ASSUME TypeOK, PayInv, NEW r \in Run, EnterApprovedStep(r)
  PROVE  Ledger!LedgerNext
<1>0. PICK s \in NeedsApproval : s = frame[r].cur
  BY DEF EnterApprovedStep
<1>1. PICK a \in Approval : a = frame[r].approvalOf[s]
  BY <1>0 DEF EnterApprovedStep, PayInv, LaunchInv, Launched
<1>2. /\ approval[a].status = "granted" /\ frame[r].pc = "step"
      /\ UNCHANGED <<sent, runPlan>>
      /\ lapsed[a] => /\ approval' = [approval EXCEPT ![a].status = "expired"]
                      /\ paid' = paid
      /\ ~lapsed[a] => /\ approval' = [approval EXCEPT ![a].status = "consumed"]
                       /\ paid' = [paid EXCEPT ![r][s] = a]
  BY <1>0, <1>1 DEF EnterApprovedStep
<1>3. Permits[a].state = "granted"
  BY <1>2, LedgerStates DEF Permits, PermitOf
<1>4. UNCHANGED Done
  BY <1>2 DEF Done, DoneBy
<1>5. CASE lapsed[a]
  <2>1. Permits' = [Permits EXCEPT ![a] =
                      [state |-> "void", for |-> Permits[a].for]]
    BY <1>2, <1>5, PermitMoves, LedgerStates
  <2>2. UNCHANGED SpentOn
    BY <1>2, <1>5 DEF SpentOn
  <2> QED BY <1>3, <1>4, <2>1, <2>2, LedgerWithdraws
<1>6. CASE ~lapsed[a]
  <2>1. Permits' = [Permits EXCEPT ![a] =
                      [state |-> "spent", for |-> Permits[a].for]]
    BY <1>2, <1>6, PermitMoves, LedgerStates
  <2>2. paid[r][s] = None /\ sent[r][s] = None
    BY <1>0, <1>2, ConstantsAssumption
    DEF PayInv, AheadInv, Launched, BeforePaying, BeforeActing
  <2>3. <<r, s>> \in Slots /\ SpentOn[<<r, s>>] = None /\ Done[<<r, s>>] = None
    BY <2>2 DEF Slots, SpentOn, Done, DoneBy
  <2>4. \A q \in Run : \A t \in NeedsApproval :
          paid'[q][t] = IF q = r /\ t = s THEN a ELSE paid[q][t]
    BY <1>2, <1>6, ConstantsAssumption DEF TypeOK
  <2>5. SpentOn' = [SpentOn EXCEPT ![<<r, s>>] = a]
    <3>1. ASSUME NEW x \in Slots
          PROVE  SpentOn'[x] = IF x = <<r, s>> THEN a ELSE SpentOn[x]
      <4>1. PICK q \in Run, t \in NeedsApproval : x = <<q, t>>
        BY <3>1 DEF Slots
      <4>2. SpentOn[x] = paid[q][t] /\ SpentOn'[x] = paid'[q][t]
        BY <3>1, <4>1 DEF SpentOn
      <4> QED BY <2>4, <4>1, <4>2
    <3> QED BY <3>1 DEF SpentOn
  <2> QED BY <1>3, <1>4, <2>1, <2>3, <2>5, LedgerSpends
<1> QED BY <1>5, <1>6

\* Dispatching a step that needs approval is its slot's one act, and it is the
\* effect its permit was asked for.
LEMMA ActsOnLedger ==
  ASSUME TypeOK, PayInv, NEW r \in Run, Dispatch(r)
  PROVE  [Ledger!LedgerNext]_(Ledger!ledgerVars)
<1>0. PICK s \in Step : s = frame[r].cur
  BY ConstantsAssumption DEF TypeOK, Frame, Step
<1>1. /\ frame[r].pc \in {"attempt", "dispatching"}
      /\ sent' = [sent EXCEPT ![r][s] = frame[r].planned[s]]
      /\ UNCHANGED <<approval, paid, runPlan>>
  BY <1>0 DEF Dispatch, tables
<1>2. /\ UNCHANGED <<Permits, SpentOn>>
      /\ \A q \in Run : \A t \in Step : q # r \/ t # s =>
           DoneBy(q, t)' = DoneBy(q, t)
  BY <1>1 DEF Permits, PermitOf, EffectFor, SpentOn, DoneBy, TypeOK
<1>3. CASE s \notin NeedsApproval
  <2>1. UNCHANGED Done
    BY <1>2, <1>3, ConstantsAssumption DEF Done, Slots
  <2> QED BY <1>2, <2>1, LedgerStands
<1>4. CASE s \in NeedsApproval
  <2>1. PICK a : a = paid[r][s]
    OBVIOUS
  <2>2. /\ sent[r][s] = None /\ a \in Approval /\ a # None
        /\ approval[a].status = "consumed" /\ approval[a].plan = runPlan[r]
        /\ approval[a].step = s /\ approval[a].does = frame[r].planned[s]
        /\ frame[r].planned[s] # None
    BY <1>0, <1>1, <1>4, <2>1, ConstantsAssumption
    DEF PayInv, AheadInv, PaidInv, LaunchInv, Launched, BeforePaying,
        BeforeActing
  <2>3. /\ <<r, s>> \in Slots /\ SpentOn[<<r, s>>] = a
        /\ Done[<<r, s>>] = None
    BY <1>4, <2>1, <2>2 DEF Slots, SpentOn, Done, DoneBy
  <2>4. DoneBy(r, s)' = Permits[a].for
    BY <1>1, <2>2 DEF DoneBy, Permits, PermitOf, EffectFor, TypeOK
  <2>5. Done' = [Done EXCEPT ![<<r, s>>] = Permits[SpentOn[<<r, s>>]].for]
    <3>1. ASSUME NEW x \in Slots
          PROVE  Done'[x] =
                   IF x = <<r, s>> THEN Permits[SpentOn[<<r, s>>]].for ELSE Done[x]
      <4>1. PICK q \in Run, t \in NeedsApproval : x = <<q, t>>
        BY <3>1 DEF Slots
      <4>2. Done[x] = DoneBy(q, t) /\ Done'[x] = DoneBy(q, t)'
        BY <3>1, <4>1 DEF Done
      <4>3. t \in Step
        BY ConstantsAssumption
      <4> QED BY <1>2, <2>3, <2>4, <4>1, <4>2, <4>3
    <3> QED BY <3>1 DEF Done
  <2> QED BY <1>2, <2>2, <2>3, <2>5, LedgerActs
<1> QED BY <1>3, <1>4

\* The runtime implements the ledger of effects, whatever its faults.
THEOREM EffectsOnLedger == Spec => ImplementsLedger
<1>1. Init => Ledger!LedgerInit
  <2> SUFFICES ASSUME Init
               PROVE  Ledger!LedgerInit
    OBVIOUS
  <2>1. Permits = [a \in Approval |-> [state |-> "none", for |-> None]]
    BY LedgerStates DEF Init, NoApproval, Permits, PermitOf, EffectFor
  <2>2. /\ SpentOn = [x \in Slots |-> None] /\ Done = [x \in Slots |-> None]
    BY ConstantsAssumption DEF Init, SpentOn, Done, DoneBy, Slots
  <2> QED BY <2>1, <2>2, LedgerBegins
<1>2. TypeOK /\ PayInv /\ [Next]_vars
        => [Ledger!LedgerNext]_(Ledger!ledgerVars)
  <2> SUFFICES ASSUME TypeOK, PayInv, [Next]_vars
               PROVE  [Ledger!LedgerNext]_(Ledger!ledgerVars)
    OBVIOUS
  <2> USE DEF tables, history
  <2>1. ASSUME UNCHANGED <<approval, paid, sent, runPlan>>
        PROVE  UNCHANGED Ledger!ledgerVars
    BY <2>1, LedgerAlone, LedgerStands
  <2>2. ASSUME NEW r \in Run, EngineStep(r), ~EnterApprovedStep(r), ~Dispatch(r)
        PROVE  UNCHANGED <<approval, paid, sent, runPlan>>
    BY <2>2 DEF EngineStep, MarkApproved, MarkRunning, LaunchThrows,
      EnterFreeStep, StepRefused, OpenAttempt, MarkDispatching, AttemptThrows,
      FinishUnknown, RecordEvidence, ConsumeOwnCheckpoint,
      ConsumeRecoveryCheckpoint, NoCheckpointDue, NextStep, FinishRun,
      WriteThrows, FailRun
  <2>3. ASSUME NEW r \in Run, Answer(r) \/ EmitCheckpoint(r)
        PROVE  UNCHANGED <<approval, paid, sent, runPlan>>
    BY <2>3 DEF Answer, LocalAnswer, LocalThrows, ProviderAnswer,
      ProviderUnknown, ProviderAnswerRefused, EmitCheckpoint
  <2>4. CASE Restart \/ World
    BY <2>1, <2>4 DEF Restart, World, Crash, BeginBackup, EndBackup, StoreHeals,
      StoreBreaks, ApprovalLapses, DescriptorDrifts
  <2>5. CASE UNCHANGED vars
    BY <2>1, <2>5 DEF vars
  <2> HIDE DEF tables, history
  <2> QED BY <2>1, <2>2, <2>3, <2>4, <2>5, DeskOnLedger, PaysOnLedger,
             ActsOnLedger DEF Next
<1> QED BY <1>1, <1>2, TypesHold, PaymentsInOrder, PTL
        DEF Spec, ImplementsLedger, Ledger!LedgerSpec

=============================================================================

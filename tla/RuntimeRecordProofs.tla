-------------------------- MODULE RuntimeRecordProofs --------------------------
(***************************************************************************)
(* Proofs about what the store records of a run, for every set of runs,    *)
(* plans and descriptors, every number of steps, every graph of            *)
(* dependencies and every combination of faults: calls are on record, the  *)
(* evidence is that of the attempts, a completed run has done all of its   *)
(* plan, and history stays.                                                *)
(***************************************************************************)
EXTENDS RuntimeProofs

-----------------------------------------------------------------------------
(* The inductive invariant                                                 *)

\* Nothing has been recorded of a step of a run.
Untouched(r, s) ==
  /\ attempt[r][s] = "none" /\ request[r][s] = None /\ ~resolved[r][s]
  /\ checkpoint[r][s] = "none" /\ evidence[r][s] = "none"
  /\ sent[r][s] = None

\* What the rows of one step of one run say of each other.
StepInv(r, s) ==
  /\ evidence[r][s] # "none" =>
       /\ sent[r][s] # None
       /\ s \in ProviderStep =>
            attempt[r][s] \in RemoteOf(evidence[r][s]) /\ ~resolved[r][s]
  /\ sent[r][s] # None =>
       /\ \A t \in DependsOn[s] : evidence[r][t] = "succeeded"
       /\ s \in ProviderStep =>
            /\ request[r][s] = sent[r][s]
            /\ attempt[r][s] \notin {"none", "not_dispatched"}
  /\ attempt[r][s] # "none" => s \in ProviderStep
  /\ attempt[r][s] # "none" <=> request[r][s] # None
  /\ checkpoint[r][s] # "none" => request[r][s] # None

\* The status of a run, where its execution is and what is recorded of it.
StatusInv(r) ==
  /\ frame[r].pc = "created" => runStatus[r] = "planned"
  /\ frame[r].pc = "approved" => runStatus[r] = "approved"
  /\ Active(r) => runStatus[r] = "running"
  /\ ~up => frame[r].pc = "idle"
  /\ runStatus[r] \notin {"running"} \cup TerminalRun =>
       \A s \in Step : Untouched(r, s)
  /\ runStatus[r] = "completed" =>
       \A s \in Step : evidence[r][s] = "succeeded"

\* The current step of a run, by where its execution is.
CurrentInv(r) ==
  LET s == frame[r].cur
      pc == frame[r].pc
  IN /\ pc \in {"created", "approved", "step", "attempt"} => Untouched(r, s)
     /\ pc \in {"attempt", "opened", "dispatching"} =>
          DependenciesDone(s)
     /\ pc \in {"opened", "dispatching"} =>
          /\ s \in ProviderStep /\ sent[r][s] = None
          /\ request[r][s] = frame[r].planned[s]
          /\ attempt[r][s] =
               IF pc = "opened" THEN "not_dispatched" ELSE "dispatching"
          /\ evidence[r][s] = "none" /\ ~resolved[r][s]
     /\ pc = "await" =>
          /\ sent[r][s] # None /\ evidence[r][s] = "none" /\ ~resolved[r][s]
          /\ s \in ProviderStep =>
               attempt[r][s] \in {"dispatching", "cancel_requested"}
     /\ pc = "unknown" =>
          s \in ProviderStep /\ attempt[r][s] = "remote_state_unknown"
            /\ evidence[r][s] = "none"
     /\ pc = "evidence" =>
          /\ sent[r][s] # None /\ evidence[r][s] = "none"
          /\ s \in ProviderStep =>
               attempt[r][s] \in RemoteOf(frame[r].outcome) /\ ~resolved[r][s]
     /\ pc \in {"own", "recovered", "verdict"} =>
          evidence[r][s] = frame[r].outcome
     /\ attempt[r][s] = "cancel_requested" => pc = "idle" \/ frame[r].aborted

\* The steps behind a run have succeeded, those ahead of it are untouched.
PathInv(r) ==
  Launched(r) =>
    \A s \in Step :
      /\ s < frame[r].cur => evidence[r][s] = "succeeded"
      /\ s > frame[r].cur => Untouched(r, s)

Resumed == {"opened", "dispatching", "await", "evidence", "own", "recovered"}

\* A step that resumes a run resumes the same request of the same plan.
ResumeInv(r) ==
  /\ \A s \in Step : frame[r].recoveryOf[s] # None => s \in ProviderStep
  /\ frame[r].pc \in Resumed /\ Recovery(r) # None =>
       /\ Recovery(r) \in Run \ {r}
       /\ runPlan[Recovery(r)] = runPlan[r]
       /\ request[r][frame[r].cur] # None
       /\ request[Recovery(r)][frame[r].cur] = request[r][frame[r].cur]

RecordInv ==
  \A r \in Run :
    /\ \A s \in Step : StepInv(r, s)
    /\ StatusInv(r) /\ CurrentInv(r) /\ PathInv(r) /\ ResumeInv(r)

\* Of a store that never fails: what execute() leaves of a run when it ends.
LiveRun(r) ==
  /\ up /\ runStatus[r] = "running" => Active(r)
  /\ frame[r].pc = "fail" =>
       /\ attempt[r][frame[r].cur] \in
            {"none", "cancel_requested"} \cup SettledRemote
       /\ ~resolved[r][frame[r].cur]
  /\ \A s \in Step :
       /\ attempt[r][s] \in LiveRemote /\ runStatus[r] # "running" =>
            attempt[r][s] = "cancel_requested" /\ runStatus[r] = "cancelled"
       /\ attempt[r][s] = "remote_state_unknown" \/ resolved[r][s] =>
            \/ runStatus[r] = "orphaned"
            \/ frame[r].pc = "unknown"
            \/ ~up /\ runStatus[r] = "running"

LiveInv == StoreFaults = {} => store = "ok" /\ \A r \in Run : LiveRun(r)

-----------------------------------------------------------------------------
(* What a step changes.                                                    *)

\* The rows of a run are left alone.
SameRows(q) ==
  /\ runStatus'[q] = runStatus[q] /\ runPlan'[q] = runPlan[q]
  /\ attempt'[q] = attempt[q] /\ request'[q] = request[q]
  /\ resolved'[q] = resolved[q] /\ checkpoint'[q] = checkpoint[q]
  /\ evidence'[q] = evidence[q] /\ sent'[q] = sent[q]

\* Requests and the plans they are for stay.
RequestsStay ==
  \A x \in Run : \A s \in Step : request[x][s] # None =>
    request'[x][s] = request[x][s] /\ runPlan'[x] = runPlan[x]

OwnInv(r) ==
  /\ \A s \in Step : StepInv(r, s)
  /\ StatusInv(r) /\ CurrentInv(r) /\ PathInv(r) /\ ResumeInv(r)

\* A run whose rows and activation are left alone keeps the invariant.
LEMMA AloneKeeps ==
  ASSUME TypeOK, RecordInv, NEW q \in Run, SameRows(q), frame'[q] = frame[q],
         up' = up, RequestsStay
  PROVE  OwnInv(q)'
<1>0. OwnInv(q) /\ frame[q] \in Frame
  BY DEF RecordInv, OwnInv, TypeOK
<1>1. \A s \in Step : StepInv(q, s)'
  BY <1>0 DEF OwnInv, StepInv, SameRows
<1>2. StatusInv(q)'
  BY <1>0 DEF OwnInv, StatusInv, SameRows, Active, Untouched
<1>3. CurrentInv(q)'
  BY <1>0 DEF OwnInv, CurrentInv, SameRows, Untouched, DependenciesDone
<1>4. PathInv(q)'
  BY <1>0 DEF OwnInv, PathInv, SameRows, Untouched, Launched
<1>5. ResumeInv(q)'
  <2>1. frame[q].cur \in Step
    BY <1>0 DEF Frame, Step
  <2> QED BY <1>0, <2>1 DEF OwnInv, ResumeInv, SameRows, RequestsStay, Recovery
<1> QED BY <1>1, <1>2, <1>3, <1>4, <1>5 DEF OwnInv

\* So a step of one run needs to be looked at for that run only.
LEMMA OneRunKeeps ==
  ASSUME TypeOK, RecordInv, NEW r \in Run, RequestsStay, up' = up,
         \A q \in Run \ {r} : SameRows(q) /\ frame'[q] = frame[q],
         OwnInv(r)'
  PROVE  RecordInv'
BY AloneKeeps DEF RecordInv, OwnInv

-----------------------------------------------------------------------------
(* Steps that record nothing, or a status                                  *)

\* Where the activation of a run goes to.
LEMMA Moves ==
  ASSUME TypeOK, NEW r \in Run
  PROVE  /\ \A label : Goto(r, label) =>
              /\ \A q \in Run \ {r} : frame'[q] = frame[q]
              /\ frame'[r].pc = label
              /\ frame'[r].cur = frame[r].cur
              /\ frame'[r].planned = frame[r].planned
              /\ frame'[r].recoveryOf = frame[r].recoveryOf
              /\ frame'[r].aborted = frame[r].aborted
              /\ frame'[r].outcome = frame[r].outcome
              /\ frame'[r].tree = frame[r].tree
         /\ Return(r) =>
              /\ \A q \in Run \ {r} : frame'[q] = frame[q]
              /\ frame'[r] = NoFrame /\ frame'[r].pc = "idle"
              /\ frame'[r].recoveryOf = [s \in Step |-> None]
         /\ frame[r].cur \in Step /\ Step \subseteq Nat
         /\ frame[r].outcome \in Outcome
<1>1. frame \in [Run -> Frame] /\ frame[r] \in Frame
  BY DEF TypeOK
<1>2. /\ frame[r].cur \in Step /\ Step \subseteq Nat
      /\ frame[r].outcome \in Outcome
  BY <1>1, ConstantsAssumption DEF Frame, Step
<1>3. ASSUME NEW label, Goto(r, label)
      PROVE  /\ \A q \in Run \ {r} : frame'[q] = frame[q]
             /\ frame'[r].pc = label
             /\ frame'[r].cur = frame[r].cur
             /\ frame'[r].planned = frame[r].planned
             /\ frame'[r].recoveryOf = frame[r].recoveryOf
             /\ frame'[r].aborted = frame[r].aborted
             /\ frame'[r].outcome = frame[r].outcome
             /\ frame'[r].tree = frame[r].tree
  BY <1>1, <1>3 DEF Goto, Frame
<1>4. Return(r) =>
        /\ \A q \in Run \ {r} : frame'[q] = frame[q]
        /\ frame'[r] = NoFrame /\ frame'[r].pc = "idle"
        /\ frame'[r].recoveryOf = [s \in Step |-> None]
  BY <1>1 DEF Return, NoFrame
<1> QED BY <1>2, <1>3, <1>4

\* An activation that goes on, or into the outer catch, without a write.
LEMMA GotoKeeps ==
  ASSUME TypeOK, RecordInv, NEW r \in Run, NEW label, Goto(r, label),
         \A q \in Run : SameRows(q), up' = up, Active(r),
         \/ label = "fail"
         \/ /\ frame[r].pc = "step" /\ label = "attempt"
            /\ DependenciesDone(frame[r].cur)
         \/ frame[r].pc = "own" /\ label = "recovered"
         \/ frame[r].pc = "recovered" /\ label = "verdict"
  PROVE  RecordInv'
<1>0. OwnInv(r) /\ SameRows(r)
  BY DEF RecordInv, OwnInv
<1>a. /\ frame'[r].pc = label /\ frame'[r].cur = frame[r].cur
      /\ frame'[r].planned = frame[r].planned
      /\ frame'[r].recoveryOf = frame[r].recoveryOf
      /\ frame'[r].aborted = frame[r].aborted
      /\ frame'[r].outcome = frame[r].outcome
      /\ frame[r].cur \in Step /\ frame[r].outcome \in Outcome
      /\ \A q \in Run \ {r} : frame'[q] = frame[q]
  BY Moves
<1>1. \A s \in Step : StepInv(r, s)'
  BY <1>0 DEF OwnInv, StepInv, SameRows
<1>2. StatusInv(r)'
  BY <1>0, <1>a DEF OwnInv, StatusInv, SameRows, Active, Untouched
<1>3. CurrentInv(r)'
  BY <1>0, <1>a
  DEF OwnInv, CurrentInv, SameRows, Untouched, DependenciesDone, Active
<1>4. PathInv(r)'
  BY <1>0, <1>a
  DEF OwnInv, PathInv, SameRows, Untouched, Launched, Active
<1>5. RequestsStay
  BY DEF RequestsStay, SameRows
<1>6. ResumeInv(r)'
  BY <1>0, <1>a DEF OwnInv, ResumeInv, SameRows, Recovery, Resumed
<1> QED BY <1>1, <1>2, <1>3, <1>4, <1>5, <1>6, <1>a, OneRunKeeps DEF OwnInv

\* The end of an activation, which may give the run its last status.
LEMMA ReturnKeeps ==
  ASSUME TypeOK, RecordInv, NEW r \in Run, Return(r),
         UNCHANGED <<runPlan, attempt, request, resolved, checkpoint, evidence,
                     sent, up>>,
         \A q \in Run \ {r} : runStatus'[q] = runStatus[q],
         \/ runStatus'[r] = runStatus[r]
         \/ /\ runStatus'[r] \in TerminalRun
            /\ runStatus'[r] = "completed" =>
                 \A s \in Step : evidence[r][s] = "succeeded"
  PROVE  RecordInv'
<1>0. OwnInv(r)
  BY DEF RecordInv, OwnInv
<1>1. \A s \in Step : StepInv(r, s)'
  BY <1>0 DEF OwnInv, StepInv
<1>2. StatusInv(r)'
  BY <1>0, Moves DEF OwnInv, StatusInv, Active, Untouched, TerminalRun
<1>3. CurrentInv(r)' /\ PathInv(r)'
  BY Moves DEF CurrentInv, PathInv, Launched
<1>5. RequestsStay
  BY DEF RequestsStay
<1>6. ResumeInv(r)'
  BY Moves DEF ResumeInv, Resumed
<1>7. \A q \in Run \ {r} : SameRows(q) /\ frame'[q] = frame[q]
  BY Moves DEF SameRows
<1> QED BY <1>1, <1>2, <1>3, <1>5, <1>6, <1>7, OneRunKeeps DEF OwnInv

\* The statuses before the first step.
LEMMA LaunchKeeps ==
  ASSUME TypeOK, RecordInv, NEW r \in Run, MarkApproved(r) \/ MarkRunning(r)
  PROVE  RecordInv'
<1>0. OwnInv(r)
  BY DEF RecordInv, OwnInv
<1>1. /\ UNCHANGED <<runPlan, attempt, request, resolved, checkpoint, evidence,
                     sent, up>>
      /\ \A q \in Run \ {r} : runStatus'[q] = runStatus[q]
      /\ frame[r].pc \in {"created", "approved"}
      /\ \/ runStatus'[r] = "approved" /\ Goto(r, "approved")
         \/ runStatus'[r] = "running" /\ Goto(r, "step")
  BY DEF MarkApproved, MarkRunning, history, TypeOK
<1>a. /\ frame'[r].pc \in {"approved", "step"}
      /\ frame'[r].pc = "approved" => runStatus'[r] = "approved"
      /\ frame'[r].pc = "step" => runStatus'[r] = "running"
      /\ frame'[r].cur = frame[r].cur /\ frame[r].cur \in Step
      /\ frame'[r].recoveryOf = frame[r].recoveryOf
      /\ \A q \in Run \ {r} : frame'[q] = frame[q]
  <2>1. CASE Goto(r, "approved") /\ runStatus'[r] = "approved"
    BY <2>1, Moves
  <2>2. CASE Goto(r, "step") /\ runStatus'[r] = "running"
    BY <2>2, Moves
  <2> QED BY <1>1, <2>1, <2>2
<1>2. \A s \in Step : Untouched(r, s)
  BY <1>0, <1>1 DEF OwnInv, StatusInv, TerminalRun
<1>3. \A s \in Step : StepInv(r, s)' /\ Untouched(r, s)'
  BY <1>0, <1>1, <1>2 DEF OwnInv, StepInv, Untouched
<1>4. StatusInv(r)'
  BY <1>0, <1>1, <1>3, <1>a DEF OwnInv, StatusInv, Active
<1>5. CurrentInv(r)' /\ PathInv(r)'
  BY <1>0, <1>1, <1>3, <1>a
  DEF OwnInv, CurrentInv, PathInv, Launched, Untouched
<1>6. RequestsStay
  BY <1>1 DEF RequestsStay
<1>7. ResumeInv(r)'
  BY <1>0, <1>1, <1>a DEF OwnInv, ResumeInv, Resumed
<1>8. \A q \in Run \ {r} : SameRows(q) /\ frame'[q] = frame[q]
  BY <1>1, <1>a DEF SameRows
<1> QED BY <1>1, <1>3, <1>4, <1>5, <1>6, <1>7, <1>8, OneRunKeeps DEF OwnInv

-----------------------------------------------------------------------------
(* Steps that write one row                                                *)

\* An attempt is opened for a step of which nothing has been recorded.
LEMMA OpenAttemptKeeps ==
  ASSUME TypeOK, PayInv, RecordInv, NEW r \in Run, OpenAttempt(r)
  PROVE  RecordInv'
<1> DEFINE s == frame[r].cur
<1>0. OwnInv(r) /\ LaunchInv(r) /\ frame[r] \in Frame
  BY DEF RecordInv, OwnInv, PayInv, TypeOK
<1>1. /\ UNCHANGED <<runStatus, runPlan, resolved, checkpoint, evidence, sent,
                     up>>
      /\ frame[r].pc = "attempt" /\ s \in ProviderStep /\ s \in Step
      /\ RecoveryValid(r) /\ Goto(r, "opened")
      /\ Untouched(r, s) /\ DependenciesDone(s)
      /\ frame[r].planned[s] \in Descriptor /\ frame[r].planned[s] # None
  BY <1>0, Moves, ConstantsAssumption
  DEF OpenAttempt, history, OwnInv, CurrentInv, LaunchInv, Launched
<1>2. /\ attempt'[r][s] = "not_dispatched"
      /\ request'[r][s] = frame[r].planned[s]
      /\ \A t \in Step \ {s} :
           attempt'[r][t] = attempt[r][t] /\ request'[r][t] = request[r][t]
      /\ \A q \in Run \ {r} :
           attempt'[q] = attempt[q] /\ request'[q] = request[q]
  BY <1>1 DEF OpenAttempt, TypeOK
<1>3. /\ frame'[r].pc = "opened" /\ frame'[r].cur = s
      /\ frame'[r].planned = frame[r].planned
      /\ frame'[r].recoveryOf = frame[r].recoveryOf
      /\ \A q \in Run \ {r} : frame'[q] = frame[q]
  BY <1>1, Moves
<1>4. \A t \in Step : StepInv(r, t)'
  BY <1>0, <1>1, <1>2 DEF OwnInv, StepInv, Untouched
<1>5. StatusInv(r)'
  BY <1>0, <1>1, <1>2, <1>3 DEF OwnInv, StatusInv, Active, TerminalRun
<1>6. CurrentInv(r)'
  BY <1>1, <1>2, <1>3 DEF CurrentInv, Untouched, DependenciesDone
<1>7. PathInv(r)'
  BY <1>0, <1>1, <1>2, <1>3, Moves DEF OwnInv, PathInv, Launched, Untouched
<1>8. RequestsStay
  BY <1>1, <1>2 DEF RequestsStay, Untouched
<1>9. ResumeInv(r)'
  <2>1. CASE Recovery(r) = None
    BY <1>0, <1>3, <2>1 DEF OwnInv, ResumeInv, Recovery
  <2>2. CASE Recovery(r) # None
    <3> DEFINE q == Recovery(r)
    <3>1. q \in Run /\ checkpoint[q][s] = "active" /\ runPlan[q] = runPlan[r]
          /\ request[q][s] = frame[r].planned[s]
      BY <1>0, <1>1, <2>2 DEF RecoveryValid, Recovery, Frame
    <3>2. q # r
      BY <1>1, <3>1 DEF Untouched
    <3> QED BY <1>0, <1>1, <1>2, <1>3, <3>1, <3>2
            DEF OwnInv, ResumeInv, Recovery
  <2> QED BY <2>1, <2>2
<1>10. \A q \in Run \ {r} : SameRows(q) /\ frame'[q] = frame[q]
  BY <1>1, <1>2, <1>3 DEF SameRows
<1> QED BY <1>1, <1>4, <1>5, <1>6, <1>7, <1>8, <1>9, <1>10, OneRunKeeps
        DEF OwnInv

\* The attempt says "dispatching" before the provider is called.
LEMMA MarkDispatchingKeeps ==
  ASSUME TypeOK, RecordInv, NEW r \in Run, MarkDispatching(r)
  PROVE  RecordInv'
<1> DEFINE s == frame[r].cur
<1>0. OwnInv(r)
  BY DEF RecordInv, OwnInv
<1>1. /\ UNCHANGED <<runStatus, runPlan, request, resolved, checkpoint, evidence,
                     sent, up>>
      /\ frame[r].pc = "opened" /\ s \in ProviderStep /\ s \in Step
      /\ Goto(r, "dispatching")
      /\ attempt[r][s] = "not_dispatched"
  BY <1>0, Moves DEF MarkDispatching, history, OwnInv, CurrentInv
<1>2. /\ attempt'[r][s] = "dispatching"
      /\ \A t \in Step \ {s} : attempt'[r][t] = attempt[r][t]
      /\ \A q \in Run \ {r} : attempt'[q] = attempt[q]
  BY <1>1 DEF MarkDispatching, TypeOK
<1>3. /\ frame'[r].pc = "dispatching" /\ frame'[r].cur = s
      /\ frame'[r].planned = frame[r].planned
      /\ frame'[r].recoveryOf = frame[r].recoveryOf
      /\ \A q \in Run \ {r} : frame'[q] = frame[q]
  BY <1>1, Moves
<1>4. \A t \in Step : StepInv(r, t)'
  BY <1>0, <1>1, <1>2 DEF OwnInv, StepInv, CurrentInv
<1>5. StatusInv(r)'
  BY <1>0, <1>1, <1>2, <1>3 DEF OwnInv, StatusInv, Active, TerminalRun
<1>6. CurrentInv(r)'
  BY <1>0, <1>1, <1>2, <1>3 DEF OwnInv, CurrentInv, DependenciesDone
<1>7. PathInv(r)'
  BY <1>0, <1>1, <1>2, <1>3, Moves DEF OwnInv, PathInv, Launched, Untouched
<1>8. RequestsStay
  BY <1>1 DEF RequestsStay
<1>9. ResumeInv(r)'
  BY <1>0, <1>1, <1>3 DEF OwnInv, ResumeInv, Recovery, Resumed
<1>10. \A q \in Run \ {r} : SameRows(q) /\ frame'[q] = frame[q]
  BY <1>1, <1>2, <1>3 DEF SameRows
<1> QED BY <1>1, <1>4, <1>5, <1>6, <1>7, <1>8, <1>9, <1>10, OneRunKeeps
        DEF OwnInv

\* What is sent is what was planned, after all that the step depends on.
LEMMA DispatchKeeps ==
  ASSUME TypeOK, PayInv, RecordInv, NEW r \in Run, Dispatch(r)
  PROVE  RecordInv'
<1> DEFINE s == frame[r].cur
<1>0. OwnInv(r) /\ LaunchInv(r)
  BY DEF RecordInv, OwnInv, PayInv
<1>1. /\ UNCHANGED <<runStatus, runPlan, attempt, request, resolved, checkpoint,
                     evidence, up>>
      /\ \/ frame[r].pc = "attempt" /\ s \notin ProviderStep
         \/ frame[r].pc = "dispatching" /\ s \in ProviderStep
      /\ s \in Step /\ Step \subseteq Nat /\ Goto(r, "await")
      /\ frame[r].planned[s] # None
      /\ sent[r][s] = None /\ evidence[r][s] = "none" /\ ~resolved[r][s]
  BY <1>0, Moves, ConstantsAssumption
  DEF Dispatch, tables, OwnInv, CurrentInv, Untouched, LaunchInv, Launched
<1>2. /\ sent'[r][s] = frame[r].planned[s]
      /\ \A t \in Step \ {s} : sent'[r][t] = sent[r][t]
      /\ \A q \in Run \ {r} : sent'[q] = sent[q]
  BY <1>1 DEF Dispatch, TypeOK
<1>3. /\ frame'[r].pc = "await" /\ frame'[r].cur = s
      /\ frame'[r].planned = frame[r].planned
      /\ frame'[r].recoveryOf = frame[r].recoveryOf
      /\ \A q \in Run \ {r} : frame'[q] = frame[q]
  BY <1>1, Moves
<1>4. \A t \in DependsOn[s] : evidence[r][t] = "succeeded"
  BY <1>0, <1>1, ConstantsAssumption
  DEF OwnInv, CurrentInv, DependenciesDone, PathInv, Launched
<1>5. \A t \in Step : StepInv(r, t)'
  <2>1. s \in ProviderStep =>
          /\ request[r][s] = frame[r].planned[s]
          /\ attempt[r][s] = "dispatching"
    BY <1>0, <1>1 DEF OwnInv, CurrentInv
  <2>2. StepInv(r, s)
    BY <1>0, <1>1 DEF OwnInv
  <2>3. ASSUME NEW t \in Step, t = s
        PROVE  StepInv(r, t)'
    BY <1>1, <1>2, <1>4, <2>1, <2>2, <2>3 DEF StepInv
  <2>4. ASSUME NEW t \in Step, t # s
        PROVE  StepInv(r, t)'
    BY <1>0, <1>1, <1>2, <2>4 DEF OwnInv, StepInv
  <2> QED BY <2>3, <2>4
<1>6. StatusInv(r)'
  BY <1>0, <1>1, <1>3 DEF OwnInv, StatusInv, Active, TerminalRun
<1>7. CurrentInv(r)'
  BY <1>0, <1>1, <1>2, <1>3 DEF OwnInv, CurrentInv, Untouched, StepInv
<1>8. PathInv(r)'
  BY <1>0, <1>1, <1>2, <1>3 DEF OwnInv, PathInv, Launched, Untouched
<1>9. RequestsStay
  BY <1>1 DEF RequestsStay
<1>10. ResumeInv(r)'
  BY <1>0, <1>1, <1>3 DEF OwnInv, ResumeInv, Recovery, Resumed
<1>11. \A q \in Run \ {r} : SameRows(q) /\ frame'[q] = frame[q]
  BY <1>1, <1>2, <1>3 DEF SameRows
<1> QED BY <1>1, <1>5, <1>6, <1>7, <1>8, <1>9, <1>10, <1>11, OneRunKeeps
        DEF OwnInv

-----------------------------------------------------------------------------
(* While a run awaits its dispatcher                                       *)

\* Whatever is written while a run awaits is about the step it awaits.
LEMMA AwaitKeeps ==
  ASSUME TypeOK, RecordInv, NEW r \in Run, NEW s, s = frame[r].cur,
         frame[r].pc = "await",
         UNCHANGED <<runStatus, runPlan, request, resolved, evidence, sent, up>>,
         \A q \in Run \ {r} : /\ attempt'[q] = attempt[q]
                              /\ checkpoint'[q] = checkpoint[q]
                              /\ frame'[q] = frame[q],
         \A t \in Step \ {s} : /\ attempt'[r][t] = attempt[r][t]
                               /\ checkpoint'[r][t] = checkpoint[r][t],
         s \notin ProviderStep => /\ attempt'[r][s] = attempt[r][s]
                                  /\ checkpoint'[r][s] = checkpoint[r][s],
         frame'[r].cur = s,
         frame'[r].recoveryOf = frame[r].recoveryOf,
         frame'[r].pc \in {"await", "unknown", "evidence"},
         s \in ProviderStep =>
           /\ frame'[r].pc = "await" =>
                attempt'[r][s] \in {"dispatching", "cancel_requested"}
           /\ frame'[r].pc = "unknown" =>
                attempt'[r][s] = "remote_state_unknown"
           /\ frame'[r].pc = "evidence" =>
                attempt'[r][s] \in RemoteOf(frame'[r].outcome),
         frame'[r].pc = "evidence" => frame'[r].outcome \in Outcome,
         frame'[r].pc = "unknown" => s \in ProviderStep,
         attempt'[r][s] = "cancel_requested" => frame'[r].aborted
  PROVE  RecordInv'
<1>0. OwnInv(r) /\ s \in Step /\ Step \subseteq Nat
  BY Moves DEF RecordInv, OwnInv
<1>1. /\ sent[r][s] # None /\ evidence[r][s] = "none" /\ ~resolved[r][s]
      /\ s \in ProviderStep =>
           attempt[r][s] \in {"dispatching", "cancel_requested"}
      /\ runStatus[r] = "running" /\ up
  BY <1>0 DEF OwnInv, CurrentInv, StatusInv, Active
<1>2. s \in ProviderStep => attempt'[r][s] \notin {"none", "not_dispatched"}
  <2>1. \A o \in Outcome :
          "none" \notin RemoteOf(o) /\ "not_dispatched" \notin RemoteOf(o)
    BY DEF RemoteOf, Outcome
  <2> QED BY <2>1
<1>3. \A t \in Step : StepInv(r, t)'
  <2>1. StepInv(r, s)
    BY <1>0 DEF OwnInv
  <2>2. StepInv(r, s)'
    BY <1>1, <1>2, <2>1 DEF StepInv
  <2>3. ASSUME NEW t \in Step, t # s
        PROVE  StepInv(r, t)'
    BY <1>0, <2>3 DEF OwnInv, StepInv
  <2> QED BY <2>2, <2>3
<1>4. StatusInv(r)'
  BY <1>0, <1>1 DEF OwnInv, StatusInv, Active, TerminalRun
<1>5. CurrentInv(r)'
  <2>1. s \notin ProviderStep => attempt[r][s] = "none"
    BY <1>0 DEF OwnInv, StepInv
  <2> QED BY <1>0, <1>1, <2>1 DEF OwnInv, CurrentInv
<1>6. PathInv(r)'
  BY <1>0 DEF OwnInv, PathInv, Launched, Untouched
<1>7. ResumeInv(r)'
  BY <1>0 DEF OwnInv, ResumeInv, Recovery, Resumed
<1>8. RequestsStay /\ \A q \in Run \ {r} : SameRows(q) /\ frame'[q] = frame[q]
  BY DEF RequestsStay, SameRows
<1> QED BY <1>3, <1>4, <1>5, <1>6, <1>7, <1>8, OneRunKeeps DEF OwnInv

\* An answer, with what it changes of the activation.
LEMMA AnswerMoves ==
  ASSUME TypeOK, NEW r \in Run, NEW o \in Outcome, NEW tr \in BOOLEAN,
         frame' = [frame EXCEPT ![r].outcome = o, ![r].tree = tr,
                                ![r].pc = "evidence"]
  PROVE  /\ \A q \in Run \ {r} : frame'[q] = frame[q]
         /\ frame'[r].pc = "evidence" /\ frame'[r].cur = frame[r].cur
         /\ frame'[r].recoveryOf = frame[r].recoveryOf
         /\ frame'[r].aborted = frame[r].aborted
         /\ frame'[r].planned = frame[r].planned
         /\ frame'[r].outcome = o /\ frame'[r].tree = tr
BY DEF TypeOK, Frame

\* Every answer, and every throw, of a dispatcher.
LEMMA AnswerKeeps ==
  ASSUME TypeOK, RecordInv, NEW r \in Run, Answer(r)
  PROVE  RecordInv'
<1>c. PICK s \in Step : s = frame[r].cur
  BY Moves
<1>0. /\ frame[r].pc = "await" /\ s \in Step /\ Active(r)
      /\ UNCHANGED <<runStatus, runPlan, request, resolved, checkpoint,
                     evidence, sent, up>>
  BY <1>c, Moves DEF Answer, LocalAnswer, LocalThrows, ProviderAnswer,
    ProviderUnknown, ProviderAnswerRefused, tables, history, Active
<1>1. /\ s \in ProviderStep =>
           attempt[r][s] \in {"dispatching", "cancel_requested"}
      /\ attempt[r][s] = "cancel_requested" => frame[r].aborted
      /\ s \notin ProviderStep => attempt[r][s] = "none"
  BY <1>c, <1>0 DEF RecordInv, CurrentInv, StepInv
<1>2. ASSUME NEW o \in Outcome, NEW tree \in BOOLEAN, LocalAnswer(r, o, tree)
      PROVE  RecordInv'
  <2>1. s \notin ProviderStep /\ attempt' = attempt
    BY <1>c, <1>2 DEF LocalAnswer, tables
  <2>2. /\ \A q \in Run \ {r} : frame'[q] = frame[q]
        /\ frame'[r].pc = "evidence" /\ frame'[r].cur = s
        /\ frame'[r].recoveryOf = frame[r].recoveryOf
        /\ frame'[r].outcome = o
    BY <1>c, <1>2, AnswerMoves DEF LocalAnswer
  <2> QED BY <1>c, <1>0, <1>1, <2>1, <2>2, AwaitKeeps
<1>3. ASSUME NEW o \in Outcome, NEW remote \in SettledRemote,
             ProviderAnswer(r, o, remote)
      PROVE  RecordInv'
  <2>1. /\ s \in ProviderStep /\ remote \in RemoteOf(o)
        /\ attempt'[r][s] = remote /\ remote # "cancel_requested"
        /\ \A t \in Step \ {s} : attempt'[r][t] = attempt[r][t]
        /\ \A q \in Run \ {r} : attempt'[q] = attempt[q]
    BY <1>c, <1>0, <1>3 DEF ProviderAnswer, TypeOK, SettledRemote
  <2>2. /\ \A q \in Run \ {r} : frame'[q] = frame[q]
        /\ frame'[r].pc = "evidence" /\ frame'[r].cur = s
        /\ frame'[r].recoveryOf = frame[r].recoveryOf
        /\ frame'[r].outcome = o
    BY <1>c, <1>3, AnswerMoves DEF ProviderAnswer
  <2> QED BY <1>c, <1>0, <1>1, <2>1, <2>2, AwaitKeeps
<1>4. CASE ProviderUnknown(r)
  <2>1. /\ s \in ProviderStep /\ attempt'[r][s] = "remote_state_unknown"
        /\ \A t \in Step \ {s} : attempt'[r][t] = attempt[r][t]
        /\ \A q \in Run \ {r} : attempt'[q] = attempt[q]
    BY <1>c, <1>0, <1>4 DEF ProviderUnknown, TypeOK
  <2>2. /\ \A q \in Run \ {r} : frame'[q] = frame[q]
        /\ frame'[r].pc = "unknown" /\ frame'[r].cur = s
        /\ frame'[r].recoveryOf = frame[r].recoveryOf
    BY <1>c, <1>4, Moves DEF ProviderUnknown
  <2> QED BY <1>c, <1>0, <1>1, <2>1, <2>2, AwaitKeeps
<1>5. ASSUME LocalThrows(r) \/
             \E remote \in SettledRemote : ProviderAnswerRefused(r, remote)
      PROVE  RecordInv'
  <2>1. Goto(r, "fail") /\ \A q \in Run : SameRows(q)
    BY <1>c, <1>5
    DEF LocalThrows, ProviderAnswerRefused, tables, history, SameRows
  <2> QED BY <1>c, <1>0, <2>1, GotoKeeps
<1> QED BY <1>c, <1>2, <1>3, <1>4, <1>5 DEF Answer

\* A streamed checkpoint belongs to the request the run awaits.
LEMMA EmitCheckpointKeeps ==
  ASSUME TypeOK, RecordInv, NEW r \in Run, EmitCheckpoint(r)
  PROVE  RecordInv'
<1>c. PICK s \in Step : s = frame[r].cur
  BY Moves
<1>0. /\ frame[r].pc = "await" /\ s \in Step /\ s \in ProviderStep
      /\ UNCHANGED <<runStatus, runPlan, request, resolved, attempt,
                     evidence, sent, up>>
  BY <1>c, Moves DEF EmitCheckpoint, history
<1>1. /\ attempt[r][s] \in {"dispatching", "cancel_requested"}
      /\ attempt[r][s] = "cancel_requested" => frame[r].aborted
  BY <1>c, <1>0 DEF RecordInv, CurrentInv
<1>2. /\ \A t \in Step \ {s} : checkpoint'[r][t] = checkpoint[r][t]
      /\ \A q \in Run \ {r} : checkpoint'[q] = checkpoint[q]
  BY <1>c, <1>0 DEF EmitCheckpoint, TypeOK
<1>3. /\ \A q \in Run \ {r} : frame'[q] = frame[q]
      /\ frame'[r].pc = "await" /\ frame'[r].cur = s
      /\ frame'[r].recoveryOf = frame[r].recoveryOf
      /\ frame'[r].aborted = frame[r].aborted
  BY <1>c, <1>0 DEF EmitCheckpoint, TypeOK, Frame
<1> QED BY <1>c, <1>0, <1>1, <1>2, <1>3, AwaitKeeps

\* A cancellation is recorded before the signal is given.
LEMMA CancelKeeps ==
  ASSUME TypeOK, RecordInv, NEW r \in Run, Cancel(r)
  PROVE  RecordInv'
<1>c. PICK s \in Step : s = frame[r].cur
  BY Moves
<1>0. /\ frame[r].pc = "await" /\ s \in Step
      /\ UNCHANGED <<runStatus, runPlan, request, resolved, checkpoint,
                     evidence, sent, up>>
  BY <1>c, Moves DEF Cancel, history
<1>1. /\ s \in ProviderStep =>
           attempt[r][s] \in {"dispatching", "cancel_requested"}
      /\ s \notin ProviderStep => attempt[r][s] = "none"
  BY <1>c, <1>0 DEF RecordInv, CurrentInv, StepInv
<1>2. /\ \A t \in Step \ {s} : attempt'[r][t] = attempt[r][t]
      /\ \A q \in Run \ {r} : attempt'[q] = attempt[q]
      /\ attempt'[r][s] \in {attempt[r][s], "cancel_requested"}
      /\ s \notin ProviderStep => attempt'[r][s] = attempt[r][s]
  BY <1>c, <1>0 DEF Cancel, TypeOK
<1>3. /\ \A q \in Run \ {r} : frame'[q] = frame[q]
      /\ frame'[r].pc = "await" /\ frame'[r].cur = s
      /\ frame'[r].recoveryOf = frame[r].recoveryOf
      /\ frame'[r].aborted
  BY <1>c, <1>0 DEF Cancel, TypeOK, Frame
<1> QED BY <1>c, <1>0, <1>1, <1>2, <1>3, AwaitKeeps

-----------------------------------------------------------------------------
(* After the await                                                         *)

\* Evidence is what the attempt says.
LEMMA RecordEvidenceKeeps ==
  ASSUME TypeOK, RecordInv, NEW r \in Run, RecordEvidence(r)
  PROVE  RecordInv'
<1>c. PICK s \in Step : s = frame[r].cur
  BY Moves
<1>0. OwnInv(r) /\ Step \subseteq Nat /\ frame[r].outcome \in Outcome
  BY Moves DEF RecordInv, OwnInv
<1>1. /\ UNCHANGED <<runStatus, runPlan, attempt, request, resolved, checkpoint,
                     sent, up>>
      /\ frame[r].pc = "evidence" /\ Goto(r, "own")
      /\ sent[r][s] # None /\ evidence[r][s] = "none"
      /\ s \in ProviderStep =>
           attempt[r][s] \in RemoteOf(frame[r].outcome) /\ ~resolved[r][s]
      /\ runStatus[r] = "running" /\ up
  BY <1>c, <1>0
  DEF RecordEvidence, history, OwnInv, CurrentInv, StatusInv, Active
<1>2. /\ evidence'[r][s] = frame[r].outcome
      /\ \A t \in Step \ {s} : evidence'[r][t] = evidence[r][t]
      /\ \A q \in Run \ {r} : evidence'[q] = evidence[q]
  BY <1>c DEF RecordEvidence, TypeOK
<1>3. /\ frame'[r].pc = "own" /\ frame'[r].cur = s
      /\ frame'[r].recoveryOf = frame[r].recoveryOf
      /\ frame'[r].aborted = frame[r].aborted
      /\ frame'[r].outcome = frame[r].outcome
      /\ \A q \in Run \ {r} : frame'[q] = frame[q]
  BY <1>1, <1>c, Moves
<1>4. \A t \in Step : StepInv(r, t)'
  <2>1. \A x \in Step :
          evidence[r][x] = "succeeded" => evidence'[r][x] = "succeeded"
    BY <1>1, <1>2
  <2>2. \A x \in Step : DependsOn[x] \subseteq Step
    BY ConstantsAssumption
  <2>3. ASSUME NEW t \in Step
        PROVE  StepInv(r, t)'
    <3>1. StepInv(r, t)
      BY <1>0 DEF OwnInv
    <3>2. CASE t = s
      BY <1>1, <1>2, <2>1, <2>2, <3>1, <3>2 DEF StepInv
    <3>3. CASE t # s
      BY <1>1, <1>2, <2>1, <2>2, <3>1, <3>3 DEF StepInv
    <3> QED BY <3>2, <3>3
  <2> QED BY <2>3
<1>5. StatusInv(r)'
  BY <1>0, <1>1, <1>3 DEF OwnInv, StatusInv, Active, TerminalRun
<1>6. CurrentInv(r)'
  BY <1>c, <1>0, <1>1, <1>2, <1>3 DEF OwnInv, CurrentInv
<1>7. PathInv(r)'
  BY <1>c, <1>0, <1>1, <1>2, <1>3 DEF OwnInv, PathInv, Launched, Untouched
<1>8. ResumeInv(r)'
  BY <1>c, <1>0, <1>1, <1>3 DEF OwnInv, ResumeInv, Recovery, Resumed
<1>9. RequestsStay /\ \A q \in Run \ {r} : SameRows(q) /\ frame'[q] = frame[q]
  BY <1>1, <1>2, <1>3 DEF RequestsStay, SameRows
<1> QED
  BY <1>1, <1>4, <1>5, <1>6, <1>7, <1>8, <1>9, OneRunKeeps DEF OwnInv

\* Consuming a checkpoint leaves a row that is still there.
LEMMA ConsumeKeeps ==
  ASSUME TypeOK, RecordInv, NEW r \in Run, NEW q \in Run, NEW s \in Step,
         checkpoint[q][s] = "active",
         checkpoint' = [checkpoint EXCEPT ![q][s] = "consumed"],
         UNCHANGED <<runStatus, runPlan, attempt, request, resolved, evidence,
                     sent, up>>,
         \/ frame[r].pc = "own" /\ Goto(r, "recovered")
         \/ frame[r].pc = "recovered" /\ Goto(r, "verdict")
  PROVE  RecordInv'
<1>1. /\ \A x \in Run : \A t \in Step :
           checkpoint'[x][t] # checkpoint[x][t] => checkpoint[x][t] # "none"
      /\ frame[r].cur \in Step /\ Step \subseteq Nat
  BY Moves DEF TypeOK
<1>2. /\ frame'[r].pc \in {"recovered", "verdict"}
      /\ frame[r].pc \in {"own", "recovered"}
      /\ frame'[r].pc = "recovered" => frame[r].pc = "own"
      /\ frame'[r].cur = frame[r].cur
      /\ frame'[r].recoveryOf = frame[r].recoveryOf
      /\ frame'[r].aborted = frame[r].aborted
      /\ frame'[r].outcome = frame[r].outcome
      /\ \A x \in Run \ {r} : frame'[x] = frame[x]
  <2>1. CASE frame[r].pc = "own" /\ Goto(r, "recovered")
    BY <2>1, Moves
  <2>2. CASE frame[r].pc = "recovered" /\ Goto(r, "verdict")
    BY <2>2, Moves
  <2> QED BY <2>1, <2>2
<1>3. ASSUME NEW x \in Run
      PROVE  OwnInv(x)'
  <2>0. OwnInv(x) /\ OwnInv(r)
    BY DEF RecordInv, OwnInv
  <2>a. \A t \in Step : Untouched(x, t) => Untouched(x, t)'
    BY <1>1 DEF Untouched
  <2>b. frame[x].cur \in Step
    BY Moves
  <2>1. \A t \in Step : StepInv(x, t)'
    BY <1>1, <2>0 DEF OwnInv, StepInv
  <2>2. StatusInv(x)'
    <3>1. CASE x = r
      BY <1>2, <2>0, <2>a, <3>1 DEF OwnInv, StatusInv, Active
    <3>2. CASE x # r
      BY <1>2, <2>0, <2>a, <3>2 DEF OwnInv, StatusInv, Active
    <3> QED BY <3>1, <3>2
  <2>3. CurrentInv(x)'
    <3>1. CASE x = r
      BY <1>1, <1>2, <2>0, <3>1 DEF OwnInv, CurrentInv
    <3>2. CASE x # r
      <4>1. frame'[x] = frame[x]
        BY <1>2, <3>2
      <4> QED BY <2>0, <2>a, <2>b, <4>1
              DEF OwnInv, CurrentInv, DependenciesDone
    <3> QED BY <3>1, <3>2
  <2>4. PathInv(x)'
    <3>1. CASE x = r
      BY <1>2, <2>0, <2>a, <3>1 DEF OwnInv, PathInv, Launched
    <3>2. CASE x # r
      BY <1>2, <2>0, <2>a, <3>2 DEF OwnInv, PathInv, Launched
    <3> QED BY <3>1, <3>2
  <2>5. ResumeInv(x)'
    <3>1. CASE x = r
      BY <1>2, <2>0, <3>1 DEF OwnInv, ResumeInv, Recovery, Resumed
    <3>2. CASE x # r
      BY <1>2, <2>0, <3>2 DEF OwnInv, ResumeInv, Recovery, Resumed
    <3> QED BY <3>1, <3>2
  <2> QED BY <2>1, <2>2, <2>3, <2>4, <2>5 DEF OwnInv
<1> QED BY <1>3 DEF RecordInv, OwnInv

\* The loop goes on from a success to a step nothing is recorded of.
LEMMA NextStepKeeps ==
  ASSUME TypeOK, RecordInv, NEW r \in Run, NextStep(r)
  PROVE  RecordInv'
<1>c. PICK s \in Step : s = frame[r].cur
  BY Moves
<1>0. OwnInv(r) /\ Step \subseteq Nat /\ Step = 1 .. NSteps /\ NSteps \in Nat
  BY Moves, ConstantsAssumption DEF RecordInv, OwnInv, Step
<1>1. /\ UNCHANGED <<runStatus, runPlan, attempt, request, resolved, checkpoint,
                     evidence, sent, up>>
      /\ frame[r].pc = "verdict" /\ s < NSteps /\ s + 1 \in Step
      /\ evidence[r][s] = "succeeded"
      /\ runStatus[r] = "running" /\ up
  BY <1>c, <1>0
  DEF NextStep, Continue, tables, history, OwnInv, CurrentInv, StatusInv, Active
<1>2. /\ frame'[r].pc = "step" /\ frame'[r].cur = s + 1
      /\ frame'[r].recoveryOf = frame[r].recoveryOf
      /\ \A q \in Run \ {r} : frame'[q] = frame[q]
  BY <1>c DEF NextStep, TypeOK, Frame
<1>3. \A t \in Step : StepInv(r, t)'
  BY <1>0, <1>1 DEF OwnInv, StepInv
<1>4. StatusInv(r)'
  BY <1>0, <1>1, <1>2 DEF OwnInv, StatusInv, Active, TerminalRun
<1>5. Untouched(r, s + 1)'
  BY <1>c, <1>0, <1>1 DEF OwnInv, PathInv, Launched, Untouched
<1>6. CurrentInv(r)'
  BY <1>1, <1>2, <1>5 DEF CurrentInv, Untouched
<1>7. PathInv(r)'
  BY <1>c, <1>0, <1>1, <1>2 DEF OwnInv, PathInv, Launched, Untouched
<1>8. ResumeInv(r)'
  BY <1>0, <1>2 DEF OwnInv, ResumeInv, Resumed
<1>9. RequestsStay /\ \A q \in Run \ {r} : SameRows(q) /\ frame'[q] = frame[q]
  BY <1>1, <1>2 DEF RequestsStay, SameRows
<1> QED
  BY <1>1, <1>3, <1>4, <1>6, <1>7, <1>8, <1>9, OneRunKeeps DEF OwnInv

-----------------------------------------------------------------------------
(* The desk and the world                                                  *)

\* Steps that leave the rows and the activations of every run alone.
LEMMA ElsewhereKeeps ==
  ASSUME TypeOK, RecordInv, UNCHANGED <<frame, up>>, \A q \in Run : SameRows(q)
  PROVE  RecordInv'
<1>1. RequestsStay
  BY DEF RequestsStay, SameRows
<1> QED BY <1>1, AloneKeeps DEF RecordInv, OwnInv

\* A new run starts with nothing recorded, whatever it means to resume.
LEMMA StartRunKeeps ==
  ASSUME TypeOK, RecordInv, NEW r \in Run, NEW p \in Plan, StartRun(r, p)
  PROVE  RecordInv'
<1>1. /\ UNCHANGED <<attempt, request, resolved, checkpoint, evidence, sent,
                     up>>
      /\ runStatus[r] = "none" /\ runStatus'[r] = "planned"
      /\ \A x \in Run \ {r} : /\ runStatus'[x] = runStatus[x]
                             /\ runPlan'[x] = runPlan[x]
                             /\ frame'[x] = frame[x]
      /\ up
  BY DEF StartRun, history, TypeOK, ThreadFree
<1>2. PICK chosen \in [NeedsApproval -> Approval],
           recoveries \in [ProviderStep -> Run \cup {None}] :
        frame' = [frame EXCEPT ![r] = FirstFrame(chosen, recoveries)]
  BY DEF StartRun
<1>3. /\ frame'[r].pc = "created" /\ frame'[r].cur = 1 /\ 1 \in Step
      /\ \A s \in Step : frame'[r].recoveryOf[s] # None => s \in ProviderStep
      /\ \A s \in Step : ~ (s < 1)
  BY <1>2, ConstantsAssumption DEF FirstFrame, NoFrame, TypeOK, Step
<1>4. \A s \in Step : Untouched(r, s) /\ Untouched(r, s)'
  BY <1>1 DEF RecordInv, StatusInv, TerminalRun, Untouched
<1>5. \A s \in Step : StepInv(r, s)'
  BY <1>4 DEF StepInv, Untouched
<1>6. StatusInv(r)' /\ CurrentInv(r)' /\ PathInv(r)' /\ ResumeInv(r)'
  BY <1>1, <1>3, <1>4
  DEF StatusInv, CurrentInv, PathInv, ResumeInv, Active, Resumed, Untouched
<1>7. RequestsStay /\ \A q \in Run \ {r} : SameRows(q) /\ frame'[q] = frame[q]
  BY <1>1, <1>4 DEF RequestsStay, SameRows, Untouched
<1> QED BY <1>1, <1>5, <1>6, <1>7, OneRunKeeps DEF OwnInv

\* An attempt that a person resolves is one nothing is known of.
LEMMA ResolveKeeps ==
  ASSUME TypeOK, RecordInv, NEW r \in Run, NEW s \in Step,
         NEW resolution \in SettledRemote, ResolveUnknown(r, s, resolution)
  PROVE  RecordInv'
<1>0. OwnInv(r) /\ frame[r].cur \in Step /\ Step \subseteq Nat
  BY Moves DEF RecordInv, OwnInv
<1>1. /\ UNCHANGED <<runStatus, runPlan, request, checkpoint, evidence, sent,
                     frame, up>>
      /\ frame[r].pc \in {"idle", "await"}
      /\ attempt[r][s] = "remote_state_unknown"
      /\ attempt'[r][s] = resolution
      /\ \A t \in Step \ {s} :
           attempt'[r][t] = attempt[r][t] /\ resolved'[r][t] = resolved[r][t]
      /\ \A q \in Run \ {r} :
           attempt'[q] = attempt[q] /\ resolved'[q] = resolved[q]
  BY DEF ResolveUnknown, ThreadFree, history, TypeOK
<1>2. evidence[r][s] = "none"
  <2>1. \A o \in Outcome : "remote_state_unknown" \notin RemoteOf(o)
    BY DEF RemoteOf, Outcome
  <2>2. s \in ProviderStep
    BY <1>0, <1>1 DEF OwnInv, StepInv
  <2>3. evidence[r][s] # "none" => evidence[r][s] \in Outcome
    BY DEF TypeOK
  <2> QED BY <1>0, <1>1, <2>1, <2>2, <2>3 DEF OwnInv, StepInv
<1>3. frame[r].pc = "idle"
  <2>1. s \in ProviderStep
    BY <1>0, <1>1 DEF OwnInv, StepInv
  <2>2. frame[r].pc = "await" => s # frame[r].cur
    BY <1>0, <1>1, <2>1 DEF OwnInv, CurrentInv
  <2>3. frame[r].pc = "await" => ~ (s < frame[r].cur) /\ ~ (s > frame[r].cur)
    BY <1>0, <1>1, <1>2 DEF OwnInv, PathInv, Launched, Untouched
  <2>4. s = frame[r].cur \/ s < frame[r].cur \/ s > frame[r].cur
    <3>1. s \in Nat /\ frame[r].cur \in Nat
      BY <1>0
    <3> QED BY <3>1
  <2> QED BY <1>1, <2>2, <2>3, <2>4
<1>4. \A t \in Step : StepInv(r, t)'
  <2>1. StepInv(r, s)'
    BY <1>0, <1>1, <1>2 DEF OwnInv, StepInv, SettledRemote
  <2>2. ASSUME NEW t \in Step, t # s
        PROVE  StepInv(r, t)'
    BY <1>0, <1>1, <2>2 DEF OwnInv, StepInv
  <2> QED BY <2>1, <2>2
<1>5. StatusInv(r)'
  BY <1>0, <1>1, <1>3 DEF OwnInv, StatusInv, Active, Untouched
<1>6. CurrentInv(r)' /\ PathInv(r)' /\ ResumeInv(r)'
  BY <1>0, <1>1, <1>3
  DEF CurrentInv, OwnInv, PathInv, Launched, ResumeInv, Resumed
<1>7. RequestsStay /\ \A q \in Run \ {r} : SameRows(q) /\ frame'[q] = frame[q]
  BY <1>1 DEF RequestsStay, SameRows
<1> QED BY <1>1, <1>4, <1>5, <1>6, <1>7, OneRunKeeps DEF OwnInv

\* A crash loses the activations and nothing else.
LEMMA CrashKeeps ==
  ASSUME TypeOK, RecordInv, Crash
  PROVE  RecordInv'
<1> SUFFICES ASSUME NEW r \in Run
             PROVE  OwnInv(r)'
  BY DEF RecordInv, OwnInv
<1>0. OwnInv(r)
  BY DEF RecordInv, OwnInv
<1>1. /\ UNCHANGED <<runStatus, runPlan, attempt, request, resolved, checkpoint,
                     evidence, sent>>
      /\ frame'[r].pc = "idle" /\ frame'[r].recoveryOf = [s \in Step |-> None]
  BY DEF Crash, tables, history, NoFrame
<1> QED BY <1>0, <1>1
        DEF OwnInv, StepInv, StatusInv, CurrentInv, PathInv, ResumeInv, Active,
            Launched, Resumed, Untouched

\* The next start orphans what was running and what was live is unknown.
LEMMA RestartKeeps ==
  ASSUME TypeOK, RecordInv, Restart
  PROVE  RecordInv'
<1> SUFFICES ASSUME NEW r \in Run
             PROVE  OwnInv(r)'
  BY DEF RecordInv, OwnInv
<1>0. OwnInv(r)
  BY DEF RecordInv, OwnInv
<1>1. /\ UNCHANGED <<runPlan, request, resolved, checkpoint, evidence, sent,
                     frame>>
      /\ frame[r].pc = "idle"
      /\ \/ runStatus'[r] = runStatus[r]
         \/ runStatus[r] = "running" /\ runStatus'[r] = "orphaned"
      /\ \A s \in Step :
           \/ attempt'[r][s] = attempt[r][s]
           \/ /\ attempt[r][s] \in LiveRemote
              /\ attempt'[r][s] = "remote_state_unknown"
  BY <1>0 DEF Restart, history, OwnInv, StatusInv, TypeOK
<1>2. \A s \in Step : Untouched(r, s) => Untouched(r, s)'
  BY <1>1 DEF Untouched, LiveRemote
<1>3. ASSUME NEW s \in Step
      PROVE  StepInv(r, s)'
  <2>1. evidence[r][s] # "none" => evidence[r][s] \in Outcome
    BY DEF TypeOK
  <2>2. \A o \in Outcome : RemoteOf(o) \cap LiveRemote = {}
    BY DEF RemoteOf, Outcome, LiveRemote
  <2>3. /\ attempt'[r][s] = "none" <=> attempt[r][s] = "none"
        /\ attempt'[r][s] = "not_dispatched" => attempt[r][s] = "not_dispatched"
    BY <1>1 DEF LiveRemote
  <2> QED BY <1>0, <1>1, <2>1, <2>2, <2>3 DEF OwnInv, StepInv
<1>4. StatusInv(r)'
  BY <1>0, <1>1, <1>2 DEF OwnInv, StatusInv, Active, TerminalRun
<1>5. CurrentInv(r)' /\ PathInv(r)' /\ ResumeInv(r)'
  BY <1>0, <1>1
  DEF OwnInv, CurrentInv, PathInv, ResumeInv, Launched, Resumed
<1> QED BY <1>3, <1>4, <1>5 DEF OwnInv

\* Whatever happens at the desk.
LEMMA DeskKeeps ==
  ASSUME TypeOK, RecordInv, Desk
  PROVE  RecordInv'
<1>1. CASE \/ \E a \in Approval, p \in Plan, s \in Step :
                RequestApproval(a, p, s)
           \/ \E a \in Approval, decision \in {"granted", "denied"} :
                DecideApproval(a, decision)
           \/ \E a \in Approval : PreflightExpires(a)
  <2>1. UNCHANGED <<frame, up>> /\ \A q \in Run : SameRows(q)
    BY <1>1 DEF RequestApproval, DecideApproval, PreflightExpires, history,
                SameRows
  <2> QED BY <2>1, ElsewhereKeeps
<1> QED BY <1>1, StartRunKeeps, CancelKeeps, ResolveKeeps DEF Desk

\* Crashes, restarts and faults.
LEMMA WorldKeeps ==
  ASSUME TypeOK, RecordInv, Restart \/ World
  PROVE  RecordInv'
<1>1. CASE World /\ ~Crash
  <2>1. UNCHANGED <<tables, frame, up, history>>
    BY <1>1 DEF World, BeginBackup, EndBackup, StoreHeals, StoreBreaks,
                ApprovalLapses, DescriptorDrifts
  <2>2. \A q \in Run : SameRows(q)
    BY <2>1 DEF tables, history, SameRows
  <2> QED BY <2>1, <2>2, ElsewhereKeeps
<1> QED BY <1>1, CrashKeeps, RestartKeeps

\* Each step of the engine.
LEMMA EngineKeeps ==
  ASSUME TypeOK, PayInv, RecordInv, NEW r \in Run, EngineStep(r)
  PROVE  RecordInv'
<1> USE DEF tables, history
<1>1. CASE MarkApproved(r) \/ MarkRunning(r)
  BY <1>1, LaunchKeeps
<1>2. CASE LaunchThrows(r)
  BY <1>2, ReturnKeeps DEF LaunchThrows
<1>3. CASE \/ EnterFreeStep(r) \/ EnterApprovedStep(r) \/ StepRefused(r)
           \/ AttemptThrows(r) \/ NoCheckpointDue(r) \/ WriteThrows(r)
  <2>1. (\A q \in Run : SameRows(q)) /\ up' = up
    BY <1>3 DEF EnterFreeStep, EnterApprovedStep, StepRefused, AttemptThrows,
                NoCheckpointDue, WriteThrows, SameRows
  <2>2. Active(r)
    BY <1>3 DEF EnterFreeStep, EnterApprovedStep, StepRefused, AttemptThrows,
                NoCheckpointDue, WriteThrows, Active
  <2>3. \/ Goto(r, "fail")
        \/ /\ frame[r].pc = "step" /\ Goto(r, "attempt")
           /\ DependenciesDone(frame[r].cur)
        \/ frame[r].pc = "own" /\ Goto(r, "recovered")
        \/ frame[r].pc = "recovered" /\ Goto(r, "verdict")
    <3>1. CASE EnterApprovedStep(r)
      BY <3>1 DEF EnterApprovedStep, StepReady
    <3> QED BY <1>3, <3>1 DEF EnterFreeStep, StepRefused, AttemptThrows,
                NoCheckpointDue, WriteThrows, StepReady
  <2> QED BY <2>1, <2>2, <2>3, GotoKeeps
<1>4. CASE OpenAttempt(r) \/ MarkDispatching(r) \/ Dispatch(r)
  BY <1>4, OpenAttemptKeeps, MarkDispatchingKeeps, DispatchKeeps
<1>5. CASE FinishUnknown(r) \/ FailRun(r)
  <2>1. /\ Return(r)
        /\ UNCHANGED <<runPlan, attempt, request, resolved, checkpoint,
                       evidence, sent, up>>
        /\ \A q \in Run \ {r} : runStatus'[q] = runStatus[q]
        /\ \/ runStatus'[r] = runStatus[r]
           \/ runStatus'[r] \in TerminalRun /\ runStatus'[r] # "completed"
    BY <1>5 DEF FinishUnknown, FailRun, TypeOK, TerminalRun
  <2> QED BY <2>1, ReturnKeeps
<1>6. CASE RecordEvidence(r) \/ NextStep(r)
  BY <1>6, RecordEvidenceKeeps, NextStepKeeps
<1>7. CASE ConsumeOwnCheckpoint(r)
  <2>c. PICK s \in Step : s = frame[r].cur
    BY Moves
  <2> QED BY <1>7, <2>c, ConsumeKeeps DEF ConsumeOwnCheckpoint
<1>8. CASE ConsumeRecoveryCheckpoint(r)
  <2>c. PICK s \in Step : s = frame[r].cur
    BY Moves
  <2>1. PICK q \in Run : q = Recovery(r)
    BY <1>8, <2>c DEF ConsumeRecoveryCheckpoint, Recovery, TypeOK, Frame
  <2> QED BY <1>8, <2>c, <2>1, ConsumeKeeps DEF ConsumeRecoveryCheckpoint
<1>9. CASE FinishRun(r)
  <2>c. frame[r].cur \in Step /\ frame[r].outcome \in Outcome
    BY Moves
  <2>1. /\ Return(r)
        /\ UNCHANGED <<runPlan, attempt, request, resolved, checkpoint,
                       evidence, sent, up>>
        /\ \A q \in Run \ {r} : runStatus'[q] = runStatus[q]
        /\ runStatus'[r] = FinalStatus(r)
        /\ frame[r].pc = "verdict" /\ Continue(r) => frame[r].cur = NSteps
    BY <1>9 DEF FinishRun, TypeOK
  <2>2. FinalStatus(r) \in TerminalRun
    BY <2>c DEF FinalStatus, Outcome, TerminalRun
  <2>3. FinalStatus(r) = "completed" => Continue(r)
    BY <2>c DEF FinalStatus, Continue, Outcome
  <2>4. ASSUME FinalStatus(r) = "completed", NEW s \in Step
        PROVE  evidence[r][s] = "succeeded"
    <3>1. frame[r].pc = "verdict" /\ frame[r].cur = NSteps
      BY <1>9, <2>3, <2>4 DEF FinishRun
    <3>2. evidence[r][frame[r].cur] = "succeeded"
      BY <2>3, <2>4, <3>1 DEF RecordInv, CurrentInv, Continue
    <3>3. s < NSteps \/ s = NSteps
      BY ConstantsAssumption DEF Step
    <3> QED BY <3>1, <3>2, <3>3 DEF RecordInv, PathInv, Launched
  <2> QED BY <2>1, <2>2, <2>4, ReturnKeeps
<1> HIDE DEF tables, history
<1> QED BY <1>1, <1>2, <1>3, <1>4, <1>5, <1>6, <1>7, <1>8, <1>9 DEF EngineStep

\* Initially nothing is recorded, and every step keeps what is in order.
LEMMA RecordInductive ==
  /\ Init => RecordInv
  /\ TypeOK /\ PayInv /\ RecordInv /\ [Next]_vars => RecordInv'
<1>1. Init => RecordInv
  BY ConstantsAssumption
  DEF Init, RecordInv, StepInv, StatusInv, CurrentInv, PathInv, ResumeInv,
      Untouched, Active, Launched, Resumed, NoFrame, TerminalRun, Step
<1>2. ASSUME TypeOK, PayInv, RecordInv, [Next]_vars
      PROVE  RecordInv'
  <2>1. CASE UNCHANGED vars
    <3>1. UNCHANGED <<frame, up>> /\ \A q \in Run : SameRows(q)
      BY <2>1 DEF vars, tables, history, SameRows
    <3> QED BY <1>2, <3>1, ElsewhereKeeps
  <2>2. CASE Next
    BY <1>2, <2>2, EngineKeeps, AnswerKeeps, EmitCheckpointKeeps, DeskKeeps,
       WorldKeeps DEF Next
  <2> QED BY <1>2, <2>1, <2>2
<1> QED BY <1>1, <1>2

\* The inductive invariant behind the theorems about records.
THEOREM RecordsInOrder == Spec => []RecordInv
BY RecordInductive, TypesHold, PaymentsInOrder, PTL DEF Spec

-----------------------------------------------------------------------------
(* What the records are good for                                           *)

\* A provider call is on record, with its request, before it is made.
THEOREM CallsAreOnRecord == Spec => []CallsOnRecord
<1>1. RecordInv => CallsOnRecord
  BY ConstantsAssumption DEF RecordInv, StepInv, CallsOnRecord
<1> QED BY <1>1, RecordsInOrder, PTL

\* A step is dispatched after evidence of success of all it depends on.
THEOREM DependenciesComeFirst == Spec => []DependenciesFirst
<1>1. RecordInv => DependenciesFirst
  BY DEF RecordInv, StepInv, DependenciesFirst
<1> QED BY <1>1, RecordsInOrder, PTL

\* A completed run has done all of its plan, and its providers say so too.
THEOREM CompletedIsDone == Spec => []CompletedMeansEvidence
<1>1. RecordInv => CompletedMeansEvidence
  <2> SUFFICES ASSUME RecordInv, NEW r \in Run, runStatus[r] = "completed",
                      NEW s \in Step
               PROVE  /\ evidence[r][s] = "succeeded"
                      /\ sent[r][s] # None
                      /\ s \in ProviderStep => attempt[r][s] = "succeeded"
    BY DEF CompletedMeansEvidence, Accepted
  <2>1. evidence[r][s] = "succeeded"
    BY DEF RecordInv, StatusInv
  <2>2. RemoteOf("succeeded") = {"succeeded"}
    BY DEF RemoteOf
  <2> QED BY <2>1, <2>2 DEF RecordInv, StepInv
<1> QED BY <1>1, RecordsInOrder, PTL

\* Evidence says what the attempt says, and no person has decided it.
THEOREM EvidenceIsTheAttempts == Spec => []EvidenceMatchesAttempt
<1>1. RecordInv => EvidenceMatchesAttempt
  BY ConstantsAssumption DEF RecordInv, StepInv, EvidenceMatchesAttempt
<1> QED BY <1>1, RecordsInOrder, PTL

-----------------------------------------------------------------------------
(* History stays                                                           *)

\* The step HistoryIsFinal allows.
FinalStep ==
  \A r \in Run :
    /\ runStatus[r] \in TerminalRun =>
         runStatus'[r] = runStatus[r] /\ sent'[r] = sent[r]
           /\ evidence'[r] = evidence[r]
    /\ \A s \in Step :
         /\ evidence[r][s] # "none" => evidence'[r][s] = evidence[r][s]
         /\ sent[r][s] # None => sent'[r][s] = sent[r][s]
         /\ attempt[r][s] \in SettledRemote => attempt'[r][s] = attempt[r][s]
         /\ attempt[r][s] = "remote_state_unknown"
              /\ attempt'[r][s] # attempt[r][s] => resolved'[r][s]

\* No status follows a terminal one.
LEMMA TerminalIsLast ==
  ASSUME NEW st \in TerminalRun
  PROVE  RunSuccessors(st) = {}
BY DEF TerminalRun, RunSuccessors

\* Statuses move on, and rows of one attempt of a running run.
LEMMA RowsMove ==
  ASSUME TypeOK, UNCHANGED <<runPlan, request, evidence, sent>>,
         \A q \in Run : runStatus[q] \in TerminalRun =>
           runStatus'[q] = runStatus[q],
         \A q \in Run : \A s \in Step : attempt'[q][s] # attempt[q][s] =>
           \/ attempt[q][s] \notin SettledRemote \cup {"remote_state_unknown"}
           \/ attempt[q][s] = "remote_state_unknown" /\ resolved'[q][s]
  PROVE  FinalStep /\ RequestsStay
BY DEF FinalStep, RequestsStay, SettledRemote

\* What the engine does for a run leaves history alone.
LEMMA EngineIsFinal ==
  ASSUME TypeOK, PayInv, RecordInv, NEW r \in Run, EngineStep(r)
  PROVE  FinalStep /\ RequestsStay
<1> USE DEF tables, history
<1>c. PICK s \in Step : s = frame[r].cur
  BY Moves
<1>0. OwnInv(r)
  BY DEF RecordInv, OwnInv
<1>1. CASE OpenAttempt(r)
  <2>1. /\ UNCHANGED <<runStatus, runPlan, evidence, sent>>
        /\ Untouched(r, s)
    BY <1>c, <1>0, <1>1 DEF OpenAttempt, OwnInv, CurrentInv
  <2>2. /\ \A q \in Run \ {r} :
             attempt'[q] = attempt[q] /\ request'[q] = request[q]
        /\ \A t \in Step \ {s} :
             attempt'[r][t] = attempt[r][t] /\ request'[r][t] = request[r][t]
    BY <1>c, <1>1 DEF OpenAttempt, TypeOK
  <2> QED BY <2>1, <2>2
          DEF FinalStep, RequestsStay, Untouched, SettledRemote
<1>2. CASE MarkDispatching(r)
  <2>1. UNCHANGED <<runStatus, runPlan, request, evidence, sent>>
        /\ attempt[r][s] = "not_dispatched"
    BY <1>c, <1>0, <1>2 DEF MarkDispatching, OwnInv, CurrentInv
  <2>2. /\ \A q \in Run \ {r} : attempt'[q] = attempt[q]
        /\ \A t \in Step \ {s} : attempt'[r][t] = attempt[r][t]
    BY <1>c, <1>2 DEF MarkDispatching, TypeOK
  <2> QED BY <2>1, <2>2, RowsMove DEF SettledRemote
<1>3. CASE Dispatch(r)
  <2>1. /\ UNCHANGED <<runStatus, runPlan, request, evidence, attempt>>
        /\ frame[r].pc \in {"attempt", "dispatching"}
        /\ \A q \in Run \ {r} : sent'[q] = sent[q]
        /\ \A t \in Step \ {s} : sent'[r][t] = sent[r][t]
    BY <1>c, <1>3 DEF Dispatch, TypeOK
  <2>2. runStatus[r] = "running" /\ sent[r][s] = None
    BY <1>c, <1>0, <2>1
    DEF OwnInv, StatusInv, CurrentInv, Active, Untouched
  <2> QED BY <2>1, <2>2 DEF FinalStep, RequestsStay, TerminalRun
<1>4. CASE RecordEvidence(r)
  <2>1. /\ UNCHANGED <<runStatus, runPlan, request, sent, attempt>>
        /\ frame[r].pc = "evidence"
        /\ \A q \in Run \ {r} : evidence'[q] = evidence[q]
        /\ \A t \in Step \ {s} : evidence'[r][t] = evidence[r][t]
    BY <1>c, <1>4 DEF RecordEvidence, TypeOK
  <2>2. runStatus[r] = "running" /\ evidence[r][s] = "none"
    BY <1>c, <1>0, <2>1 DEF OwnInv, StatusInv, CurrentInv, Active
  <2> QED BY <2>1, <2>2 DEF FinalStep, RequestsStay, TerminalRun
<1>5. CASE \/ MarkApproved(r) \/ MarkRunning(r) \/ FinishUnknown(r)
           \/ FinishRun(r) \/ FailRun(r)
  <2>1. /\ UNCHANGED <<runPlan, request, evidence, sent, attempt>>
        /\ \/ runStatus' = runStatus
           \/ \E st : /\ st \in RunSuccessors(runStatus[r])
                      /\ runStatus' = [runStatus EXCEPT ![r] = st]
    BY <1>5 DEF MarkApproved, MarkRunning, FinishUnknown, FinishRun, FailRun
  <2>2. \A q \in Run : runStatus[q] \in TerminalRun =>
          runStatus'[q] = runStatus[q]
    BY <2>1, TerminalIsLast DEF TypeOK
  <2> QED BY <2>1, <2>2, RowsMove
<1>6. CASE \/ LaunchThrows(r) \/ EnterFreeStep(r) \/ EnterApprovedStep(r)
           \/ StepRefused(r) \/ AttemptThrows(r) \/ NoCheckpointDue(r)
           \/ ConsumeOwnCheckpoint(r) \/ ConsumeRecoveryCheckpoint(r)
           \/ NextStep(r) \/ WriteThrows(r)
  <2>1. UNCHANGED <<runStatus, runPlan, request, evidence, sent, attempt>>
    BY <1>6 DEF LaunchThrows, EnterFreeStep, EnterApprovedStep, StepRefused,
      AttemptThrows, NoCheckpointDue, ConsumeOwnCheckpoint,
      ConsumeRecoveryCheckpoint, NextStep, WriteThrows
  <2> QED BY <2>1, RowsMove
<1> HIDE DEF tables, history
<1> QED BY <1>1, <1>2, <1>3, <1>4, <1>5, <1>6 DEF EngineStep

\* So do answers, streamed checkpoints and cancellations.
LEMMA AwaitIsFinal ==
  ASSUME TypeOK, RecordInv, NEW r \in Run,
         Answer(r) \/ EmitCheckpoint(r) \/ Cancel(r)
  PROVE  FinalStep /\ RequestsStay
<1> USE DEF tables, history
<1>c. PICK s \in Step : s = frame[r].cur
  BY Moves
<1>0. /\ UNCHANGED <<runStatus, runPlan, request, evidence, sent>>
      /\ frame[r].pc = "await"
      /\ \/ attempt' = attempt
         \/ s \in ProviderStep /\ \E st : attempt' = [attempt EXCEPT ![r][s] = st]
  BY <1>c DEF Answer, LocalAnswer, LocalThrows, ProviderAnswer,
    ProviderUnknown, ProviderAnswerRefused, EmitCheckpoint, Cancel
<1>1. s \in ProviderStep =>
        attempt[r][s] \notin SettledRemote \cup {"remote_state_unknown"}
  BY <1>c, <1>0 DEF RecordInv, CurrentInv, SettledRemote
<1>2. \A q \in Run : \A t \in Step :
        attempt'[q][t] # attempt[q][t] => s \in ProviderStep /\ q = r /\ t = s
  BY <1>0 DEF TypeOK
<1> QED BY <1>0, <1>1, <1>2, RowsMove

\* So does everything at the desk, a person's resolution included.
LEMMA DeskIsFinal ==
  ASSUME TypeOK, RecordInv, Desk
  PROVE  FinalStep /\ RequestsStay
<1> USE DEF tables, history
<1>1. CASE \/ \E a \in Approval, p \in Plan, s \in Step :
                RequestApproval(a, p, s)
           \/ \E a \in Approval, decision \in {"granted", "denied"} :
                DecideApproval(a, decision)
           \/ \E a \in Approval : PreflightExpires(a)
  <2>1. UNCHANGED <<runStatus, runPlan, request, evidence, sent, attempt>>
    BY <1>1 DEF RequestApproval, DecideApproval, PreflightExpires
  <2> QED BY <2>1, RowsMove
<1>2. ASSUME NEW r \in Run, NEW p \in Plan, StartRun(r, p)
      PROVE  FinalStep /\ RequestsStay
  <2>1. /\ UNCHANGED <<request, evidence, sent, attempt>>
        /\ runStatus[r] = "none"
        /\ \A q \in Run \ {r} :
             runStatus'[q] = runStatus[q] /\ runPlan'[q] = runPlan[q]
    BY <1>2 DEF StartRun
  <2>2. \A s \in Step : request[r][s] = None
    BY <2>1 DEF RecordInv, StatusInv, TerminalRun, Untouched
  <2> QED BY <2>1, <2>2
          DEF FinalStep, RequestsStay, TerminalRun, SettledRemote
<1>3. ASSUME NEW r \in Run, NEW s \in Step, NEW resolution \in SettledRemote,
             ResolveUnknown(r, s, resolution)
      PROVE  FinalStep /\ RequestsStay
  <2>1. /\ UNCHANGED <<runStatus, runPlan, request, evidence, sent>>
        /\ attempt[r][s] = "remote_state_unknown" /\ resolved'[r][s]
        /\ \A q \in Run : \A t \in Step :
             attempt'[q][t] # attempt[q][t] => q = r /\ t = s
    BY <1>3 DEF ResolveUnknown, TypeOK
  <2> QED BY <2>1, RowsMove
<1> HIDE DEF tables, history
<1> QED BY <1>1, <1>2, <1>3, AwaitIsFinal DEF Desk

\* So do crashes, restarts and faults.
LEMMA WorldIsFinal ==
  ASSUME TypeOK, Restart \/ World
  PROVE  FinalStep /\ RequestsStay
<1> USE DEF tables, history
<1>1. CASE Restart
  <2>1. /\ UNCHANGED <<runPlan, request, evidence, sent>>
        /\ \A q \in Run : runStatus[q] \in TerminalRun =>
             runStatus'[q] = runStatus[q]
        /\ \A q \in Run : \A s \in Step :
             attempt'[q][s] # attempt[q][s] => attempt[q][s] \in LiveRemote
    BY <1>1 DEF Restart, TypeOK, TerminalRun
  <2> QED BY <2>1, RowsMove DEF LiveRemote, SettledRemote
<1>2. CASE World
  <2>1. UNCHANGED <<runStatus, runPlan, request, evidence, sent, attempt>>
    BY <1>2 DEF World, Crash, BeginBackup, EndBackup, StoreHeals, StoreBreaks,
                ApprovalLapses, DescriptorDrifts
  <2> QED BY <2>1, RowsMove
<1> QED BY <1>1, <1>2

\* No step rewrites history, nor the request of an attempt.
LEMMA StepIsFinal ==
  ASSUME TypeOK, PayInv, RecordInv, [Next]_vars
  PROVE  FinalStep /\ RequestsStay
<1>1. CASE UNCHANGED vars
  BY <1>1, RowsMove DEF vars, tables, history
<1> QED BY <1>1, EngineIsFinal, AwaitIsFinal, DeskIsFinal, WorldIsFinal DEF Next

\* What is in the store's history stays there.
THEOREM HistoryStays == Spec => HistoryIsFinal
<1>1. TypeOK /\ PayInv /\ RecordInv /\ [Next]_vars => [FinalStep]_vars
  BY StepIsFinal
<1> QED BY <1>1, TypesHold, PaymentsInOrder, RecordsInOrder, PTL
        DEF Spec, HistoryIsFinal, FinalStep

-----------------------------------------------------------------------------
(* Checkpoints                                                             *)

\* A checkpoint is consumed once the operation it belongs to has settled.
THEOREM CheckpointsOutlive == Spec => []CheckpointsOutliveDoubt
<1>1. Init => CheckpointsOutliveDoubt
  BY DEF Init, CheckpointsOutliveDoubt
<1>2. TypeOK /\ PayInv /\ RecordInv /\ CheckpointsOutliveDoubt /\ [Next]_vars
        => CheckpointsOutliveDoubt'
  <2> SUFFICES ASSUME TypeOK, PayInv, RecordInv, CheckpointsOutliveDoubt,
                      [Next]_vars, NEW r \in Run, NEW s \in Step,
                      checkpoint'[r][s] = "consumed"
               PROVE  \/ evidence'[r][s] = "succeeded"
                      \/ \E q \in Run \ {r} :
                           /\ runPlan'[q] = runPlan'[r]
                           /\ request'[q][s] = request'[r][s]
                           /\ evidence'[q][s] # "none"
    BY DEF CheckpointsOutliveDoubt
  <2>1. FinalStep /\ RequestsStay
    BY StepIsFinal
  <2>2. ASSUME checkpoint[r][s] # "none",
               \/ evidence[r][s] = "succeeded"
               \/ \E q \in Run \ {r} :
                    /\ runPlan[q] = runPlan[r] /\ request[q][s] = request[r][s]
                    /\ evidence[q][s] # "none"
        PROVE  \/ evidence'[r][s] = "succeeded"
               \/ \E q \in Run \ {r} :
                    /\ runPlan'[q] = runPlan'[r]
                    /\ request'[q][s] = request'[r][s]
                    /\ evidence'[q][s] # "none"
    <3>1. request[r][s] # None
      BY <2>2 DEF RecordInv, StepInv
    <3> QED BY <2>1, <2>2, <3>1 DEF FinalStep, RequestsStay
  <2>3. CASE checkpoint[r][s] = "consumed"
    BY <2>2, <2>3 DEF CheckpointsOutliveDoubt
  <2>4. ASSUME NEW x \in Run, ConsumeOwnCheckpoint(x), checkpoint' # checkpoint,
               checkpoint[r][s] # "consumed"
        PROVE  checkpoint[r][s] # "none" /\ evidence[r][s] = "succeeded"
    <3>1. x = r /\ s = frame[r].cur /\ checkpoint[r][s] = "active"
      BY <2>4 DEF ConsumeOwnCheckpoint, TypeOK
    <3>2. frame[r].pc = "own" /\ frame[r].outcome = "succeeded"
      BY <2>4, <3>1 DEF ConsumeOwnCheckpoint, OwnCheckpointDue
    <3> QED BY <3>1, <3>2 DEF RecordInv, CurrentInv
  <2>5. ASSUME NEW x \in Run, ConsumeRecoveryCheckpoint(x),
               checkpoint[r][s] # "consumed"
        PROVE  /\ checkpoint[r][s] # "none" /\ x \in Run \ {r}
               /\ runPlan[x] = runPlan[r] /\ request[x][s] = request[r][s]
               /\ evidence[x][s] # "none"
    <3>1. /\ r = Recovery(x) /\ s = frame[x].cur /\ checkpoint[r][s] = "active"
          /\ frame[x].pc = "recovered" /\ Recovery(x) # None
      BY <2>5 DEF ConsumeRecoveryCheckpoint, TypeOK
    <3>2. /\ r \in Run \ {x} /\ runPlan[r] = runPlan[x]
          /\ request[r][s] = request[x][s]
      BY <3>1 DEF RecordInv, ResumeInv, Resumed
    <3>3. evidence[x][s] = frame[x].outcome /\ frame[x].outcome \in Outcome
      BY <3>1, Moves DEF RecordInv, CurrentInv
    <3> QED BY <3>1, <3>2, <3>3 DEF Outcome
  <2>6. ASSUME NEW x \in Run, EngineStep(x), ~ConsumeOwnCheckpoint(x),
               ~ConsumeRecoveryCheckpoint(x)
        PROVE  checkpoint' = checkpoint
    BY <2>6 DEF EngineStep, MarkApproved, MarkRunning, LaunchThrows,
      EnterFreeStep, EnterApprovedStep, StepRefused, OpenAttempt,
      MarkDispatching, AttemptThrows, Dispatch, FinishUnknown, RecordEvidence,
      NoCheckpointDue, NextStep, FinishRun, WriteThrows, FailRun, tables
  <2>7. ASSUME NEW x \in Run, Answer(x) \/ EmitCheckpoint(x),
               checkpoint[r][s] # "consumed"
        PROVE  checkpoint'[r][s] # "consumed"
    <3>1. CASE Answer(x)
      BY <2>7, <3>1 DEF Answer, LocalAnswer, LocalThrows, ProviderAnswer,
        ProviderUnknown, ProviderAnswerRefused, tables
    <3>2. CASE EmitCheckpoint(x)
      BY <2>7, <3>2 DEF EmitCheckpoint, TypeOK
    <3> QED BY <2>7, <3>1, <3>2
  <2>8. CASE Desk
    BY <2>3, <2>8 DEF Desk, RequestApproval, DecideApproval, PreflightExpires,
      StartRun, Cancel, ResolveUnknown
  <2>9. CASE Restart \/ World
    BY <2>3, <2>9 DEF Restart, World, Crash, BeginBackup, EndBackup, StoreHeals,
      StoreBreaks, ApprovalLapses, DescriptorDrifts, tables
  <2>10. CASE UNCHANGED vars
    BY <2>3, <2>10 DEF vars, tables
  <2>11. ASSUME NEW x \in Run, EngineStep(x), checkpoint[r][s] # "consumed"
         PROVE  \/ evidence'[r][s] = "succeeded"
                \/ \E q \in Run \ {r} :
                     /\ runPlan'[q] = runPlan'[r]
                     /\ request'[q][s] = request'[r][s]
                     /\ evidence'[q][s] # "none"
    <3>1. CASE ConsumeOwnCheckpoint(x)
      <4>1. checkpoint' # checkpoint
        BY <2>11
      <4> QED BY <2>2, <2>4, <2>11, <3>1, <4>1
    <3>2. CASE ConsumeRecoveryCheckpoint(x)
      BY <2>2, <2>5, <2>11, <3>2
    <3> QED BY <2>6, <2>11, <3>1, <3>2
  <2> QED BY <2>3, <2>7, <2>8, <2>9, <2>10, <2>11 DEF Next
<1> QED BY <1>1, <1>2, TypesHold, PaymentsInOrder, RecordsInOrder, PTL DEF Spec

-----------------------------------------------------------------------------
(* Nothing live is left behind, when the store never fails                 *)

\* What LiveRun speaks of is left alone.
SameLive(q) ==
  /\ runStatus'[q] = runStatus[q] /\ attempt'[q] = attempt[q]
  /\ resolved'[q] = resolved[q] /\ frame'[q] = frame[q] /\ up' = up

LEMMA SameLiveKeeps ==
  ASSUME NEW q \in Run, LiveRun(q), SameLive(q)
  PROVE  LiveRun(q)'
BY DEF LiveRun, SameLive, Active

\* A run goes on: nothing unknown turns up, unless it now says so itself.
LEMMA GoesOnLive ==
  ASSUME TypeOK, RecordInv, NEW r \in Run, LiveRun(r), Active(r),
         frame[r].pc # "unknown",
         frame'[r].pc \notin {"idle", "created", "approved", "fail"},
         runStatus'[r] = runStatus[r], resolved'[r] = resolved[r], up' = up,
         \/ frame'[r].pc = "unknown"
         \/ \A s \in Step : \/ attempt'[r][s] = attempt[r][s]
                            \/ attempt'[r][s] # "remote_state_unknown"
  PROVE  LiveRun(r)'
<1>1. runStatus[r] = "running" /\ up
  BY DEF RecordInv, StatusInv, Active
<1>2. \A s \in Step :
        attempt[r][s] # "remote_state_unknown" /\ ~resolved[r][s]
  BY <1>1 DEF LiveRun
<1> QED BY <1>1, <1>2 DEF LiveRun, Active

\* Nothing was recorded of the run.
LEMMA FreshLive ==
  ASSUME NEW r \in Run, \A s \in Step : Untouched(r, s)',
         (runStatus[r] = "running" => Active(r))',
         frame'[r].pc # "fail"
  PROVE  LiveRun(r)'
BY DEF LiveRun, Untouched, LiveRemote

\* The run goes to the outer catch with its attempt settled, unmade, or
\* refused after a cancellation.
LEMMA FailLive ==
  ASSUME TypeOK, RecordInv, NEW r \in Run, LiveRun(r), Goto(r, "fail"),
         Active(r), frame[r].pc # "unknown",
         UNCHANGED <<runStatus, attempt, resolved, up>>,
         attempt[r][frame[r].cur] \in
           {"none", "cancel_requested"} \cup SettledRemote
  PROVE  LiveRun(r)' /\ \A q \in Run \ {r} : SameLive(q)
<1>1. /\ frame'[r].pc = "fail" /\ frame'[r].cur = frame[r].cur
      /\ frame[r].cur \in Step
      /\ \A q \in Run \ {r} : frame'[q] = frame[q]
  BY Moves
<1>2. runStatus[r] = "running" /\ up
  BY DEF RecordInv, StatusInv, Active
<1>3. \A s \in Step :
        attempt[r][s] # "remote_state_unknown" /\ ~resolved[r][s]
  BY <1>2 DEF LiveRun
<1>4. LiveRun(r)'
  BY <1>1, <1>2, <1>3 DEF LiveRun, Active
<1> QED BY <1>1, <1>4 DEF SameLive

\* The run ends: its other steps are settled or unmade.
LEMMA EndLive ==
  ASSUME TypeOK, RecordInv, NEW r \in Run, LiveRun(r), Return(r), Active(r),
         UNCHANGED <<attempt, resolved, up>>,
         \A q \in Run \ {r} : runStatus'[q] = runStatus[q],
         runStatus'[r] \in TerminalRun,
         attempt[r][frame[r].cur] \in LiveRemote =>
           /\ attempt[r][frame[r].cur] = "cancel_requested"
           /\ runStatus'[r] = "cancelled",
         frame[r].pc = "unknown" => runStatus'[r] = "orphaned"
  PROVE  LiveRun(r)' /\ \A q \in Run \ {r} : SameLive(q)
<1>0. /\ frame[r].cur \in Step /\ Step \subseteq Nat
      /\ frame'[r].pc = "idle" /\ \A q \in Run \ {r} : frame'[q] = frame[q]
  BY Moves
<1>1. OwnInv(r) /\ runStatus[r] = "running" /\ up
  BY DEF RecordInv, OwnInv, StatusInv, Active
<1>2. ASSUME NEW s \in Step, s # frame[r].cur
      PROVE  attempt[r][s] \notin LiveRemote
  <2>1. CASE s < frame[r].cur
    <3>1. evidence[r][s] = "succeeded"
      BY <1>1, <2>1 DEF OwnInv, PathInv, Launched, Active
    <3>2. attempt[r][s] = "none" \/ attempt[r][s] = "succeeded"
      BY <1>1, <3>1 DEF OwnInv, StepInv, RemoteOf
    <3> QED BY <3>2 DEF LiveRemote
  <2>2. CASE s > frame[r].cur
    BY <1>1, <2>2 DEF OwnInv, PathInv, Launched, Active, Untouched, LiveRemote
  <2>3. s \in Nat /\ frame[r].cur \in Nat
    BY <1>0
  <2> QED BY <1>2, <2>1, <2>2, <2>3
<1>3. frame[r].pc # "unknown" =>
        \A s \in Step : attempt[r][s] # "remote_state_unknown" /\ ~resolved[r][s]
  BY <1>1 DEF LiveRun
<1>4. LiveRun(r)'
  BY <1>0, <1>1, <1>2, <1>3 DEF LiveRun, TerminalRun
<1> QED BY <1>0, <1>4 DEF SameLive

\* The engine, while the store writes.
LEMMA EngineLive ==
  ASSUME TypeOK, PayInv, RecordInv, store = "ok", \A q \in Run : LiveRun(q),
         NEW r \in Run, EngineStep(r)
  PROVE  store' = "ok" /\ \A q \in Run : LiveRun(q)'
<1> USE DEF tables, world, history
<1>c. PICK s \in Step : s = frame[r].cur
  BY Moves
<1>0. /\ OwnInv(r) /\ LiveRun(r) /\ Writable /\ frame[r].outcome \in Outcome
      /\ Step \subseteq Nat
  BY Moves DEF RecordInv, OwnInv, Writable
<1>s. store' = "ok"
  BY DEF EngineStep, MarkApproved, MarkRunning, LaunchThrows,
    EnterFreeStep, EnterApprovedStep, StepRefused, OpenAttempt,
    MarkDispatching, AttemptThrows, Dispatch, FinishUnknown, RecordEvidence,
    ConsumeOwnCheckpoint, ConsumeRecoveryCheckpoint, NoCheckpointDue, NextStep,
    FinishRun, WriteThrows, FailRun
<1>a. ASSUME LiveRun(r)', \A q \in Run \ {r} : SameLive(q)
      PROVE  \A q \in Run : LiveRun(q)'
  BY <1>a, SameLiveKeeps
<1>1. CASE MarkApproved(r) \/ MarkRunning(r)
  <2>1. /\ UNCHANGED <<attempt, resolved, up>>
        /\ \A q \in Run \ {r} : runStatus'[q] = runStatus[q]
        /\ frame[r].pc \in {"created", "approved"}
        /\ \/ runStatus'[r] = "approved" /\ Goto(r, "approved")
           \/ runStatus'[r] = "running" /\ Goto(r, "step")
    BY <1>1 DEF MarkApproved, MarkRunning, TypeOK
  <2>2. /\ frame'[r].pc \in {"approved", "step"}
        /\ runStatus'[r] = "running" => frame'[r].pc = "step"
        /\ \A q \in Run \ {r} : frame'[q] = frame[q]
    <3>1. CASE Goto(r, "approved") /\ runStatus'[r] = "approved"
      BY <3>1, Moves
    <3>2. CASE Goto(r, "step") /\ runStatus'[r] = "running"
      BY <3>2, Moves
    <3> QED BY <2>1, <3>1, <3>2
  <2>3. \A t \in Step : Untouched(r, t)
    BY <1>0, <2>1 DEF OwnInv, StatusInv, TerminalRun
  <2>4. \A t \in Step : Untouched(r, t)'
    BY <1>1, <2>3 DEF MarkApproved, MarkRunning, Untouched
  <2>5. LiveRun(r)'
    BY <2>2, <2>4, FreshLive DEF Active
  <2> QED BY <1>s, <1>a, <2>1, <2>2, <2>5 DEF SameLive
<1>2. CASE \/ EnterFreeStep(r) \/ OpenAttempt(r) \/ MarkDispatching(r)
           \/ Dispatch(r) \/ RecordEvidence(r) \/ ConsumeOwnCheckpoint(r)
           \/ ConsumeRecoveryCheckpoint(r) \/ NoCheckpointDue(r)
           \/ EnterApprovedStep(r) /\ Goto(r, "attempt")
  <2>1. /\ UNCHANGED <<runStatus, resolved, up>>
        /\ \/ attempt' = attempt
           \/ attempt' = [attempt EXCEPT ![r][s] = "not_dispatched"]
           \/ attempt' = [attempt EXCEPT ![r][s] = "dispatching"]
        /\ Active(r) /\ frame[r].pc # "unknown"
    BY <1>c, <1>2 DEF EnterFreeStep, OpenAttempt, MarkDispatching, Dispatch,
      RecordEvidence, ConsumeOwnCheckpoint, ConsumeRecoveryCheckpoint,
      NoCheckpointDue, EnterApprovedStep, Active
  <2>2. /\ \A q \in Run \ {r} : attempt'[q] = attempt[q]
        /\ \A t \in Step : \/ attempt'[r][t] = attempt[r][t]
                           \/ attempt'[r][t] # "remote_state_unknown"
    BY <1>c, <2>1 DEF TypeOK
  <2>3. \E label \in {"attempt", "opened", "dispatching", "await", "own",
                      "recovered", "verdict"} : Goto(r, label)
    BY <1>2 DEF EnterFreeStep, OpenAttempt, MarkDispatching, Dispatch,
      RecordEvidence, ConsumeOwnCheckpoint, ConsumeRecoveryCheckpoint,
      NoCheckpointDue
  <2>4. /\ frame'[r].pc \notin {"idle", "created", "approved", "fail"}
        /\ \A q \in Run \ {r} : frame'[q] = frame[q]
    <3>1. PICK label \in {"attempt", "opened", "dispatching", "await", "own",
                          "recovered", "verdict"} : Goto(r, label)
      BY <2>3
    <3> QED BY <3>1, Moves
  <2>5. LiveRun(r)'
    BY <1>0, <2>1, <2>2, <2>4, GoesOnLive
  <2> QED BY <1>s, <1>a, <2>1, <2>2, <2>4, <2>5 DEF SameLive
<1>3. CASE NextStep(r)
  <2>1. /\ UNCHANGED <<runStatus, attempt, resolved, up>>
        /\ Active(r) /\ frame[r].pc = "verdict" /\ frame'[r].pc = "step"
        /\ \A q \in Run \ {r} : frame'[q] = frame[q]
    BY <1>3 DEF NextStep, Active, TypeOK, Frame
  <2>2. LiveRun(r)'
    BY <1>0, <2>1, GoesOnLive
  <2> QED BY <1>s, <1>a, <2>1, <2>2 DEF SameLive
<1>4. CASE \/ StepRefused(r) \/ AttemptThrows(r) \/ WriteThrows(r)
           \/ EnterApprovedStep(r) /\ Goto(r, "fail")
  <2>1. /\ UNCHANGED <<runStatus, attempt, resolved, up>> /\ Active(r)
        /\ Goto(r, "fail") /\ frame[r].pc \in {"step", "attempt", "own", "recovered"}
    BY <1>0, <1>4
    DEF StepRefused, AttemptThrows, WriteThrows, EnterApprovedStep, Active
  <2>2. attempt[r][s] \in {"none"} \cup SettledRemote
    <3>1. CASE frame[r].pc \in {"step", "attempt"}
      BY <1>c, <1>0, <3>1 DEF OwnInv, CurrentInv, Untouched
    <3>2. CASE frame[r].pc \in {"own", "recovered"}
      <4>1. evidence[r][s] \in Outcome
        BY <1>c, <1>0, <3>2 DEF OwnInv, CurrentInv
      <4>2. \A o \in Outcome : o # "none" /\ RemoteOf(o) \subseteq SettledRemote
        BY DEF Outcome, RemoteOf, SettledRemote
      <4>3. s \notin ProviderStep => attempt[r][s] = "none"
        BY <1>0 DEF OwnInv, StepInv
      <4> QED BY <1>0, <4>1, <4>2, <4>3 DEF OwnInv, StepInv
    <3> QED BY <2>1, <3>1, <3>2
  <2> QED BY <1>s, <1>a, <1>c, <1>0, <2>1, <2>2, FailLive
<1>5. CASE FinishUnknown(r)
  <2>1. /\ Return(r) /\ Active(r) /\ UNCHANGED <<attempt, resolved, up>>
        /\ \A q \in Run \ {r} : runStatus'[q] = runStatus[q]
        /\ runStatus'[r] = "orphaned" /\ frame[r].pc = "unknown"
    BY <1>5 DEF FinishUnknown, Active, TypeOK
  <2>2. attempt[r][s] \notin LiveRemote
    BY <1>c, <1>0, <2>1 DEF OwnInv, CurrentInv, LiveRemote
  <2> QED BY <1>s, <1>a, <1>c, <1>0, <2>1, <2>2, EndLive DEF TerminalRun
<1>6. CASE FinishRun(r)
  <2>1. /\ Return(r) /\ Active(r) /\ UNCHANGED <<attempt, resolved, up>>
        /\ \A q \in Run \ {r} : runStatus'[q] = runStatus[q]
        /\ runStatus'[r] = FinalStatus(r) /\ frame[r].pc = "verdict"
    BY <1>6 DEF FinishRun, Active, TypeOK
  <2>2. FinalStatus(r) \in TerminalRun
    BY <1>0 DEF FinalStatus, Outcome, TerminalRun
  <2>3. attempt[r][s] \notin LiveRemote
    <3>1. evidence[r][s] \in Outcome
      BY <1>c, <1>0, <2>1 DEF OwnInv, CurrentInv
    <3>2. \A o \in Outcome : o # "none" /\ RemoteOf(o) \cap LiveRemote = {}
      BY DEF Outcome, RemoteOf, LiveRemote
    <3>3. s \notin ProviderStep => attempt[r][s] = "none"
      BY <1>0 DEF OwnInv, StepInv
    <3> QED BY <1>0, <3>1, <3>2, <3>3 DEF OwnInv, StepInv, LiveRemote
  <2> QED BY <1>s, <1>a, <1>c, <1>0, <2>1, <2>2, <2>3, EndLive
<1>7. CASE FailRun(r)
  <2> DEFINE status == IF frame[r].aborted THEN "cancelled" ELSE "failed"
  <2>1. /\ Return(r) /\ Active(r) /\ UNCHANGED <<attempt, resolved, up>>
        /\ frame[r].pc = "fail"
    BY <1>7 DEF FailRun, Active
  <2>2. runStatus[r] = "running" /\ status \in RunSuccessors(runStatus[r])
    BY <1>0, <2>1 DEF OwnInv, StatusInv, RunSuccessors, TerminalRun
  <2>3. /\ runStatus'[r] = status
        /\ \A q \in Run \ {r} : runStatus'[q] = runStatus[q]
    BY <1>0, <1>7, <2>2 DEF FailRun, TypeOK
  <2>4. attempt[r][s] \in LiveRemote =>
          attempt[r][s] = "cancel_requested" /\ frame[r].aborted
    BY <1>c, <1>0, <2>1
    DEF OwnInv, CurrentInv, LiveRun, LiveRemote, SettledRemote
  <2> QED BY <1>s, <1>a, <1>c, <1>0, <2>1, <2>3, <2>4, EndLive DEF TerminalRun
<1>8. ~LaunchThrows(r)
  BY <1>0 DEF LaunchThrows
<1>9. EnterApprovedStep(r) => Goto(r, "attempt") \/ Goto(r, "fail")
  BY DEF EnterApprovedStep
<1> HIDE DEF tables, world, history
<1> QED BY <1>1, <1>2, <1>3, <1>4, <1>5, <1>6, <1>7, <1>8, <1>9 DEF EngineStep

\* While a run awaits.
LEMMA AwaitLive ==
  ASSUME TypeOK, RecordInv, store = "ok", \A q \in Run : LiveRun(q),
         NEW r \in Run, Answer(r) \/ EmitCheckpoint(r) \/ Cancel(r)
  PROVE  store' = "ok" /\ \A q \in Run : LiveRun(q)'
<1> USE DEF tables, world, history
<1>c. PICK s \in Step : s = frame[r].cur
  BY Moves
<1>0. /\ OwnInv(r) /\ LiveRun(r) /\ Writable /\ frame[r].pc = "await"
      /\ Active(r)
      /\ UNCHANGED <<runStatus, resolved, up>>
      /\ store' = "ok"
  BY DEF RecordInv, OwnInv, Writable, Active, Answer, LocalAnswer, LocalThrows,
    ProviderAnswer, ProviderUnknown, ProviderAnswerRefused, EmitCheckpoint,
    Cancel
<1>a. ASSUME LiveRun(r)', \A q \in Run \ {r} : SameLive(q)
      PROVE  \A q \in Run : LiveRun(q)'
  BY <1>a, SameLiveKeeps
<1>b. ASSUME frame'[r].pc \in {"await", "unknown", "evidence"},
             \A q \in Run \ {r} : frame'[q] = frame[q],
             \/ attempt' = attempt
             \/ \E st \in RemoteState :
                  /\ attempt' = [attempt EXCEPT ![r][s] = st]
                  /\ st = "remote_state_unknown" => frame'[r].pc = "unknown"
      PROVE  \A q \in Run : LiveRun(q)'
  <2>1. /\ \A q \in Run \ {r} : attempt'[q] = attempt[q]
        /\ \/ frame'[r].pc = "unknown"
           \/ \A t \in Step : \/ attempt'[r][t] = attempt[r][t]
                              \/ attempt'[r][t] # "remote_state_unknown"
    BY <1>b DEF TypeOK
  <2>2. LiveRun(r)'
    BY <1>0, <1>b, <2>1, GoesOnLive
  <2> QED BY <1>0, <1>a, <1>b, <2>1, <2>2 DEF SameLive
<1>1. ASSUME NEW o \in Outcome, NEW tree \in BOOLEAN, LocalAnswer(r, o, tree)
      PROVE  \A q \in Run : LiveRun(q)'
  BY <1>1, <1>b, AnswerMoves DEF LocalAnswer
<1>2. ASSUME NEW o \in Outcome, NEW remote \in SettledRemote,
             ProviderAnswer(r, o, remote)
      PROVE  \A q \in Run : LiveRun(q)'
  BY <1>c, <1>2, <1>b, AnswerMoves
  DEF ProviderAnswer, SettledRemote, RemoteState
<1>3. CASE ProviderUnknown(r)
  <2>1. frame'[r].pc = "unknown" /\ \A q \in Run \ {r} : frame'[q] = frame[q]
    BY <1>3, Moves DEF ProviderUnknown
  <2> QED BY <1>c, <1>3, <1>b, <2>1 DEF ProviderUnknown, RemoteState
<1>4. CASE EmitCheckpoint(r)
  <2>1. frame'[r].pc = "await" /\ \A q \in Run \ {r} : frame'[q] = frame[q]
    BY <1>0, <1>4 DEF EmitCheckpoint, TypeOK, Frame
  <2> QED BY <1>4, <1>b, <2>1 DEF EmitCheckpoint
<1>5. CASE Cancel(r)
  <2>1. frame'[r].pc = "await" /\ \A q \in Run \ {r} : frame'[q] = frame[q]
    BY <1>0, <1>5 DEF Cancel, TypeOK, Frame
  <2> QED BY <1>c, <1>5, <1>b, <2>1 DEF Cancel, RemoteState
<1>6. ASSUME LocalThrows(r) \/
             \E remote \in SettledRemote : ProviderAnswerRefused(r, remote)
      PROVE  \A q \in Run : LiveRun(q)'
  <2>1. attempt' = attempt /\ Goto(r, "fail")
    BY <1>6 DEF LocalThrows, ProviderAnswerRefused
  <2>2. attempt[r][s] \in {"none", "cancel_requested"}
    <3>1. CASE s \notin ProviderStep
      BY <1>0, <3>1 DEF OwnInv, StepInv
    <3>2. CASE s \in ProviderStep
      <4>1. attempt[r][s] \in {"dispatching", "cancel_requested"}
        BY <1>c, <1>0, <3>2 DEF OwnInv, CurrentInv
      <4>2. PICK remote \in SettledRemote :
              remote \notin RemoteSuccessors(attempt[r][s])
        BY <1>c, <1>0, <1>6, <3>2 DEF LocalThrows, ProviderAnswerRefused
      <4>3. SettledRemote \subseteq RemoteSuccessors("dispatching")
        BY DEF RemoteSuccessors
      <4> QED BY <4>1, <4>2, <4>3
    <3> QED BY <3>1, <3>2
  <2> QED BY <1>c, <1>0, <1>a, <2>1, <2>2, FailLive
<1> HIDE DEF tables, world, history
<1> QED BY <1>0, <1>1, <1>2, <1>3, <1>4, <1>5, <1>6 DEF Answer

\* The desk.
LEMMA DeskLive ==
  ASSUME TypeOK, RecordInv, store = "ok", \A q \in Run : LiveRun(q), Desk
  PROVE  store' = "ok" /\ \A q \in Run : LiveRun(q)'
<1> USE DEF tables, world, history
<1>1. CASE \/ \E a \in Approval, p \in Plan, s \in Step :
                RequestApproval(a, p, s)
           \/ \E a \in Approval, decision \in {"granted", "denied"} :
                DecideApproval(a, decision)
           \/ \E a \in Approval : PreflightExpires(a)
  <2>1. store' = "ok" /\ \A q \in Run : SameLive(q)
    BY <1>1 DEF RequestApproval, DecideApproval, PreflightExpires, SameLive
  <2> QED BY <2>1, SameLiveKeeps
<1>2. ASSUME NEW r \in Run, NEW p \in Plan, StartRun(r, p)
      PROVE  store' = "ok" /\ \A q \in Run : LiveRun(q)'
  <2>1. /\ UNCHANGED <<attempt, request, resolved, checkpoint, evidence, sent>>
        /\ runStatus[r] = "none" /\ runStatus'[r] = "planned" /\ store' = "ok"
        /\ \A q \in Run \ {r} : SameLive(q)
    BY <1>2 DEF StartRun, SameLive, TypeOK
  <2>2. \A s \in Step : Untouched(r, s)'
    BY <2>1 DEF RecordInv, StatusInv, TerminalRun, Untouched
  <2>3. frame'[r].pc = "created"
    BY <1>2 DEF StartRun, FirstFrame, NoFrame, TypeOK
  <2>4. LiveRun(r)'
    BY <2>1, <2>2, <2>3, FreshLive
  <2> QED BY <2>1, <2>4, SameLiveKeeps
<1>3. ASSUME NEW r \in Run, NEW s \in Step, NEW resolution \in SettledRemote,
             ResolveUnknown(r, s, resolution)
      PROVE  store' = "ok" /\ \A q \in Run : LiveRun(q)'
  <2>1. /\ UNCHANGED <<runStatus, frame, up>> /\ store' = "ok" /\ up
        /\ frame[r].pc \in {"idle", "await"}
        /\ attempt[r][s] = "remote_state_unknown"
        /\ attempt'[r][s] = resolution
        /\ \A t \in Step \ {s} :
             attempt'[r][t] = attempt[r][t] /\ resolved'[r][t] = resolved[r][t]
        /\ \A q \in Run \ {r} : SameLive(q)
    BY <1>3 DEF ResolveUnknown, ThreadFree, SameLive, TypeOK
  <2>2. runStatus[r] = "orphaned"
    BY <2>1 DEF LiveRun
  <2>3. resolution \notin LiveRemote
    BY DEF SettledRemote, LiveRemote
  <2>4. LiveRun(r)'
    BY <2>1, <2>2, <2>3 DEF LiveRun
  <2> QED BY <2>1, <2>4, SameLiveKeeps
<1> HIDE DEF tables, world, history
<1> QED BY <1>1, <1>2, <1>3, AwaitLive DEF Desk

\* The world, when the store does not fail.
LEMMA WorldLive ==
  ASSUME TypeOK, RecordInv, StoreFaults = {}, store = "ok",
         \A q \in Run : LiveRun(q), Restart \/ World
  PROVE  store' = "ok" /\ \A q \in Run : LiveRun(q)'
<1> USE DEF tables, world, history
<1>1. CASE Restart
  <2>1. /\ up' /\ UNCHANGED <<resolved, frame>> /\ store' = "ok"
        /\ \A q \in Run : frame[q].pc = "idle"
        /\ \A q \in Run : runStatus'[q] =
             IF runStatus[q] = "running" THEN "orphaned" ELSE runStatus[q]
        /\ \A q \in Run : \A s \in Step : attempt'[q][s] =
             IF runStatus[q] = "running" /\ attempt[q][s] \in LiveRemote
             THEN "remote_state_unknown" ELSE attempt[q][s]
    BY <1>1 DEF Restart, RecordInv, StatusInv
  <2>2. ASSUME NEW q \in Run
        PROVE  LiveRun(q)'
    <3>1. LiveRun(q)
      OBVIOUS
    <3> QED BY <2>1, <3>1 DEF LiveRun, LiveRemote
  <2> QED BY <2>1, <2>2
<1>2. CASE Crash
  <2>1. /\ ~up' /\ UNCHANGED <<runStatus, attempt, resolved>> /\ store' = "ok"
        /\ \A q \in Run : frame'[q].pc = "idle"
    BY <1>2 DEF Crash, NoFrame
  <2>2. ASSUME NEW q \in Run
        PROVE  LiveRun(q)'
    <3>1. LiveRun(q) /\ (frame[q].pc = "unknown" => runStatus[q] = "running")
      BY DEF RecordInv, StatusInv, Active
    <3> QED BY <2>1, <3>1 DEF LiveRun
  <2> QED BY <2>1, <2>2
<1>3. CASE World /\ ~Crash
  <2>1. store' = "ok" /\ \A q \in Run : SameLive(q)
    BY <1>3 DEF World, BeginBackup, EndBackup, StoreHeals, StoreBreaks,
                ApprovalLapses, DescriptorDrifts, SameLive
  <2> QED BY <2>1, SameLiveKeeps
<1> QED BY <1>1, <1>2, <1>3

\* While the store writes, nothing live is left that nobody executes.
THEOREM NothingLiveIsLeft == Spec => []NothingLiveLeftBehind
<1>1. Init => LiveInv
  BY DEF Init, LiveInv, LiveRun, NoFrame, LiveRemote
<1>2. TypeOK /\ PayInv /\ RecordInv /\ LiveInv /\ [Next]_vars => LiveInv'
  <2> SUFFICES ASSUME TypeOK, PayInv, RecordInv, [Next]_vars, StoreFaults = {},
                      store = "ok", \A q \in Run : LiveRun(q)
               PROVE  store' = "ok" /\ \A q \in Run : LiveRun(q)'
    BY DEF LiveInv
  <2>1. CASE UNCHANGED vars
    <3>1. store' = "ok" /\ \A q \in Run : SameLive(q)
      BY <2>1 DEF vars, tables, world, SameLive
    <3> QED BY <3>1, SameLiveKeeps
  <2> QED BY <2>1, EngineLive, AwaitLive, DeskLive, WorldLive DEF Next
<1>3. LiveInv => NothingLiveLeftBehind
  BY ConstantsAssumption DEF LiveInv, LiveRun, NothingLiveLeftBehind
<1> QED BY <1>1, <1>2, <1>3, TypesHold, PaymentsInOrder, RecordsInOrder, PTL
        DEF Spec

=============================================================================

--------------------------------- MODULE Calls ---------------------------------
(***************************************************************************)
(* A call of a dispatcher, from both sides: the runtime, which awaits an   *)
(* answer of one kind or another, and the dispatchers, which give it.      *)
(* They share no state; each behaviour is of one of them, picked at the    *)
(* start, and the other stays as it began, where nothing of it is enabled. *)
(* What Runtime assumes of its calls, its actions Answer and their         *)
(* fairness, is what AnswersAsPromised and CallsAreAnswered say of the     *)
(* dispatchers.                                                            *)
(***************************************************************************)
EXTENDS Dispatch

CONSTANTS
  \* of Runtime
  Runs, Plan, NSteps, Approval, Descriptor, NeedsApproval, ProviderStep,
  DependsOn, StoreFaults, MayCrash, None

VARIABLES
  side,
  \* of Runtime
  runStatus, runPlan, approval, attempt, requested, resolved, checkpoint,
  evidence, frame, up, store, lapsed, descriptor, paid, sent

Engine == INSTANCE RuntimeProperties WITH Run <- Runs, request <- requested

runtime == <<runStatus, runPlan, approval, attempt, requested, resolved,
             checkpoint, evidence, frame, up, store, lapsed, descriptor, paid,
             sent>>

ASSUME CallsAssumption == "process" \in Kind

CallsInit ==
  /\ side \in {"runtime", "dispatcher"}
  /\ DispatchInit /\ Engine!Init
  /\ side = "runtime" =>
       kind = "process" /\ ~aborted /\ platform = CHOOSE p \in Platforms : TRUE

CallsNext ==
  \/ side = "runtime" /\ Engine!Next /\ UNCHANGED <<side, dispatchVars>>
  \/ side = "dispatcher" /\ DispatchNext /\ UNCHANGED <<side, runtime>>

\* The event loop runs what is ready, and calls are answered.  Nothing is
\* assumed of the person, of deadlines, of drift or of the application being
\* started again after a crash.
CallsSpec ==
  /\ CallsInit /\ [][CallsNext]_<<side, dispatchVars, runtime>>
  /\ DispatchFairness
  /\ \A r \in Runs :
       WF_runtime(side = "runtime" /\ (Engine!EngineStep(r) \/ Engine!Answer(r)))

\* Every run ends or the process goes down, if calls are answered.
RunsSettle == Engine!RunsSettle

=============================================================================

------------------------------- MODULE Dispatch -------------------------------
(***************************************************************************)
(* One step of a plan in the hands of its dispatcher: a supervised process *)
(* (packages/runtime/src/process-dispatcher.ts), Git                       *)
(* (packages/workspace/src: dispatchers.ts, git-read-client.ts), a search  *)
(* or a reading of the workspace (dispatchers.ts), or a provider           *)
(* (packages/provider-adapters/src: provider-step-dispatcher.ts,           *)
(* adapter-host.ts).                                                       *)
(*                                                                         *)
(* The machine that does the work is the module of that name; what belongs *)
(* to the others keeps its initial value.  An await is followed at once by *)
(* what the dispatcher makes of the result.                                *)
(***************************************************************************)
EXTENDS ProcessSupervisor, Sequences, FiniteSets

CONSTANTS
  Kind,  \* what the dispatcher is of: "process", "git", "workspace",
         \* "provider", or "watched": a workspace that is watched meanwhile
  \* of ProviderSession
  ResponseSize, ChunkSize, ChunkBudgets, SizeBudgets, MaxSessions,
  \* of Workspace
  Dir, Root, File, Content, Starts, CheckEvery, MaxFiles, MaxFileBytes,
  MaxSearchBytes, MaxMatches, MaxPending, Mark, MaxChanges

VARIABLES
  kind,
  desk,   \* "idle", "called", "answered"
  given,  \* the DispatchResult, or that dispatch() threw
  \* of ProviderSession
  request, at, response, point, begun, resuming, stream, told, stopped, saved,
  sessions,
  \* of Workspace
  tree, content, gone, changed, changes, searchAt, stack, visited, files, found,
  searchAborted, searched, watching, pending, watchTimer, untold

call == <<desk, given>>
session == <<request, at, response, point, begun, resuming, stream, told,
             stopped, saved, sessions>>
workspace == <<tree, content, gone, changed, changes, searchAt, stack, visited,
               files, found, searchAborted, searched, watching, pending,
               watchTimer, untold>>
dispatchVars == <<kind, call, vars, session, workspace>>

Provider == INSTANCE ProviderSession WITH
  output <- response, events <- stream, result <- told
Work == INSTANCE Workspace WITH
  at <- searchAt, aborted <- searchAborted, answer <- searched,
  timer <- watchTimer

\* What the runtime is promised.
Promise == INSTANCE StepAnswer WITH
  aborted <- CASE kind = "provider" -> stopped = "abort"
               [] kind = "workspace" -> searchAborted
               [] OTHER -> aborted

ASSUME DispatchAssumption ==
  /\ Kind \subseteq {"process", "git", "workspace", "provider", "watched"}
  /\ Provider!ProviderParameters
  /\ Work!WorkspaceParameters

OfProcess == kind \in {"process", "git"}

DispatchInit ==
  /\ kind \in Kind
  /\ desk = "idle" /\ given = Promise!NoAnswer
  /\ Init /\ Provider!Init /\ Work!Init
  /\ ~OfProcess => ~aborted /\ platform = CHOOSE p \in Platforms : TRUE
  /\ kind # "provider" =>
       request = CHOOSE r \in [scenario : Provider!Scenario,
                               maxChunks : ChunkBudgets,
                               maxSize : SizeBudgets] : TRUE
  /\ kind \notin {"workspace", "watched"} =>
       [tree |-> tree, content |-> content] = CHOOSE s \in Starts : TRUE

-----------------------------------------------------------------------------
(* The call of dispatch() or recover().                                    *)

Call == desk' = "called" /\ given' = Promise!NoAnswer

\* The step is described again and compared with what was approved, or its
\* input parsed again, before anything is started.  Git answers with a failure.
Refuse ==
  /\ desk = "idle" /\ kind # "watched"
  /\ desk' = "answered"
  /\ given' = [Promise!Threw EXCEPT
                 !.outcome = IF kind = "git" THEN "failed" ELSE @]
  /\ UNCHANGED <<kind, vars, session, workspace>>

StartProcess ==
  /\ OfProcess /\ desk = "idle"
  /\ Run
  /\ Call
  /\ UNCHANGED <<kind, session, workspace>>

\* Every attempt is a call of its own.
StartSession ==
  /\ kind = "provider" /\ desk # "called"
  /\ \/ Provider!Execute
     \/ \E checkpoint \in saved \cup Provider!Stale : Provider!Recover(checkpoint)
  /\ Call
  /\ UNCHANGED <<kind, vars, workspace>>

StartWorkspace ==
  /\ kind = "workspace" /\ desk = "idle"
  /\ Work!Search \/ \E f \in Work!Listed : Work!ReadText(f)
  /\ Call
  /\ UNCHANGED <<kind, vars, session>>

-----------------------------------------------------------------------------
(* The machines.                                                           *)

ProcessStep ==
  /\ OfProcess
  /\ Abort \/ Supervise \/ System
  /\ UNCHANGED <<kind, call, session, workspace>>

SessionStep ==
  /\ kind = "provider"
  /\ Provider!StreamStep \/ \E how \in {"abort", "timeout"} : Provider!Stop(how)
  /\ UNCHANGED <<kind, call, vars, workspace>>

\* The process dies, and the call with it.
SessionLost ==
  /\ kind = "provider" /\ Provider!Crash
  /\ desk' = "idle"
  /\ UNCHANGED <<kind, given, vars, workspace>>

\* The search and the watcher have nothing in common but the tree.
WorkspaceStep ==
  /\ \/ kind = "workspace" /\ (Work!Abort \/ Work!SearchStep)
     \/ kind = "watched" /\ Work!Watcher
     \/ kind \in {"workspace", "watched"} /\ Work!Disk
  /\ UNCHANGED <<kind, call, vars, session>>

-----------------------------------------------------------------------------
(* What the dispatcher makes of the result.                                *)

Local(outcome, confirmed) ==
  [outcome |-> outcome, tree |-> confirmed, remote |-> "none"]

ProcessAnswer ==
  IF result.outcome = "rejected" THEN Promise!Threw
  ELSE Local(result.outcome, result.confirmed)

\* Mutant of GitAnswers: the output is parsed whatever the process says.
GitAnswers_Unchecked ==
  {Local(outcome, result.confirmed) : outcome \in {"succeeded", "failed"}}

\* A GitOperationError tells what the process did, any other error nothing.
GitFailure ==
  IF result.outcome \in {"rejected", "succeeded"} THEN Local("failed", TRUE)
  ELSE Local(result.outcome, result.confirmed)

\* A process that succeeded may have written what is no answer of Git.
GitAnswers ==
  IF result.outcome = "succeeded"
  THEN {Local("succeeded", result.confirmed), GitFailure}
  ELSE {GitFailure}

\* The remote state the reference provider tells with an outcome.
RemoteState(outcome) ==
  IF outcome \in {"cancelled", "timed_out"} THEN "cancelled" ELSE outcome

SessionAnswer ==
  IF told.outcome = "threw" THEN Promise!Threw
  ELSE [outcome |-> told.outcome, tree |-> TRUE,
        remote |-> RemoteState(told.outcome)]

Give ==
  /\ desk = "called"
  /\ \/ kind = "process" /\ pc = "done" /\ given' = ProcessAnswer
     \/ kind = "git" /\ pc = "done" /\ given' \in GitAnswers
     \/ kind = "provider" /\ at = "idle" /\ given' = SessionAnswer
     \/ kind = "workspace" /\ searchAt \in {"done", "read"}
        /\ given' = Local(searched, TRUE)
  /\ desk' = "answered"
  /\ UNCHANGED <<kind, vars, session, workspace>>

-----------------------------------------------------------------------------
DispatchNext ==
  \/ Refuse \/ StartProcess \/ StartSession \/ StartWorkspace
  \/ ProcessStep \/ SessionStep \/ SessionLost \/ WorkspaceStep
  \/ Give

\* The event loop runs what is ready and timers fire; nothing is assumed of
\* processes, of the person or of the file system.
DispatchFairness ==
  /\ WF_dispatchVars(Give)
  /\ WF_vars(OfProcess /\ Supervise)
  /\ WF_session(kind = "provider" /\ Provider!StreamStep)
  /\ WF_workspace(kind = "workspace" /\ Work!SearchStep)

DispatchSpec ==
  DispatchInit /\ [][DispatchNext]_dispatchVars /\ DispatchFairness

-----------------------------------------------------------------------------
(* Properties.                                                             *)

\* The promises of the machines, as they are stated there.
ResponseIsWhole == Provider!ResponseIsWhole
StreamIsWellFormed == Provider!StreamIsWellFormed
SearchIsHonest == Work!SearchIsHonest
WatcherCovers == Work!WatcherCovers
UncertaintyIsTold == Work!UncertaintyIsTold
SearchAnswers == Work!SearchAnswers

\* Every dispatcher implements what the runtime takes for granted: one answer,
\* a success only of a tree that has ended, a cancellation only after an
\* abort, and a remote state that agrees with the outcome.
AnswersAsPromised == Promise!Spec

\* Whatever processes, providers and files do, the runtime gets its answer.
CallsAreAnswered == desk = "called" ~> desk # "called"

=============================================================================

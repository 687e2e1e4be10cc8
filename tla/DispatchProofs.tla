---------------------------- MODULE DispatchProofs ----------------------------
(***************************************************************************)
(* Proofs about the dispatchers: of the process supervisor on both         *)
(* platforms, for every limit of the output and every size of what the     *)
(* processes write; of provider sessions, for every response, division in  *)
(* chunks and budget; of the watcher of a workspace; of the search, for    *)
(* every tree, budget and change of the tree; and that each of them gives  *)
(* the answers that the runtime is promised.                               *)
(***************************************************************************)
EXTENDS Dispatch, Integers, SequenceTheorems, FunctionTheorems, FoldFacts, TLAPS

-----------------------------------------------------------------------------
(* The inductive invariant                                                 *)

\* What the program counter and the termination say of each other.
StageInv ==
  /\ pc = "idle" => alive = {} /\ ~spawned /\ reason = "none" /\ kill = "none"
  /\ pc # "done" => result = Pending
  /\ kill # "none" => pc = "waiting" /\ spawned /\ reason # "none"
  /\ kill \in {"polite", "force"} => platform = "win32"
  /\ reason = "cancelled" => aborted
  /\ reason = "timed_out" => timer = "fired"

\* A child has an exit code when it is gone.
ChildInv ==
  /\ ~spawned => alive = {} /\ exitCode = "none"
  /\ spawned /\ "child" \notin alive => exitCode # "none"
  /\ result.outcome \in {"succeeded", "failed"} => "child" \notin alive

\* No more is captured than was written.
OutputInv == output.captured <= output.produced

\* The results that run() may give, or have yet to give.
Result == [outcome : {"pending", "succeeded", "failed", "cancelled", "timed_out",
                      "rejected"},
           confirmed : BOOLEAN]

SupInv ==
  /\ TypeOK /\ StageInv /\ ChildInv /\ OutputInv
  /\ OutcomeTellsCause /\ ConfirmedTreeIsDoomed

-----------------------------------------------------------------------------
(* The output                                                              *)

\* A chunk that is captured keeps the limit, and is told to be truncated
\* exactly if a part of it was dropped.
LEMMA CaptureFacts ==
  ASSUME SupInv, NEW n \in 1 .. MaxChunk
  PROVE  /\ Capture(n) \in [captured : 0 .. MaxOutput, produced : Nat,
                            truncated : BOOLEAN]
         /\ Capture(n).captured <= Capture(n).produced
         /\ Capture(n).truncated <=> Capture(n).captured < Capture(n).produced
<1>1. /\ output \in [captured : 0 .. MaxOutput, produced : Nat, truncated : BOOLEAN]
      /\ output.captured <= output.produced
      /\ output.truncated <=> output.captured < output.produced
  BY DEF SupInv, TypeOK, OutputInv, OutcomeTellsCause
<1> DEFINE remaining == MaxOutput - output.captured
           accepted == IF n < remaining THEN n ELSE remaining
<1>2. /\ n \in Nat /\ n > 0 /\ MaxOutput \in Nat
      /\ output.captured \in Nat /\ output.produced \in Nat
      /\ output.captured <= MaxOutput /\ output.truncated \in BOOLEAN
  BY <1>1, SupervisorAssumption
<1>3. /\ output.captured + accepted \in 0 .. MaxOutput
      /\ output.produced + n \in Nat
      /\ output.captured + accepted <= output.produced + n
      /\ (remaining = 0 \/ n > accepted) <=> accepted < n
  BY <1>1, <1>2
<1>4. (output.truncated \/ remaining = 0 \/ n > accepted)
        <=> output.captured + accepted < output.produced + n
  <2>1. accepted \in Int /\ accepted <= n
    BY <1>2
  <2>2. CASE output.captured < output.produced
    BY <1>1, <1>2, <2>1, <2>2
  <2>3. CASE output.captured = output.produced
    BY <1>1, <1>2, <1>3, <2>1, <2>3
  <2> QED BY <1>1, <1>2, <2>2, <2>3
<1>5. Capture(n) = [captured |-> output.captured + accepted,
                    produced |-> output.produced + n,
                    truncated |-> output.truncated \/ remaining = 0 \/ n > accepted]
  BY DEF Capture
<1> HIDE DEF remaining, accepted
<1>6. (output.truncated \/ remaining = 0 \/ n > accepted) \in BOOLEAN
  OBVIOUS
<1>7. /\ Capture(n).captured = output.captured + accepted
      /\ Capture(n).produced = output.produced + n
      /\ Capture(n).truncated = (output.truncated \/ remaining = 0 \/ n > accepted)
  BY <1>5
<1>8. Capture(n) \in [captured : 0 .. MaxOutput, produced : Nat, truncated : BOOLEAN]
  BY <1>3, <1>5, <1>6
<1> QED BY <1>3, <1>4, <1>7, <1>8

-----------------------------------------------------------------------------
(* The steps                                                               *)

\* What a request for termination may give is a result.
LEMMA EndResults ==
  /\ [outcome |-> "cancelled", confirmed |-> TRUE] \in Result
  /\ [outcome |-> "timed_out", confirmed |-> TRUE] \in Result
BY DEF Result

LEMMA InitSupervises == Init => SupInv
<1> SUFFICES ASSUME Init PROVE SupInv
  OBVIOUS
<1>1. TypeOK
  <2>1. output \in [captured : 0 .. MaxOutput, produced : Nat, truncated : BOOLEAN]
    BY SupervisorAssumption DEF Init
  <2>2. result \in Result
    BY DEF Init, Pending, Result
  <2> QED BY <2>1, <2>2 DEF Init, TypeOK, Tree, Result
<1>2. StageInv /\ ChildInv /\ OutputInv /\ OutcomeTellsCause /\ ConfirmedTreeIsDoomed
  BY DEF Init, Pending, StageInv, ChildInv, OutputInv, OutcomeTellsCause,
         ConfirmedTreeIsDoomed
<1> QED BY <1>1, <1>2 DEF SupInv

\* Steps that leave the output alone.
LEMMA QuietStepKeeps ==
  ASSUME SupInv, UNCHANGED output,
         Run \/ SpawnError \/ Abort \/ TimerFires \/ Close
  PROVE  SupInv'
<1>1. CASE Run
  <2>1. TypeOK'
    <3>1. result' \in Result
      <4>1. result \in Result
        BY DEF SupInv, TypeOK, Result
      <4> QED BY <1>1, <4>1, EndResults DEF Run
    <3>2. /\ pc' \in {"idle", "waiting", "done"} /\ spawned' \in BOOLEAN
          /\ timer' \in {"off", "armed", "fired"} /\ alive' \subseteq Tree
      BY <1>1 DEF Run, SupInv, TypeOK, Tree
    <3>3. UNCHANGED <<platform, aborted, reason, kill, graceful, output, doomed,
                      forked, pipes, exitCode>>
      BY <1>1 DEF Run
    <3> QED BY <3>1, <3>2, <3>3 DEF SupInv, TypeOK, Result
  <2>2. StageInv'
    BY <1>1 DEF Run, SupInv, StageInv, Pending
  <2>3. ChildInv'
    BY <1>1 DEF Run, SupInv, TypeOK, StageInv, ChildInv, Pending
  <2>4. OutputInv'
    BY <1>1 DEF Run, SupInv, OutputInv
  <2>5. OutcomeTellsCause'
    BY <1>1
    DEF Run, SupInv, TypeOK, StageInv, ChildInv, OutcomeTellsCause, Pending
  <2>6. ConfirmedTreeIsDoomed'
    BY <1>1 DEF Run, SupInv, TypeOK, StageInv, ConfirmedTreeIsDoomed, Pending
  <2> QED BY <2>1, <2>2, <2>3, <2>4, <2>5, <2>6 DEF SupInv
<1>2. CASE SpawnError
  <2>1. TypeOK'
    BY <1>2 DEF SpawnError, system, SupInv, TypeOK, Tree
  <2>2. StageInv'
    BY <1>2 DEF SpawnError, system, SupInv, StageInv, Pending
  <2>3. ChildInv'
    BY <1>2 DEF SpawnError, system, SupInv, TypeOK, StageInv, ChildInv, Pending
  <2>4. OutputInv'
    BY <1>2 DEF SpawnError, system, SupInv, OutputInv
  <2>5. OutcomeTellsCause'
    BY <1>2
    DEF SpawnError, system, SupInv, TypeOK, StageInv, ChildInv,
        OutcomeTellsCause, Pending
  <2>6. ConfirmedTreeIsDoomed'
    BY <1>2
    DEF SpawnError, system, SupInv, TypeOK, StageInv, ConfirmedTreeIsDoomed,
        Pending
  <2> QED BY <2>1, <2>2, <2>3, <2>4, <2>5, <2>6 DEF SupInv
<1>3. CASE Abort
  <2>1. TypeOK'
    <3>1. result' \in Result
      <4>1. result \in Result
        BY DEF SupInv, TypeOK, Result
      <4> QED BY <1>3, <4>1, EndResults DEF Abort, RequestTermination
    <3> QED BY <1>3, <3>1
            DEF Abort, RequestTermination, CanTerminate, system, SupInv,
                TypeOK, Tree, Result
  <2>2. StageInv'
    BY <1>3
    DEF Abort, RequestTermination, CanTerminate, system, SupInv, StageInv,
        Pending
  <2>3. ChildInv'
    BY <1>3
    DEF Abort, RequestTermination, CanTerminate, system, SupInv, TypeOK,
        StageInv, ChildInv, Pending
  <2>4. OutputInv'
    BY <1>3
    DEF Abort, RequestTermination, CanTerminate, system, SupInv, OutputInv
  <2>5. OutcomeTellsCause'
    BY <1>3
    DEF Abort, RequestTermination, CanTerminate, system, SupInv, TypeOK,
        StageInv, ChildInv, OutcomeTellsCause, Pending
  <2>6. ConfirmedTreeIsDoomed'
    BY <1>3
    DEF Abort, RequestTermination, CanTerminate, system, SupInv, TypeOK,
        StageInv, ConfirmedTreeIsDoomed, Pending
  <2> QED BY <2>1, <2>2, <2>3, <2>4, <2>5, <2>6 DEF SupInv
<1>4. CASE TimerFires
  <2>1. TypeOK'
    <3>1. result' \in Result
      <4>1. result \in Result
        BY DEF SupInv, TypeOK, Result
      <4> QED BY <1>4, <4>1, EndResults DEF TimerFires, RequestTermination
    <3> QED BY <1>4, <3>1
            DEF TimerFires, RequestTermination, CanTerminate, system, SupInv,
                TypeOK, Tree, Result
  <2>2. StageInv'
    BY <1>4
    DEF TimerFires, RequestTermination, CanTerminate, system, SupInv, StageInv,
        Pending
  <2>3. ChildInv'
    BY <1>4
    DEF TimerFires, RequestTermination, CanTerminate, system, SupInv, TypeOK,
        StageInv, ChildInv, Pending
  <2>4. OutputInv'
    BY <1>4
    DEF TimerFires, RequestTermination, CanTerminate, system, SupInv,
        OutputInv
  <2>5. OutcomeTellsCause'
    BY <1>4
    DEF TimerFires, RequestTermination, CanTerminate, system, SupInv, TypeOK,
        StageInv, ChildInv, OutcomeTellsCause, Pending
  <2>6. ConfirmedTreeIsDoomed'
    BY <1>4
    DEF TimerFires, RequestTermination, CanTerminate, system, SupInv, TypeOK,
        StageInv, ConfirmedTreeIsDoomed, Pending
  <2> QED BY <2>1, <2>2, <2>3, <2>4, <2>5, <2>6 DEF SupInv
<1>5. CASE Close
  <2>1. TypeOK'
    BY <1>5
    DEF Close, Finish, OutcomeFor, PipesClosed, system, SupInv, TypeOK, Tree
  <2>2. StageInv'
    BY <1>5
    DEF Close, Finish, OutcomeFor, PipesClosed, system, SupInv, StageInv,
        Pending
  <2>3. ChildInv'
    BY <1>5
    DEF Close, Finish, OutcomeFor, PipesClosed, system, SupInv, TypeOK,
        StageInv, ChildInv, Pending
  <2>4. OutputInv'
    BY <1>5
    DEF Close, Finish, OutcomeFor, PipesClosed, system, SupInv, OutputInv
  <2>5. OutcomeTellsCause'
    BY <1>5
    DEF Close, Finish, OutcomeFor, PipesClosed, system, SupInv, TypeOK,
        StageInv, ChildInv, OutcomeTellsCause, Pending
  <2>6. ConfirmedTreeIsDoomed'
    BY <1>5
    DEF Close, Finish, OutcomeFor, PipesClosed, system, SupInv, TypeOK,
        StageInv, ConfirmedTreeIsDoomed, Pending
  <2> QED BY <2>1, <2>2, <2>3, <2>4, <2>5, <2>6 DEF SupInv
<1> QED BY <1>1, <1>2, <1>3, <1>4, <1>5

\* The steps of #terminateTree.
LEMMA TerminationKeeps ==
  ASSUME SupInv, NEW ok \in BOOLEAN,
         GroupKill \/ PoliteTaskkill(ok) \/ GraceEnds \/ ForcedTaskkill(ok)
  PROVE  SupInv'
<1>1. CASE GroupKill
  <2>1. TypeOK'
    BY <1>1 DEF GroupKill, Finish, OutcomeFor, SupInv, TypeOK, Tree
  <2>2. StageInv'
    BY <1>1 DEF GroupKill, Finish, OutcomeFor, SupInv, StageInv, Pending
  <2>3. ChildInv'
    BY <1>1
    DEF GroupKill, Finish, OutcomeFor, SupInv, TypeOK, StageInv, ChildInv,
        Pending
  <2>4. OutputInv'
    BY <1>1 DEF GroupKill, Finish, OutcomeFor, SupInv, OutputInv
  <2>5. OutcomeTellsCause'
    BY <1>1
    DEF GroupKill, Finish, OutcomeFor, SupInv, TypeOK, StageInv, ChildInv,
        OutcomeTellsCause, Pending
  <2>6. ConfirmedTreeIsDoomed'
    BY <1>1
    DEF GroupKill, Finish, OutcomeFor, SupInv, TypeOK, StageInv,
        ConfirmedTreeIsDoomed, Pending
  <2> QED BY <2>1, <2>2, <2>3, <2>4, <2>5, <2>6 DEF SupInv
<1>2. CASE PoliteTaskkill(ok)
  <2>1. TypeOK'
    BY <1>2 DEF PoliteTaskkill, system, SupInv, TypeOK, Tree
  <2>2. StageInv'
    BY <1>2 DEF PoliteTaskkill, system, SupInv, StageInv, Pending
  <2>3. ChildInv'
    BY <1>2
    DEF PoliteTaskkill, system, SupInv, TypeOK, StageInv, ChildInv, Pending
  <2>4. OutputInv'
    BY <1>2 DEF PoliteTaskkill, system, SupInv, OutputInv
  <2>5. OutcomeTellsCause'
    BY <1>2
    DEF PoliteTaskkill, system, SupInv, TypeOK, StageInv, ChildInv,
        OutcomeTellsCause, Pending
  <2>6. ConfirmedTreeIsDoomed'
    BY <1>2
    DEF PoliteTaskkill, system, SupInv, TypeOK, StageInv,
        ConfirmedTreeIsDoomed, Pending
  <2> QED BY <2>1, <2>2, <2>3, <2>4, <2>5, <2>6 DEF SupInv
<1>3. CASE GraceEnds
  <2>1. TypeOK'
    BY <1>3 DEF GraceEnds, system, SupInv, TypeOK, Tree
  <2>2. StageInv'
    BY <1>3 DEF GraceEnds, system, SupInv, StageInv, Pending
  <2>3. ChildInv'
    BY <1>3 DEF GraceEnds, system, SupInv, TypeOK, StageInv, ChildInv, Pending
  <2>4. OutputInv'
    BY <1>3 DEF GraceEnds, system, SupInv, OutputInv
  <2>5. OutcomeTellsCause'
    BY <1>3
    DEF GraceEnds, system, SupInv, TypeOK, StageInv, ChildInv,
        OutcomeTellsCause, Pending
  <2>6. ConfirmedTreeIsDoomed'
    BY <1>3
    DEF GraceEnds, system, SupInv, TypeOK, StageInv, ConfirmedTreeIsDoomed,
        Pending
  <2> QED BY <2>1, <2>2, <2>3, <2>4, <2>5, <2>6 DEF SupInv
<1>4. CASE ForcedTaskkill(ok)
  <2>1. TypeOK'
    BY <1>4 DEF ForcedTaskkill, Finish, OutcomeFor, SupInv, TypeOK, Tree
  <2>2. StageInv'
    BY <1>4 DEF ForcedTaskkill, Finish, OutcomeFor, SupInv, StageInv, Pending
  <2>3. ChildInv'
    BY <1>4
    DEF ForcedTaskkill, Finish, OutcomeFor, SupInv, TypeOK, StageInv, ChildInv,
        Pending
  <2>4. OutputInv'
    BY <1>4 DEF ForcedTaskkill, Finish, OutcomeFor, SupInv, OutputInv
  <2>5. OutcomeTellsCause'
    BY <1>4
    DEF ForcedTaskkill, Finish, OutcomeFor, SupInv, TypeOK, StageInv, ChildInv,
        OutcomeTellsCause, Pending
  <2>6. ConfirmedTreeIsDoomed'
    BY <1>4
    DEF ForcedTaskkill, Finish, OutcomeFor, SupInv, TypeOK, StageInv,
        ConfirmedTreeIsDoomed, Pending
  <2> QED BY <2>1, <2>2, <2>3, <2>4, <2>5, <2>6 DEF SupInv
<1> QED BY <1>1, <1>2, <1>3, <1>4

\* The steps of the processes.
LEMMA SystemKeeps ==
  ASSUME SupInv, System
  PROVE  SupInv'
<1>1. ASSUME NEW n \in 1 .. MaxChunk, Data(n) PROVE SupInv'
  BY <1>1, CaptureFacts
     DEF Data, events, system, SupInv, TypeOK, StageInv, ChildInv, OutputInv,
         OutcomeTellsCause, ConfirmedTreeIsDoomed, Pending
<1> USE DEF SupInv, TypeOK, StageInv, ChildInv, OutputInv, OutcomeTellsCause,
            ConfirmedTreeIsDoomed, Pending, Tree, events
<1>2. ASSUME NEW inherits \in BOOLEAN, Fork(inherits) PROVE SupInv'
  BY <1>2 DEF Fork
<1>3. ASSUME NEW code \in {"zero", "other"}, ChildExits(code) PROVE SupInv'
  BY <1>3 DEF ChildExits
<1>4. CASE DescendantExits
  BY <1>4 DEF DescendantExits
<1> HIDE DEF SupInv
<1> QED BY <1>1, <1>2, <1>3, <1>4 DEF System

LEMMA NextSupervises == SupInv /\ [Next]_vars => SupInv'
<1> SUFFICES ASSUME SupInv, [Next]_vars PROVE SupInv'
  OBVIOUS
<1>1. CASE Run \/ SpawnError \/ Abort \/ TimerFires \/ Close
  <2>1. UNCHANGED output
    BY <1>1 DEF Run, SpawnError, Abort, TimerFires, Close
  <2> QED BY <1>1, <2>1, QuietStepKeeps
<1>2. ASSUME NEW ok \in BOOLEAN,
             GroupKill \/ PoliteTaskkill(ok) \/ GraceEnds \/ ForcedTaskkill(ok)
      PROVE  SupInv'
  BY <1>2, TerminationKeeps
<1>3. CASE System
  BY <1>3, SystemKeeps
<1>4. CASE UNCHANGED vars
  BY <1>4
  DEF vars, events, system, SupInv, TypeOK, StageInv, ChildInv, OutputInv,
              OutcomeTellsCause, ConfirmedTreeIsDoomed
<1> QED BY <1>1, <1>2, <1>3, <1>4 DEF Next, Supervise

\* The first cause stays, and the result is given once.
LEMMA CauseStays ==
  ASSUME SupInv, [Next]_vars
  PROVE  /\ reason # "none" => reason' = reason
         /\ pc = "done" => result' = result
<1> USE DEF SupInv, StageInv
<1>1. CASE Run \/ SpawnError \/ Close
  BY <1>1 DEF Run, SpawnError, Close, system
<1>2. CASE Abort \/ TimerFires
  BY <1>2 DEF Abort, TimerFires, CanTerminate, system
<1>3. ASSUME NEW ok \in BOOLEAN,
             GroupKill \/ PoliteTaskkill(ok) \/ GraceEnds \/ ForcedTaskkill(ok)
      PROVE  reason' = reason /\ (pc = "done" => result' = result)
  BY <1>3 DEF GroupKill, PoliteTaskkill, GraceEnds, ForcedTaskkill
<1>4. CASE System \/ UNCHANGED vars
  BY <1>4 DEF System, Data, Fork, ChildExits, DescendantExits, events, vars
<1> HIDE DEF SupInv, StageInv
<1> QED BY <1>1, <1>2, <1>3, <1>4 DEF Next, Supervise

-----------------------------------------------------------------------------
(* The theorems                                                            *)

LEMMA Supervised == Spec => []SupInv
BY InitSupervises, NextSupervises, PTL DEF Spec

\* The supervisor's state is well formed, and the captured output within its
\* limit (process-supervisor.ts 168-187).
THEOREM SupervisorTypesHold == Spec => []TypeOK
<1>1. SupInv => TypeOK
  BY DEF SupInv
<1> QED BY <1>1, Supervised, PTL

\* The result names the true cause of the end, whatever races whatever, and
\* tells exactly whether output was dropped (process-supervisor.ts 168-237).
THEOREM CausesAreTold == Spec => []OutcomeTellsCause
<1>1. SupInv => OutcomeTellsCause
  BY DEF SupInv
<1> QED BY <1>1, Supervised, PTL

\* A confirmed tree was sent a kill, or had ended, but for the two cases of
\* Windows that the property names (process-supervisor.ts 241-297).
THEOREM ConfirmedTreesAreDoomed == Spec => []ConfirmedTreeIsDoomed
<1>1. SupInv => ConfirmedTreeIsDoomed
  BY DEF SupInv
<1> QED BY <1>1, Supervised, PTL

\* A late signal or exit changes neither the cause nor the result
\* (process-supervisor.ts 189-224).
THEOREM CausesAreFinal == Spec => CauseIsFinal
<1>1. SupInv /\ [Next]_vars =>
        [/\ reason # "none" => reason' = reason
         /\ pc = "done" => result' = result]_vars
  BY CauseStays
<1> QED BY <1>1, Supervised, PTL DEF Spec, CauseIsFinal

-----------------------------------------------------------------------------
(* What a dispatcher relies on: the inductive invariant                    *)

\* A settled promise of the supervisor has an outcome, and a process that
\* succeeded took its tree with it.
SettledInv ==
  pc = "done" =>
    /\ result.outcome # "pending"
    /\ result.outcome = "succeeded" => result.confirmed

\* A number of chunks that a response may have come to.
Reached(n) ==
  /\ n \in 0 .. Provider!NChunks
  /\ n <= request.maxChunks /\ Provider!Size(n) <= request.maxSize

\* A session and its checkpoints: the last one is of what there is so far,
\* and the store has none that goes beyond the budgets.
ResponseInv ==
  /\ request \in [scenario : Provider!Scenario, maxChunks : ChunkBudgets,
                  maxSize : SizeBudgets]
  /\ response \in Seq(Nat) /\ response = Provider!Chunks(Len(response))
  /\ Reached(Len(response))
  /\ \A checkpoint \in saved : Reached(checkpoint.next)
  /\ at = "delay" => /\ point.next = Len(response)
                     /\ Len(response) < Provider!NChunks
  /\ told.outcome = "succeeded" => Len(response) = Provider!NChunks

\* Only a running session can be stopped, and the one that was says so.
StopInv ==
  /\ at \in {"idle", "delay"}
  /\ stopped \in {"no", "abort", "timeout"}
  /\ at = "delay" => stopped = "no"
  /\ told.outcome \in {"none", "threw"} \cup Promise!Outcome
  /\ told.outcome = "cancelled" => stopped = "abort"

\* An ended search or reading has an outcome.
SearchInv ==
  /\ searchAborted \in BOOLEAN
  /\ searchAt \in {"done", "read"} =>
       searched \in {"succeeded", "cancelled", "threw"}
  /\ searched = "cancelled" => searchAborted

\* A call is under way as long as its session is, and waits for its result.
DeskInv ==
  /\ kind \in Kind
  /\ kind = "provider" /\ at = "delay" => desk = "called"
  /\ kind = "provider" /\ at = "idle" /\ desk = "called" =>
       told.outcome # "none"

AnswerInv ==
  /\ SupInv /\ SettledInv /\ StopInv /\ SearchInv /\ DeskInv

-----------------------------------------------------------------------------
(* The watcher of a workspace                                              *)

\* A report makes the collection cover the change it is of, and keeps covered
\* what was.
LEMMA CollectedCovers ==
  ASSUME WatcherCovers, NEW e, NEW named \in BOOLEAN, Work!Enqueue(e, named)
  PROVE  WatcherCovers'
<1>1. watchTimer' = TRUE /\ untold' = untold \cup {e}
  BY DEF Work!Enqueue
<1>2. CASE pending' = Work!Uncertain
  <2>1. DOMAIN pending' = {Mark} /\ pending'[Mark] = "overflow"
    BY <1>2 DEF Work!Uncertain
  <2> QED BY <1>1, <2>1 DEF WatcherCovers, Work!WatcherCovers
<1>3. CASE pending' = Work!With(e)
  <2>1. /\ DOMAIN pending' = DOMAIN pending \cup {e}
        /\ \A key \in DOMAIN pending' : key # e => pending'[key] = pending[key]
    BY <1>3 DEF Work!With
  <2>2. untold' \subseteq DOMAIN pending' \/ Mark \in DOMAIN pending'
    BY <1>1, <2>1 DEF WatcherCovers, Work!WatcherCovers
  <2>3. ASSUME NEW key \in DOMAIN pending'
        PROVE  key \in untold' \/ (key = Mark /\ pending'[key] = "overflow")
    BY <1>1, <2>1 DEF WatcherCovers, Work!WatcherCovers
  <2> QED BY <1>1, <2>2, <2>3 DEF WatcherCovers, Work!WatcherCovers
<1> QED BY <1>2, <1>3 DEF Work!Enqueue, Work!Collected

LEMMA WatcherKeepsCovering ==
  ASSUME WatcherCovers, [DispatchNext]_dispatchVars
  PROVE  WatcherCovers'
<1>1. CASE UNCHANGED workspace
  BY <1>1 DEF workspace, WatcherCovers, Work!WatcherCovers
<1>2. CASE UNCHANGED Work!watcher
  BY <1>2 DEF Work!watcher, WatcherCovers, Work!WatcherCovers
<1>3. ASSUME NEW e, Work!Notified(e) PROVE WatcherCovers'
  BY <1>2, <1>3, CollectedCovers DEF Work!Notified
<1>4. CASE Work!Watcher
  <2>1. CASE Work!Watch
    BY <2>1 DEF Work!Watch, WatcherCovers, Work!WatcherCovers
  <2>2. CASE Work!Close \/ Work!Deliver
    <3>1. untold' = {} /\ DOMAIN pending' = {}
      BY <2>2 DEF Work!Close, Work!Deliver, Work!NothingPending
    <3> QED BY <3>1 DEF WatcherCovers, Work!WatcherCovers
  <2> QED BY <1>3, <1>4, <2>1, <2>2 DEF Work!Watcher, Work!NotifiedAgain
<1>5. CASE Work!Disk
  BY <1>3, <1>5 DEF Work!Disk, Work!Modify, Work!Vanish, Work!Change
<1>6. CASE StartWorkspace
  BY <1>2, <1>6
  DEF StartWorkspace, Work!Search, Work!ReadText, Work!watcher
<1>7. CASE Work!Abort \/ Work!SearchStep
  BY <1>2, <1>7
  DEF Work!Abort, Work!SearchStep, Work!Enter, Work!EntryFails,
      Work!EnterDirectory, Work!ListFile, Work!EndOfDirectory,
      Work!EndOfListing, Work!NextFile, Work!OpenFile, Work!ReadFile,
      Work!Finish, Work!watcher
<1>8. CASE WorkspaceStep
  BY <1>4, <1>5, <1>7, <1>8 DEF WorkspaceStep
<1>9. CASE UNCHANGED dispatchVars
  BY <1>1, <1>9 DEF dispatchVars
<1> QED BY <1>1, <1>6, <1>8, <1>9
        DEF DispatchNext, Refuse, StartProcess, StartSession, ProcessStep,
            SessionStep, SessionLost, Give
-----------------------------------------------------------------------------
(* The response of a provider                                              *)

\* A response has a chunk, the last of its chunks ends it, and no beginning of
\* it but the empty one has no size.
LEMMA ChunkFacts ==
  /\ Provider!NChunks \in Nat \ {0}
  /\ Provider!Size(0) = 0
  /\ \A n \in 1 .. Provider!NChunks :
       Provider!Size(n) \in Nat /\ Provider!Size(n) # 0
<1>1. /\ ResponseSize \in Nat /\ ResponseSize > 0
      /\ ChunkSize \in Nat /\ ChunkSize > 0
  BY DispatchAssumption DEF Provider!ProviderParameters
<1>2. Provider!NChunks \in Nat /\ Provider!NChunks > 0
  <2> DEFINE total == ResponseSize + ChunkSize - 1
  <2>1. total \in Nat /\ total >= ChunkSize
    BY <1>1
  <2> HIDE DEF total
  <2>2. total \div ChunkSize \in Int /\ total \div ChunkSize >= 1
    BY <1>1, <2>1
  <2>3. Provider!NChunks = total \div ChunkSize
    BY DEF Provider!NChunks, total
  <2> QED BY <2>2, <2>3
<1>3. Provider!Size(0) = 0
  BY <1>1, <1>2 DEF Provider!Size
<1>4. ASSUME NEW n \in 1 .. Provider!NChunks
      PROVE  Provider!Size(n) \in Nat /\ Provider!Size(n) # 0
  <2>1. n \in Nat /\ n > 0
    BY <1>2
  <2>2. ChunkSize * n \in Nat /\ ChunkSize * n # 0
    BY <1>1, <2>1
  <2> QED BY <1>1, <2>2 DEF Provider!Size
<1> QED BY <1>2, <1>3, <1>4

LEMMA SequenceOfChunks ==
  ASSUME NEW n \in Nat
  PROVE  /\ Provider!Chunks(n) \in Seq(Nat) /\ Len(Provider!Chunks(n)) = n
         /\ Append(Provider!Chunks(n), n + 1) = Provider!Chunks(n + 1)
<1>1. Provider!Chunks(n) \in Seq(Nat) /\ Len(Provider!Chunks(n)) = n
  BY DEF Provider!Chunks
<1> DEFINE longer == Append(Provider!Chunks(n), n + 1)
<1>2. /\ longer \in Seq(Nat) /\ Len(longer) = n + 1
      /\ \A i \in 1 .. n + 1 : longer[i] = i
  BY <1>1 DEF Provider!Chunks
<1>3. longer = [i \in 1 .. n + 1 |-> longer[i]]
  BY <1>2
<1> HIDE DEF longer
<1>4. longer = [i \in 1 .. n + 1 |-> i]
  BY <1>2, <1>3
<1> QED BY <1>1, <1>4 DEF Provider!Chunks, longer

\* The response with which a session begins or resumes.
LEMMA ResponseAt ==
  ASSUME NEW n \in Nat, Reached(n), response' = Provider!Chunks(n),
         UNCHANGED <<request, saved>>,
         ResponseInv,
         at' = "delay" => point'.next = n /\ n < Provider!NChunks,
         told'.outcome = "succeeded" => n = Provider!NChunks
  PROVE  ResponseInv'
<1>1. response' \in Seq(Nat) /\ Len(response') = n
  BY SequenceOfChunks
<1>2. Reached(Len(response))' /\ \A c \in saved' : Reached(c.next)'
  BY <1>1 DEF Reached, ResponseInv
<1> QED BY <1>1, <1>2 DEF ResponseInv

\* Steps that add nothing to the response.
LEMMA ResponseStays ==
  ASSUME ResponseInv, UNCHANGED <<request, response, saved>>,
         \/ UNCHANGED <<at, point, told>>
         \/ at' = "idle" /\ told'.outcome # "succeeded"
  PROVE  ResponseInv'
BY DEF ResponseInv, Reached

LEMMA EmptyIsReached ==
  ASSUME ResponseInv
  PROVE  Reached(0) /\ Provider!Chunks(0) = <<>>
<1>1. ChunkBudgets \subseteq Nat /\ SizeBudgets \subseteq Nat
  BY DispatchAssumption DEF Provider!ProviderParameters
<1>2. request.maxChunks \in Nat /\ request.maxSize \in Nat
  BY <1>1 DEF ResponseInv
<1>3. Provider!Chunks(0) = <<>>
  <2>1. Provider!Chunks(0) \in Seq(Nat) /\ Len(Provider!Chunks(0)) = 0
    BY SequenceOfChunks
  <2> QED BY <2>1
<1>4. 0 \in 0 .. Provider!NChunks
  BY ChunkFacts
<1> QED BY <1>2, <1>3, <1>4, ChunkFacts DEF Reached

\* A checkpoint that matches is one of the store, or its response is empty:
\* either way the budgets were kept.
LEMMA RecoveryKeepsResponse ==
  ASSUME ResponseInv, NEW checkpoint \in saved \cup Provider!Stale,
         Provider!Recover(checkpoint)
  PROVE  ResponseInv'
<1> DEFINE n == checkpoint.next
<1>1. CASE ~Provider!Matches(checkpoint)
  <2>1. /\ response' = Provider!Chunks(0)
        /\ at' = "idle" /\ told'.outcome = "threw"
    BY <1>1, EmptyIsReached DEF Provider!Recover, Provider!NoResult
  <2> QED BY <2>1, EmptyIsReached, ResponseAt DEF Provider!Recover
<1>2. CASE Provider!Matches(checkpoint)
  <2>1. n \in Nat /\ Reached(n)
    <3>1. CASE checkpoint \in saved
      BY <3>1, ChunkFacts DEF ResponseInv, Reached
    <3>2. CASE checkpoint \in Provider!Stale
      <4>1. n \in 1 .. Provider!NChunks /\ checkpoint.size = 0
        BY <3>2, ChunkFacts DEF Provider!Stale, Provider!Checkpoint
      <4> QED BY <1>2, <4>1, ChunkFacts DEF Provider!Matches
    <3> QED BY <3>1, <3>2
  <2>2. /\ response' = Provider!Chunks(n) /\ point'.next = n
        /\ UNCHANGED <<request, saved>>
    BY <1>2 DEF Provider!Recover
  <2>3. /\ at' = "delay" => n # Provider!NChunks
        /\ told'.outcome = "succeeded" => n = Provider!NChunks
    BY <1>2
    DEF Provider!Recover, Provider!IsEnd, Provider!Succeed, Provider!NoResult
  <2>4. at' = "delay" => n < Provider!NChunks
    BY <2>1, <2>3, ChunkFacts DEF Reached
  <2> HIDE DEF n
  <2> QED BY <2>1, <2>2, <2>3, <2>4, ResponseAt
<1> QED BY <1>1, <1>2

LEMMA ChunkKeepsResponse ==
  ASSUME ResponseInv, NEW accepted \in BOOLEAN, Provider!ChunkArrives(accepted)
  PROVE  ResponseInv'
<1> DEFINE n == Provider!NextChunk
           here == [next |-> n, size |-> Provider!Size(n)]
<1>1. /\ Len(response) \in Nat /\ n = Len(response) + 1
      /\ n \in 1 .. Provider!NChunks
  BY ChunkFacts DEF ResponseInv, Provider!NextChunk, Provider!ChunkArrives
<1>2. Reached(n)
  <2>1. ~(n > request.maxChunks) /\ ~(Provider!Size(n) > request.maxSize)
    BY DEF Provider!ChunkArrives, Provider!OverBudget
  <2>2. ChunkBudgets \subseteq Nat /\ SizeBudgets \subseteq Nat
    BY DispatchAssumption DEF Provider!ProviderParameters
  <2>3. request.maxChunks \in Nat /\ request.maxSize \in Nat
    BY <2>2 DEF ResponseInv
  <2>4. Provider!Size(n) \in Nat
    BY <1>1, ChunkFacts
  <2> HIDE DEF n
  <2> QED BY <1>1, <2>1, <2>3, <2>4, ChunkFacts DEF Reached
<1>3. /\ response' = Append(response, n) /\ point' = here
      /\ saved' \subseteq saved \cup {here} /\ UNCHANGED request
  BY DEF Provider!ChunkArrives
<1>4. response' = Provider!Chunks(n)
  <2>1. response = Provider!Chunks(Len(response))
    BY DEF ResponseInv
  <2> QED BY <1>1, <1>3, <2>1, SequenceOfChunks
<1>5. /\ at' = "delay" => n # Provider!NChunks
      /\ told'.outcome = "succeeded" => n = Provider!NChunks
  <2>1. at = "delay" /\ Len(response) < Provider!NChunks
    BY DEF Provider!ChunkArrives, ResponseInv
  <2>2. told.outcome # "succeeded"
    BY <1>1, <2>1, ChunkFacts DEF ResponseInv
  <2> QED BY <2>2
          DEF Provider!ChunkArrives, Provider!Fail, Provider!Succeed,
              Provider!IsEnd
<1>6. at' = "delay" => n < Provider!NChunks
  BY <1>1, <1>5, ChunkFacts
<1>7. response' \in Seq(Nat) /\ Len(response') = n
  BY <1>1, <1>4, SequenceOfChunks
<1>8. \A c \in saved' : Reached(c.next)'
  <2>1. \A c \in saved : Reached(c.next)
    BY DEF ResponseInv
  <2>2. here.next = n
    OBVIOUS
  <2> HIDE DEF here, n
  <2> QED BY <1>2, <1>3, <2>1, <2>2 DEF Reached
<1>9. point'.next = n
  BY <1>3
<1> HIDE DEF n, here
<1> QED BY <1>3, <1>4, <1>5, <1>6, <1>7, <1>8, <1>2, <1>9
        DEF ResponseInv, Reached

LEMMA SessionKeepsResponse ==
  ASSUME ResponseInv, [DispatchNext]_dispatchVars
  PROVE  ResponseInv'
<1>1. CASE UNCHANGED session
  BY <1>1 DEF session, ResponseInv, Reached
<1>2. CASE Provider!Execute
  <2>1. /\ response' = Provider!Chunks(0) /\ point'.next = 0
        /\ told'.outcome = "none" /\ UNCHANGED <<request, saved>>
    BY <1>2, EmptyIsReached
    DEF Provider!Execute, Provider!NoCheckpoint, Provider!NoResult
  <2> QED BY <2>1, EmptyIsReached, ResponseAt, ChunkFacts
<1>3. CASE Provider!Crash
  <2>1. /\ response' = Provider!Chunks(0) /\ at' = "idle"
        /\ told'.outcome = "none" /\ UNCHANGED <<request, saved>>
    BY <1>3, EmptyIsReached DEF Provider!Crash, Provider!NoResult
  <2> QED BY <2>1, EmptyIsReached, ResponseAt
<1>4. CASE Provider!Retry
  <2>1. Provider!Chunks(point.next) = response
    BY <1>4 DEF Provider!Retry, ResponseInv
  <2> QED BY <1>4, <2>1, ResponseStays DEF Provider!Retry
<1>5. CASE \/ Provider!TransportFails \/ Provider!ChunkRefused
           \/ \E how \in {"abort", "timeout"} : Provider!Stop(how)
  BY <1>5, ResponseStays
  DEF Provider!TransportFails, Provider!ChunkRefused, Provider!Stop,
      Provider!Fail
<1>6. CASE SessionStep
  BY <1>4, <1>5, <1>6, ChunkKeepsResponse
  DEF SessionStep, Provider!StreamStep
<1>7. CASE StartSession
  BY <1>2, <1>7, RecoveryKeepsResponse DEF StartSession
<1>8. CASE SessionLost
  BY <1>3, <1>8 DEF SessionLost
<1>9. CASE UNCHANGED dispatchVars
  BY <1>1, <1>9 DEF dispatchVars
<1> QED BY <1>1, <1>6, <1>7, <1>8, <1>9
        DEF DispatchNext, Refuse, StartProcess, StartWorkspace, ProcessStep,
            WorkspaceStep, Give

-----------------------------------------------------------------------------
(* The stream of a provider                                                *)

Telling == [type : {"started", "delta", "checkpoint", "usage", "completed",
                    "error"},
            chunk : Nat]

\* The stream of a session that began at the checkpoint from, told n chunks and
\* came to the outcome, as StreamIsWellFormed has it.
BodyOf(from, n) == [i \in 1 .. 2 * n |->
  LET chunk == from + (i + 1) \div 2
  IN IF i % 2 = 1 THEN Provider!Delta(chunk) ELSE Provider!CheckpointEvent(chunk)]

EndingOf(outcome) ==
  CASE outcome = "none" -> <<>>
    [] outcome = "succeeded" ->
         <<Provider!Event("usage"), Provider!Event("completed")>>
    [] OTHER -> <<Provider!Event("error")>>

StreamOf(outcome, from, n) ==
  <<Provider!Event("started")>> \o BodyOf(from, n) \o EndingOf(outcome)

StreamInv ==
  /\ begun.next \in Nat
  /\ at = "delay" => told.outcome = "none" /\ stream # <<>>
  /\ told.outcome = "threw" => stream = <<Provider!Event("started")>>
  /\ told.outcome # "threw" /\ stream # <<>> =>
       /\ begun.next <= Len(response)
       /\ stream = StreamOf(told.outcome, begun.next, Len(response) - begun.next)

LEMMA TellingFacts ==
  /\ \A type \in {"started", "usage", "completed", "error"} :
       Provider!Event(type) \in Telling
  /\ \A i \in Nat : /\ Provider!Delta(i) \in Telling
                    /\ Provider!CheckpointEvent(i) \in Telling
BY DEF Telling, Provider!Event, Provider!Delta, Provider!CheckpointEvent

LEMMA Joined ==
  \A s, t \in Seq(Telling) :
    /\ s \o t \in Seq(Telling) /\ Len(s \o t) = Len(s) + Len(t)
    /\ \A i \in 1 .. Len(s) + Len(t) :
         (s \o t)[i] = IF i <= Len(s) THEN s[i] ELSE t[i - Len(s)]
    /\ \A u \in Seq(Telling) : (s \o t) \o u = s \o (t \o u)
BY ConcatProperties, ConcatAssociative

\* A chunk adds itself and its checkpoint.
LEMMA BodyFacts ==
  ASSUME NEW from \in Nat, NEW n \in Nat
  PROVE  /\ BodyOf(from, n) \in Seq(Telling)
         /\ BodyOf(from, 0) = <<>>
         /\ BodyOf(from, n + 1) =
              BodyOf(from, n) \o <<Provider!Delta(from + n + 1),
                                   Provider!CheckpointEvent(from + n + 1)>>
<1> DEFINE tells(i) == IF i % 2 = 1
                       THEN Provider!Delta(from + (i + 1) \div 2)
                       ELSE Provider!CheckpointEvent(from + (i + 1) \div 2)
<1>1. \A m \in Nat : BodyOf(from, m) = [i \in 1 .. 2 * m |-> tells(i)]
  BY DEF BodyOf
<1>2. \A i \in Nat : tells(i) \in Telling
  <2> SUFFICES ASSUME NEW i \in Nat PROVE tells(i) \in Telling
    OBVIOUS
  <2>1. from + (i + 1) \div 2 \in Nat
    OBVIOUS
  <2> QED BY <2>1, TellingFacts
<1>3. /\ tells(2 * n + 1) = Provider!Delta(from + n + 1)
      /\ tells(2 * n + 2) = Provider!CheckpointEvent(from + n + 1)
  <2>1. (2 * n + 1) % 2 = 1 /\ (2 * n + 2) % 2 = 0
    OBVIOUS
  <2>2. (2 * n + 1 + 1) \div 2 = n + 1 /\ (2 * n + 2 + 1) \div 2 = n + 1
    OBVIOUS
  <2>3. from + (n + 1) = from + n + 1
    OBVIOUS
  <2> QED BY <2>1, <2>2, <2>3
<1> HIDE DEF tells
<1>4. \A m \in Nat : /\ BodyOf(from, m) \in Seq(Telling)
                     /\ Len(BodyOf(from, m)) = 2 * m
                     /\ \A i \in 1 .. 2 * m : BodyOf(from, m)[i] = tells(i)
  <2> SUFFICES ASSUME NEW m \in Nat
               PROVE  /\ BodyOf(from, m) \in Seq(Telling)
                      /\ Len(BodyOf(from, m)) = 2 * m
                      /\ \A i \in 1 .. 2 * m : BodyOf(from, m)[i] = tells(i)
    OBVIOUS
  <2> DEFINE size == 2 * m
  <2>1. size \in Nat
    OBVIOUS
  <2>2. BodyOf(from, m) = [i \in 1 .. size |-> tells(i)]
    BY <1>1
  <2>3. \A i \in 1 .. size : tells(i) \in Telling
    BY <1>2, <2>1
  <2> HIDE DEF size
  <2>4. /\ BodyOf(from, m) \in Seq(Telling) /\ Len(BodyOf(from, m)) = size
        /\ \A i \in 1 .. size : BodyOf(from, m)[i] = tells(i)
    BY <2>1, <2>2, <2>3
  <2> QED BY <2>4 DEF size
<1>5. BodyOf(from, 0) = <<>>
  BY <1>4
<1> DEFINE pair == <<Provider!Delta(from + n + 1),
                     Provider!CheckpointEvent(from + n + 1)>>
           longer == BodyOf(from, n) \o pair
<1>6. /\ pair \in Seq(Telling) /\ Len(pair) = 2
      /\ pair[1] = tells(2 * n + 1) /\ pair[2] = tells(2 * n + 2)
  BY <1>3, TellingFacts
<1> HIDE DEF pair
<1>7. /\ longer \in Seq(Telling) /\ Len(longer) = 2 * n + 2
      /\ \A i \in 1 .. 2 * n + 2 :
           longer[i] = IF i <= 2 * n THEN BodyOf(from, n)[i] ELSE pair[i - 2 * n]
  <2>1. /\ BodyOf(from, n) \in Seq(Telling) /\ Len(BodyOf(from, n)) = 2 * n
        /\ pair \in Seq(Telling) /\ Len(pair) = 2
    BY <1>4, <1>6
  <2> DEFINE shorter == BodyOf(from, n)
  <2>2. longer = shorter \o pair
    OBVIOUS
  <2> HIDE DEF shorter, longer
  <2>3. /\ longer \in Seq(Telling) /\ Len(longer) = Len(shorter) + Len(pair)
        /\ \A i \in 1 .. Len(shorter) + Len(pair) :
             longer[i] = IF i <= Len(shorter) THEN shorter[i]
                         ELSE pair[i - Len(shorter)]
    BY <2>1, <2>2, Joined, Zenon DEF shorter
  <2>4. Len(shorter) = 2 * n /\ Len(pair) = 2
    BY <2>1 DEF shorter
  <2>5. /\ longer \in Seq(Telling) /\ Len(longer) = 2 * n + 2
        /\ \A i \in 1 .. 2 * n + 2 :
             longer[i] = IF i <= 2 * n THEN shorter[i] ELSE pair[i - 2 * n]
    BY <2>3, <2>4, Zenon
  <2> QED BY <2>5 DEF shorter
<1>8. \A i \in 1 .. 2 * n + 2 : longer[i] = tells(i)
  <2> SUFFICES ASSUME NEW i \in 1 .. 2 * n + 2 PROVE longer[i] = tells(i)
    OBVIOUS
  <2>0. i \in Nat /\ 2 * n \in Nat /\ 1 <= i /\ i <= 2 * n + 2
    OBVIOUS
  <2>1. CASE i <= 2 * n
    BY <1>4, <1>7, <2>1
  <2>2. CASE i = 2 * n + 1
    BY <1>6, <1>7, <2>2
  <2>3. CASE i = 2 * n + 2
    BY <1>6, <1>7, <2>3
  <2>4. i <= 2 * n \/ i = 2 * n + 1 \/ i = 2 * n + 2
    BY <2>0
  <2> QED BY <2>1, <2>2, <2>3, <2>4
<1> HIDE DEF longer
<1>9. BodyOf(from, n + 1) = longer
  <2>1. /\ BodyOf(from, n + 1) \in Seq(Telling)
        /\ Len(BodyOf(from, n + 1)) = 2 * n + 2
        /\ \A i \in 1 .. 2 * n + 2 : BodyOf(from, n + 1)[i] = tells(i)
    BY <1>4
  <2> QED BY <1>7, <1>8, <2>1, SeqEqual
<1> QED BY <1>4, <1>5, <1>9 DEF longer, pair

\* The stream of a session at its start, and how chunks and ends prolong it.
LEMMA StreamFacts ==
  ASSUME NEW from \in Nat, NEW n \in Nat
  PROVE  /\ StreamOf("none", from, 0) = <<Provider!Event("started")>>
         /\ StreamOf("none", from, n) \in Seq(Telling)
         /\ StreamOf("none", from, n + 1) =
              StreamOf("none", from, n) \o
                <<Provider!Delta(from + n + 1),
                  Provider!CheckpointEvent(from + n + 1)>>
         /\ StreamOf("succeeded", from, n) =
              StreamOf("none", from, n) \o
                <<Provider!Event("usage"), Provider!Event("completed")>>
         /\ \A outcome \in {"failed", "cancelled", "timed_out"} :
              StreamOf(outcome, from, n) =
                StreamOf("none", from, n) \o <<Provider!Event("error")>>
<1> DEFINE first == <<Provider!Event("started")>>
           body == BodyOf(from, n)
           pair == <<Provider!Delta(from + n + 1),
                     Provider!CheckpointEvent(from + n + 1)>>
<1>1. first \in Seq(Telling) /\ pair \in Seq(Telling) /\ <<>> \in Seq(Telling)
  BY TellingFacts
<1>2. /\ body \in Seq(Telling) /\ BodyOf(from, 0) = <<>>
      /\ BodyOf(from, n + 1) = body \o pair
  BY BodyFacts
<1>3. /\ EndingOf("none") = <<>>
      /\ EndingOf("succeeded") =
           <<Provider!Event("usage"), Provider!Event("completed")>>
      /\ \A outcome \in {"failed", "cancelled", "timed_out"} :
           EndingOf(outcome) = <<Provider!Event("error")>>
  BY DEF EndingOf
<1>4. \A outcome, m : StreamOf(outcome, from, m) =
        first \o BodyOf(from, m) \o EndingOf(outcome)
  BY DEF StreamOf
<1> HIDE DEF first, body, pair
<1>5. /\ first \o body \in Seq(Telling) /\ body \o pair \in Seq(Telling)
      /\ first \o (body \o pair) \in Seq(Telling)
  BY <1>1, <1>2, ConcatProperties
<1>6. /\ (first \o body) \o <<>> = first \o body
      /\ (first \o (body \o pair)) \o <<>> = first \o (body \o pair)
      /\ first \o <<>> = first
  BY <1>1, <1>5, ConcatEmptySeq
<1>7. (first \o body) \o pair = first \o (body \o pair)
  <2>1. /\ first \in Seq(Telling) /\ body \in Seq(Telling)
        /\ pair \in Seq(Telling)
    BY <1>1, <1>2
  <2> QED BY <2>1, Joined, Zenon
<1>8. StreamOf("none", from, n) = first \o body
  BY <1>3, <1>4, <1>6 DEF body
<1>9. StreamOf("none", from, n + 1) = (first \o body) \o pair
  BY <1>2, <1>3, <1>4, <1>6, <1>7
<1>10. StreamOf("none", from, 0) = first
  BY <1>2, <1>3, <1>4, <1>6
<1>11. \A outcome : StreamOf(outcome, from, n) =
         (first \o body) \o EndingOf(outcome)
  BY <1>4 DEF body
<1> QED BY <1>3, <1>5, <1>8, <1>9, <1>10, <1>11 DEF first, pair

\* A session that begins: nothing was told of it but the start, and the end if
\* its checkpoint is that of the whole response.
LEMMA BeginningKeepsStream ==
  ASSUME ResponseInv, StreamInv,
         \/ Provider!Execute
         \/ \E c \in saved \cup Provider!Stale : Provider!Recover(c)
  PROVE  StreamInv'
<1>1. CASE Provider!Execute
  <2>1. /\ begun'.next = 0 /\ told'.outcome = "none" /\ Len(response') = 0
        /\ stream' = <<Provider!Event("started")>>
    BY <1>1
    DEF Provider!Execute, Provider!NoCheckpoint, Provider!NoResult
  <2>2. stream' = StreamOf("none", 0, 0) /\ stream' # <<>>
    BY <2>1, StreamFacts
  <2> QED BY <2>1, <2>2 DEF StreamInv
<1>2. ASSUME NEW c \in saved \cup Provider!Stale, Provider!Recover(c)
      PROVE  StreamInv'
  <2>1. c.next \in Nat /\ begun' = c
    BY <1>2, ChunkFacts
    DEF Provider!Recover, ResponseInv, Reached, Provider!Stale,
        Provider!Checkpoint
  <2>2. CASE ~Provider!Matches(c)
    <3>1. /\ at' = "idle" /\ told'.outcome = "threw"
          /\ stream' = <<Provider!Event("started")>>
      BY <1>2, <2>2 DEF Provider!Recover, Provider!NoResult
    <3> QED BY <2>1, <3>1 DEF StreamInv
  <2>3. CASE Provider!Matches(c)
    <3>1. Len(response') = c.next
      BY <1>2, <2>1, <2>3, SequenceOfChunks DEF Provider!Recover
    <3>2. \/ /\ at' = "delay" /\ told'.outcome = "none"
             /\ stream' = <<Provider!Event("started")>>
          \/ /\ at' = "idle" /\ told'.outcome = "succeeded"
             /\ stream' = <<Provider!Event("started")>> \o
                  <<Provider!Event("usage"), Provider!Event("completed")>>
      BY <1>2, <2>3
      DEF Provider!Recover, Provider!NoResult, Provider!Succeed
    <3>3. stream' = StreamOf(told'.outcome, c.next, 0) /\ stream' # <<>>
      <4>1. /\ StreamOf("none", c.next, 0) = <<Provider!Event("started")>>
            /\ StreamOf("succeeded", c.next, 0) =
                 <<Provider!Event("started")>> \o
                   <<Provider!Event("usage"), Provider!Event("completed")>>
        BY <2>1, StreamFacts
      <4>2. <<Provider!Event("started")>> \o
              <<Provider!Event("usage"), Provider!Event("completed")>> # <<>>
        OBVIOUS
      <4>3. <<Provider!Event("started")>> # <<>>
        OBVIOUS
      <4>4. CASE told'.outcome = "none"
        BY <3>2, <4>1, <4>3, <4>4, Zenon
      <4>5. CASE told'.outcome = "succeeded"
        BY <3>2, <4>1, <4>2, <4>5, Zenon
      <4> QED BY <3>2, <4>4, <4>5
    <3>4. Len(response') - c.next = 0 /\ c.next <= Len(response')
      BY <2>1, <3>1
    <3>5. told'.outcome # "threw" /\ (at' = "delay" => told'.outcome = "none")
      BY <3>2
    <3> QED BY <2>1, <3>3, <3>4, <3>5 DEF StreamInv
  <2> QED BY <2>2, <2>3
<1> QED BY <1>1, <1>2

\* What a running session has told.
LEMMA RunningStream ==
  ASSUME ResponseInv, StreamInv, at = "delay"
  PROVE  \E n \in Nat :
           /\ begun.next \in Nat /\ Len(response) = begun.next + n
           /\ stream \in Seq(Telling)
           /\ stream = StreamOf("none", begun.next, n)
<1>1. /\ begun.next \in Nat /\ Len(response) \in Nat
      /\ begun.next <= Len(response)
      /\ stream = StreamOf("none", begun.next, Len(response) - begun.next)
  BY DEF StreamInv, ResponseInv
<1> DEFINE n == Len(response) - begun.next
<1>2. n \in Nat /\ Len(response) = begun.next + n
  BY <1>1
<1> HIDE DEF n
<1>3. stream = StreamOf("none", begun.next, n)
  BY <1>1 DEF n
<1> QED BY <1>1, <1>2, <1>3, StreamFacts

\* An error is told, and the response stays.
LEMMA FailureKeepsStream ==
  ASSUME ResponseInv, StreamInv, at = "delay", at' = "idle",
         UNCHANGED <<response, begun>>,
         told'.outcome \in {"failed", "cancelled", "timed_out"},
         stream' = stream \o <<Provider!Event("error")>>
  PROVE  StreamInv'
<1>1. PICK n \in Nat : /\ begun.next \in Nat /\ Len(response) = begun.next + n
                       /\ stream \in Seq(Telling)
                       /\ stream = StreamOf("none", begun.next, n)
  BY RunningStream
<1>2. stream' = StreamOf(told'.outcome, begun.next, n)
  BY <1>1, StreamFacts
<1>3. Len(response') - begun'.next = n /\ begun'.next <= Len(response')
  BY <1>1
<1> QED BY <1>1, <1>2, <1>3 DEF StreamInv

LEMMA ChunkKeepsStream ==
  ASSUME ResponseInv, StreamInv, NEW accepted \in BOOLEAN,
         Provider!ChunkArrives(accepted)
  PROVE  StreamInv'
<1>1. at = "delay"
  BY DEF Provider!ChunkArrives
<1>2. PICK n \in Nat : /\ begun.next \in Nat /\ Len(response) = begun.next + n
                       /\ stream \in Seq(Telling)
                       /\ stream = StreamOf("none", begun.next, n)
  BY <1>1, RunningStream
<1> DEFINE chunk == begun.next + n + 1
           longer == stream \o <<Provider!Delta(chunk),
                                 Provider!CheckpointEvent(chunk)>>
<1>3. Provider!NextChunk = chunk
  BY <1>2 DEF Provider!NextChunk
<1>4. longer = StreamOf("none", begun.next, n + 1)
  BY <1>2, StreamFacts
<1>5. longer \in Seq(Telling) /\ longer # <<>>
  <2>1. chunk \in Nat
    BY <1>2
  <2> HIDE DEF chunk
  <2>2. /\ <<Provider!Delta(chunk), Provider!CheckpointEvent(chunk)>>
             \in Seq(Telling)
        /\ Len(<<Provider!Delta(chunk), Provider!CheckpointEvent(chunk)>>) = 2
    BY <2>1, TellingFacts
  <2> QED BY <1>2, <2>2
<1>6. /\ response' = Append(response, Provider!NextChunk)
      /\ UNCHANGED begun
  BY DEF Provider!ChunkArrives
<1>7. Len(response') = begun.next + (n + 1)
  <2>1. response \in Seq(Nat)
    BY DEF ResponseInv
  <2>2. Len(response') = Len(response) + 1
    BY <1>6, <2>1
  <2> QED BY <1>2, <2>2
<1>8. \/ /\ at' = "idle" /\ told'.outcome = "failed"
         /\ stream' = longer \o <<Provider!Event("error")>>
      \/ /\ at' = "idle" /\ told'.outcome = "succeeded"
         /\ stream' = longer \o
              <<Provider!Event("usage"), Provider!Event("completed")>>
      \/ /\ UNCHANGED <<at, told>> /\ stream' = longer
  <2> DEFINE now == stream \o <<Provider!Delta(Provider!NextChunk),
                               Provider!CheckpointEvent(Provider!NextChunk)>>
  <2>1. \/ /\ at' = "idle" /\ told'.outcome = "failed"
           /\ stream' = now \o <<Provider!Event("error")>>
        \/ /\ at' = "idle" /\ told'.outcome = "succeeded"
           /\ stream' = now \o
                <<Provider!Event("usage"), Provider!Event("completed")>>
        \/ /\ UNCHANGED <<at, told>> /\ stream' = now
    <3>1. CASE ~accepted
      <4>1. Provider!Fail(now, "failed", "protocol_error", Provider!NextChunk)
        BY <3>1, Zenon DEF Provider!ChunkArrives, now
      <4> HIDE DEF now
      <4> QED BY <4>1 DEF Provider!Fail
    <3>2. CASE accepted
      <4>1. \/ Provider!Succeed(now, Provider!NextChunk)
            \/ stream' = now /\ UNCHANGED <<at, told>>
        BY <3>2, Zenon DEF Provider!ChunkArrives, now
      <4> HIDE DEF now
      <4> QED BY <4>1 DEF Provider!Succeed
    <3> QED BY <3>1, <3>2
  <2>2. now = longer
    BY <1>3
  <2> HIDE DEF now, longer
  <2> QED BY <2>1, <2>2, Zenon
<1> HIDE DEF longer
<1>9. told'.outcome \in {"none", "failed", "succeeded"}
  BY <1>1, <1>8 DEF StreamInv
<1>10. stream' = StreamOf(told'.outcome, begun.next, n + 1)
  <2>1. told.outcome = "none"
    BY <1>1 DEF StreamInv
  <2>2. n + 1 \in Nat
    OBVIOUS
  <2>3. /\ StreamOf("succeeded", begun.next, n + 1) =
             longer \o <<Provider!Event("usage"), Provider!Event("completed")>>
        /\ StreamOf("failed", begun.next, n + 1) =
             longer \o <<Provider!Event("error")>>
    BY <1>2, <1>4, <2>2, StreamFacts
  <2>4. CASE told'.outcome = "none"
    BY <1>4, <1>8, <2>4, Zenon
  <2>5. CASE told'.outcome = "failed"
    BY <1>8, <2>1, <2>3, <2>5, Zenon
  <2>6. CASE told'.outcome = "succeeded"
    BY <1>8, <2>1, <2>3, <2>6, Zenon
  <2> QED BY <1>9, <2>4, <2>5, <2>6
<1>11. at' = "delay" => told'.outcome = "none" /\ stream' # <<>>
  BY <1>1, <1>5, <1>8 DEF StreamInv
<1>12. Len(response') - begun'.next = n + 1 /\ begun'.next <= Len(response')
  BY <1>2, <1>6, <1>7
<1> QED BY <1>2, <1>6, <1>9, <1>10, <1>11, <1>12 DEF StreamInv

LEMMA SessionKeepsStream ==
  ASSUME ResponseInv, StreamInv, [DispatchNext]_dispatchVars
  PROVE  StreamInv'
<1>1. CASE UNCHANGED session
  BY <1>1 DEF session, StreamInv
<1>2. CASE Provider!Crash
  <2>1. /\ begun'.next = 0 /\ at' = "idle" /\ stream' = <<>>
        /\ told'.outcome = "none"
    BY <1>2 DEF Provider!Crash, Provider!NoCheckpoint, Provider!NoResult
  <2> QED BY <2>1 DEF StreamInv
<1>3. CASE Provider!Retry
  <2>1. UNCHANGED <<response, begun, at, told, stream>>
    BY <1>3 DEF Provider!Retry, ResponseInv
  <2> QED BY <2>1 DEF StreamInv
<1>4. CASE \/ Provider!TransportFails \/ Provider!ChunkRefused
           \/ \E how \in {"abort", "timeout"} : Provider!Stop(how)
  <2>1. /\ at = "delay" /\ at' = "idle" /\ UNCHANGED <<response, begun>>
        /\ told'.outcome \in {"failed", "cancelled", "timed_out"}
        /\ stream' = stream \o <<Provider!Event("error")>>
    BY <1>4
    DEF Provider!TransportFails, Provider!ChunkRefused, Provider!Stop,
        Provider!Fail
  <2> QED BY <2>1, FailureKeepsStream
<1>5. CASE SessionStep
  BY <1>3, <1>4, <1>5, ChunkKeepsStream DEF SessionStep, Provider!StreamStep
<1>6. CASE StartSession
  BY <1>6, BeginningKeepsStream DEF StartSession
<1>7. CASE SessionLost
  BY <1>2, <1>7 DEF SessionLost
<1>8. CASE UNCHANGED dispatchVars
  BY <1>1, <1>8 DEF dispatchVars
<1> QED BY <1>1, <1>5, <1>6, <1>7, <1>8
        DEF DispatchNext, Refuse, StartProcess, StartWorkspace, ProcessStep,
            WorkspaceStep, Give

LEMMA StreamIsTold == StreamInv => StreamIsWellFormed
<1> SUFFICES ASSUME StreamInv PROVE StreamIsWellFormed
  OBVIOUS
<1>1. \A n : StreamOf(told.outcome, begun.next, n) =
               <<Provider!Event("started")>> \o Provider!Body(n)
                 \o Provider!Ending
  BY DEF StreamOf, BodyOf, EndingOf, Provider!Body, Provider!Ending
<1> QED BY <1>1
        DEF StreamInv, StreamIsWellFormed, Provider!StreamIsWellFormed

-----------------------------------------------------------------------------
(* The answers                                                             *)

\* A step of the process supervisor.
LEMMA SettlesOnce ==
  ASSUME SupInv, SettledInv, Next
  PROVE  SettledInv'
<1>1. /\ reason \in {"none", "cancelled", "timed_out"}
      /\ kill # "none" => reason # "none"
  BY DEF SupInv, TypeOK, StageInv
<1>2. CASE Run \/ SpawnError \/ Close
  BY <1>1, <1>2
  DEF Run, SpawnError, Close, Finish, OutcomeFor, SettledInv
<1>3. CASE Abort \/ TimerFires
  BY <1>1, <1>3
  DEF Abort, TimerFires, RequestTermination, SettledInv
<1>4. CASE GroupKill
  BY <1>1, <1>4 DEF GroupKill, Finish, OutcomeFor, SettledInv
<1>5. ASSUME NEW ok \in BOOLEAN, PoliteTaskkill(ok) \/ GraceEnds
      PROVE  SettledInv'
  BY <1>5 DEF PoliteTaskkill, GraceEnds, SettledInv
<1>6. ASSUME NEW ok \in BOOLEAN, ForcedTaskkill(ok) PROVE SettledInv'
  BY <1>1, <1>6 DEF ForcedTaskkill, Finish, OutcomeFor, SettledInv
<1>7. CASE System
  BY <1>7
  DEF System, Data, Fork, ChildExits, DescendantExits, events, SettledInv
<1> QED BY <1>2, <1>3, <1>4, <1>5, <1>6, <1>7 DEF Next, Supervise

\* A step of a session.
LEMMA SessionKeepsStops ==
  ASSUME StopInv, Provider!Next
  PROVE  /\ StopInv'
         /\ at = "delay" /\ at' = "idle" => \/ told'.outcome # "none"
                                            \/ Provider!Crash
<1> USE DEF StopInv, Provider!NoResult, Provider!Fail, Provider!Succeed,
            Promise!Outcome
<1>1. CASE Provider!Execute
  BY <1>1 DEF Provider!Execute
<1>2. ASSUME NEW checkpoint \in saved \cup Provider!Stale,
             Provider!Recover(checkpoint)
      PROVE  StopInv' /\ at = "idle"
  BY <1>2 DEF Provider!Recover
<1>3. CASE Provider!Retry
  BY <1>3 DEF Provider!Retry
<1>4. CASE Provider!TransportFails \/ Provider!ChunkRefused
  BY <1>4 DEF Provider!TransportFails, Provider!ChunkRefused
<1>5. ASSUME NEW accepted \in BOOLEAN, Provider!ChunkArrives(accepted)
      PROVE  StopInv' /\ (at' = "idle" => told'.outcome # "none")
  BY <1>5 DEF Provider!ChunkArrives
<1>6. ASSUME NEW how \in {"abort", "timeout"}, Provider!Stop(how)
      PROVE  StopInv' /\ told'.outcome # "none"
  BY <1>6 DEF Provider!Stop
<1>7. CASE Provider!Crash
  BY <1>7 DEF Provider!Crash
<1> HIDE DEF StopInv, Provider!NoResult, Provider!Fail, Provider!Succeed
<1> QED BY <1>1, <1>2, <1>3, <1>4, <1>5, <1>6, <1>7
        DEF Provider!Next, Provider!StreamStep

\* A step of a search or of a reading.
LEMMA SearchKeepsOutcome ==
  ASSUME SearchInv, Work!Next
  PROVE  SearchInv' /\ (~Work!Abort => UNCHANGED searchAborted)
<1> USE DEF SearchInv
<1>1. CASE Work!Search \/ Work!Abort
  BY <1>1 DEF Work!Search, Work!Abort, Work!Answer
<1>2. ASSUME NEW f \in Work!Listed, Work!ReadText(f)
      PROVE  SearchInv' /\ UNCHANGED searchAborted
  BY <1>2 DEF Work!ReadText
<1>3. CASE \/ Work!Enter \/ Work!EntryFails \/ Work!EnterDirectory
           \/ Work!ListFile \/ Work!EndOfDirectory \/ Work!EndOfListing
  BY <1>3
  DEF Work!Enter, Work!EntryFails, Work!EnterDirectory, Work!ListFile,
      Work!EndOfDirectory, Work!EndOfListing, Work!Throw, Work!Answer,
      Work!Calling, Work!AtEntry
<1>4. CASE Work!NextFile \/ Work!OpenFile \/ Work!ReadFile \/ Work!Finish
  BY <1>4
  DEF Work!NextFile, Work!OpenFile, Work!ReadFile, Work!Finish, Work!Skip,
      Work!Throw, Work!Answer
<1>5. CASE Work!Watcher \/ Work!Disk
  BY <1>5
  DEF Work!Watcher, Work!Watch, Work!Close, Work!Deliver, Work!NotifiedAgain,
      Work!Disk,
      Work!Modify, Work!Vanish, Work!Change, Work!search
<1> HIDE DEF SearchInv
<1> QED BY <1>1, <1>2, <1>3, <1>4, <1>5 DEF Work!Next, Work!SearchStep

LEMMA InitAnswers ==
  DispatchInit => AnswerInv /\ ResponseInv /\ StreamInv /\ WatcherCovers
<1> SUFFICES ASSUME DispatchInit
             PROVE  AnswerInv /\ ResponseInv /\ StreamInv /\ WatcherCovers
  OBVIOUS
<1>1. SupInv
  BY InitSupervises DEF DispatchInit
<1>2. SettledInv /\ StopInv /\ SearchInv /\ DeskInv
  BY DEF DispatchInit, Init, Provider!Init, Work!Init, Provider!NoResult,
         SettledInv, StopInv, SearchInv, DeskInv
<1>3. ResponseInv
  <2>1. /\ request \in [scenario : Provider!Scenario, maxChunks : ChunkBudgets,
                        maxSize : SizeBudgets]
        /\ response = <<>> /\ saved = {} /\ at = "idle"
        /\ told.outcome = "none"
    BY DEF DispatchInit, Provider!Init, Provider!NoResult
  <2>2. ChunkBudgets \subseteq Nat /\ SizeBudgets \subseteq Nat
    BY DispatchAssumption DEF Provider!ProviderParameters
  <2>3. request.maxChunks \in Nat /\ request.maxSize \in Nat
    BY <2>1, <2>2
  <2>4. Provider!Chunks(0) = <<>>
    <3>1. Provider!Chunks(0) \in Seq(Nat) /\ Len(Provider!Chunks(0)) = 0
      BY SequenceOfChunks
    <3> QED BY <3>1
  <2>5. Reached(0)
    <3>1. 0 \in 0 .. Provider!NChunks
      BY ChunkFacts
    <3> QED BY <2>3, <3>1, ChunkFacts DEF Reached
  <2> QED BY <2>1, <2>4, <2>5 DEF ResponseInv
<1>4. WatcherCovers
  <2>1. untold = {} /\ DOMAIN pending = {}
    BY DEF DispatchInit, Work!Init, Work!NothingPending
  <2> QED BY <2>1 DEF WatcherCovers, Work!WatcherCovers
<1>5. StreamInv
  BY DEF DispatchInit, Provider!Init, Provider!NoCheckpoint, Provider!NoResult,
         StreamInv
<1> QED BY <1>1, <1>2, <1>3, <1>4, <1>5 DEF AnswerInv

\* Each step of a dispatcher keeps the invariant of its machine.
LEMMA NextAnswers ==
  ASSUME AnswerInv, [DispatchNext]_dispatchVars
  PROVE  AnswerInv'
<1>1. \/ Next
      \/ UNCHANGED vars
  BY DEF DispatchNext, dispatchVars, Refuse, StartProcess, StartSession,
         StartWorkspace, ProcessStep, SessionStep, SessionLost, WorkspaceStep,
         Give, Next
<1>2. \/ Provider!Next
      \/ UNCHANGED session
  BY DEF DispatchNext, dispatchVars, Refuse, StartProcess, StartSession,
         StartWorkspace, ProcessStep, SessionStep, SessionLost, WorkspaceStep,
         Give, Provider!Next
<1>3. \/ Work!Next
      \/ UNCHANGED workspace
  BY DEF DispatchNext, dispatchVars, Refuse, StartProcess, StartSession,
         StartWorkspace, ProcessStep, SessionStep, SessionLost, WorkspaceStep,
         Give, Work!Next
<1>4. SupInv'
  BY <1>1, NextSupervises DEF AnswerInv
<1>5. SettledInv'
  <2>1. CASE UNCHANGED vars
    BY <2>1 DEF vars, events, AnswerInv, SettledInv
  <2> QED BY <1>1, <2>1, SettlesOnce DEF AnswerInv
<1>6. StopInv'
  <2>1. CASE UNCHANGED session
    BY <2>1 DEF session, AnswerInv, StopInv, Promise!Outcome
  <2> QED BY <1>2, <2>1, SessionKeepsStops DEF AnswerInv
<1>7. SearchInv'
  <2>1. CASE UNCHANGED workspace
    BY <2>1 DEF workspace, AnswerInv, SearchInv
  <2> QED BY <1>3, <2>1, SearchKeepsOutcome DEF AnswerInv
<1>8. DeskInv'
  <2> USE DEF DeskInv, AnswerInv
  <2>1. CASE StartSession
    BY <2>1 DEF StartSession, Call, Provider!Execute, Provider!Recover,
                Provider!Succeed, Provider!NoResult
  <2>2. CASE SessionStep
    <3>1. Provider!Next
      BY <2>2 DEF SessionStep, Provider!Next
    <3>2. ~Provider!Crash \/ told'.outcome # "none"
      BY <2>2, <3>1 DEF SessionStep, Provider!Crash, Provider!StreamStep,
         Provider!Retry, Provider!TransportFails, Provider!ChunkRefused,
         Provider!ChunkArrives, Provider!Stop, Provider!Fail, StopInv
    <3>3. at = "delay" /\ at' \in {"idle", "delay"}
      BY <2>2, <1>6
      DEF SessionStep, Provider!StreamStep, Provider!Retry,
          Provider!TransportFails, Provider!ChunkRefused,
          Provider!ChunkArrives, Provider!Stop, StopInv
    <3> QED BY <2>2, <3>1, <3>2, <3>3, SessionKeepsStops
            DEF SessionStep, call
  <2>3. CASE SessionLost
    BY <2>3 DEF SessionLost, Provider!Crash
  <2>4. CASE ProcessStep \/ WorkspaceStep \/ UNCHANGED dispatchVars
    BY <2>4 DEF ProcessStep, WorkspaceStep, dispatchVars, call, session
  <2>5. CASE StartProcess \/ StartWorkspace
    BY <2>5 DEF StartProcess, StartWorkspace, OfProcess, session
  <2>6. CASE Refuse \/ Give
    BY <2>6 DEF Refuse, Give, session, StopInv
  <2> QED BY <2>1, <2>2, <2>3, <2>4, <2>5, <2>6 DEF DispatchNext
<1> QED BY <1>4, <1>5, <1>6, <1>7, <1>8 DEF AnswerInv

-----------------------------------------------------------------------------
(* The refinement                                                          *)

\* What each dispatcher makes of its result is as promised.
LEMMA ProcessAnswersAsPromised ==
  ASSUME AnswerInv, pc = "done", OfProcess
  PROVE  /\ Promise!Promised(ProcessAnswer)
         /\ \A answer \in GitAnswers : Promise!Promised(answer)
<1>1. /\ result.outcome \in {"succeeded", "failed", "cancelled", "timed_out",
                             "rejected"}
      /\ result.outcome = "succeeded" => result.confirmed
      /\ result.outcome = "cancelled" => aborted
  BY DEF AnswerInv, SettledInv, SupInv, TypeOK, OutcomeTellsCause
<1>2. kind # "provider" /\ kind # "workspace"
  BY DEF OfProcess
<1> USE DEF Promise!Promised, Promise!Outcome, Local
<1>3. Promise!Promised(ProcessAnswer)
  BY <1>1, <1>2 DEF ProcessAnswer, Promise!Threw
<1>4. Promise!Promised(GitFailure)
  BY <1>1, <1>2 DEF GitFailure
<1>5. result.outcome = "succeeded" =>
        Promise!Promised(Local("succeeded", result.confirmed))
  BY <1>1, <1>2
<1> HIDE DEF Promise!Promised, Local
<1> QED BY <1>3, <1>4, <1>5 DEF GitAnswers

LEMMA SessionAnswersAsPromised ==
  ASSUME AnswerInv, kind = "provider", desk = "called", at = "idle"
  PROVE  Promise!Promised(SessionAnswer)
<1>1. /\ told.outcome \in {"threw"} \cup Promise!Outcome
      /\ told.outcome = "cancelled" => stopped = "abort"
  BY DEF AnswerInv, StopInv, DeskInv
<1> QED BY <1>1
        DEF Promise!Promised, Promise!Outcome, Promise!Threw, SessionAnswer,
            RemoteState

LEMMA WorkspaceAnswersAsPromised ==
  ASSUME AnswerInv, kind = "workspace", searchAt \in {"done", "read"}
  PROVE  Promise!Promised(Local(searched, TRUE))
<1>1. /\ searched \in {"succeeded", "cancelled", "threw"}
      /\ searched = "cancelled" => searchAborted
  BY DEF AnswerInv, SearchInv
<1> QED BY <1>1 DEF Promise!Promised, Promise!Outcome, Local

LEMMA InitPromises == DispatchInit => Promise!Init
<1> SUFFICES ASSUME DispatchInit PROVE Promise!Init
  OBVIOUS
<1>1. aborted \in BOOLEAN /\ searchAborted = FALSE /\ stopped = "no"
  BY DEF DispatchInit, Init, Work!Init, Provider!Init
<1> QED BY <1>1 DEF DispatchInit, Promise!Init

LEMMA StepsAsPromised ==
  ASSUME AnswerInv, [DispatchNext]_dispatchVars
  PROVE  [\/ Promise!Ask \/ Promise!Abort
          \/ Promise!Give \/ Promise!Lose]_(Promise!vars)
<1>1. aborted \in BOOLEAN /\ searchAborted \in BOOLEAN
  BY DEF AnswerInv, SupInv, TypeOK, SearchInv
<1>2. CASE Refuse
  <2>1. /\ desk = "idle" /\ desk' = "answered"
        /\ Promise!Promised(given')
    BY <1>2
    DEF Refuse, Promise!Promised, Promise!Threw, Promise!Outcome
  <2>2. UNCHANGED <<kind, aborted, searchAborted, stopped>>
    BY <1>2 DEF Refuse, vars, events, session, workspace
  <2> QED BY <2>1, <2>2 DEF Promise!Give
<1>3. CASE StartProcess
  <2>1. /\ desk # "called" /\ UNCHANGED <<kind, aborted>>
        /\ kind # "provider" /\ kind # "workspace"
    BY <1>3 DEF StartProcess, Run, OfProcess
  <2> QED BY <1>1, <1>3, <2>1 DEF StartProcess, Call, Promise!Ask
<1>4. CASE StartSession
  <2>1. kind = "provider" /\ kind' = kind /\ stopped' = "no"
    BY <1>4 DEF StartSession, Provider!Execute, Provider!Recover
  <2> QED BY <1>4, <2>1 DEF StartSession, Call, Promise!Ask
<1>5. CASE StartWorkspace
  <2>1. kind = "workspace" /\ UNCHANGED <<kind, searchAborted>>
    BY <1>5 DEF StartWorkspace, Work!Search, Work!ReadText
  <2> QED BY <1>1, <1>5, <2>1 DEF StartWorkspace, Call, Promise!Ask
<1>6. CASE ProcessStep
  <2>1. /\ kind # "provider" /\ kind # "workspace"
        /\ UNCHANGED <<kind, desk, given>>
    BY <1>6 DEF ProcessStep, OfProcess, call
  <2>2. CASE Abort
    BY <2>1, <2>2 DEF Abort, Promise!Abort
  <2>3. CASE Supervise \/ System
    <3>1. UNCHANGED aborted
      BY <2>3
      DEF Supervise, SpawnError, TimerFires, Close, GroupKill, GraceEnds,
          PoliteTaskkill, ForcedTaskkill, System, Data, Fork, ChildExits,
          DescendantExits, events
    <3> QED BY <2>1, <3>1 DEF Promise!vars
  <2> QED BY <1>6, <2>2, <2>3 DEF ProcessStep
<1>7. CASE SessionStep
  <2>1. kind = "provider" /\ UNCHANGED <<kind, desk, given>>
    BY <1>7 DEF SessionStep, call
  <2>2. CASE Provider!StreamStep
    <3>1. UNCHANGED stopped
      BY <2>2
      DEF Provider!StreamStep, Provider!Retry, Provider!TransportFails,
          Provider!ChunkRefused, Provider!ChunkArrives
    <3> QED BY <2>1, <3>1 DEF Promise!vars
  <2>3. ASSUME NEW how \in {"abort", "timeout"}, Provider!Stop(how)
        PROVE  Promise!Abort \/ UNCHANGED Promise!vars
    <3>1. stopped = "no" /\ stopped' = how
      BY <2>3 DEF Provider!Stop, AnswerInv, StopInv
    <3> QED BY <2>1, <3>1 DEF Promise!Abort, Promise!vars
  <2> QED BY <1>7, <2>2, <2>3 DEF SessionStep
<1>8. CASE SessionLost
  <2>1. /\ kind = "provider" /\ stopped = "no" /\ stopped' = "no"
        /\ desk = "called" /\ desk' = "idle" /\ UNCHANGED <<kind, given>>
    BY <1>8 DEF SessionLost, Provider!Crash, AnswerInv, StopInv, DeskInv
  <2> QED BY <2>1 DEF Promise!Lose
<1>9. CASE WorkspaceStep
  <2>1. UNCHANGED <<kind, desk, given, aborted>> /\ kind # "provider"
    BY <1>9 DEF WorkspaceStep, call, vars, events
  <2>2. CASE kind = "workspace" /\ Work!Abort
    BY <2>1, <2>2 DEF Work!Abort, Promise!Abort
  <2>3. CASE ~(kind = "workspace" /\ Work!Abort)
    <3>1. kind = "workspace" => Work!Next /\ ~Work!Abort
      BY <1>9, <2>3 DEF WorkspaceStep, Work!Next
    <3>2. kind = "workspace" => UNCHANGED searchAborted
      BY <3>1, SearchKeepsOutcome DEF AnswerInv
    <3> QED BY <2>1, <3>2 DEF Promise!vars
  <2> QED BY <2>2, <2>3
<1>10. CASE Give
  <2>1. Promise!Promised(given')
    BY <1>10, ProcessAnswersAsPromised, SessionAnswersAsPromised,
       WorkspaceAnswersAsPromised DEF Give, OfProcess
  <2>2. UNCHANGED <<kind, aborted, searchAborted, stopped>>
    BY <1>10 DEF Give, vars, events, session, workspace
  <2> QED BY <1>10, <2>1, <2>2 DEF Give, Promise!Give
<1>11. CASE UNCHANGED dispatchVars
  BY <1>11 DEF dispatchVars, call, vars, events, session, workspace,
               Promise!vars
<1> QED BY <1>2, <1>3, <1>4, <1>5, <1>6, <1>7, <1>8, <1>9, <1>10, <1>11
        DEF DispatchNext

-----------------------------------------------------------------------------
(* The theorems about the dispatchers                                      *)

\* The invariant of the machines and of the call, of every dispatcher
\* (process-dispatcher.ts, provider-step-dispatcher.ts, dispatchers.ts).
THEOREM AnswersInOrder == DispatchSpec => []AnswerInv
<1>1. DispatchInit => AnswerInv
  BY InitAnswers
<1>2. AnswerInv /\ [DispatchNext]_dispatchVars => AnswerInv'
  BY NextAnswers
<1> QED BY <1>1, <1>2, PTL DEF DispatchSpec

\* Every dispatcher implements what the runtime takes for granted
\* (dispatcher-registry.ts, runtime-engine.ts): one answer to a call, a success
\* only of a tree that has ended, a cancellation only after an abort, and a
\* remote state that agrees with the outcome.
THEOREM DispatchersKeepPromises == DispatchSpec => AnswersAsPromised
<1>1. DispatchInit => Promise!Init
  BY InitPromises
<1>2. AnswerInv /\ [DispatchNext]_dispatchVars
        => [\/ Promise!Ask \/ Promise!Abort
            \/ Promise!Give \/ Promise!Lose]_(Promise!vars)
  BY StepsAsPromised
<1> QED BY <1>1, <1>2, AnswersInOrder, PTL
        DEF DispatchSpec, AnswersAsPromised, Promise!Spec

\* What a provider session has put together is a beginning of the response,
\* within the budgets, and a success has all of it, however often sessions
\* were stopped, retried and resumed from a checkpoint, a stale one included
\* (reference-provider.ts).
THEOREM ResponsesAreWhole == DispatchSpec => []ResponseIsWhole
<1>1. DispatchInit => ResponseInv
  BY InitAnswers
<1>2. ResponseInv /\ [DispatchNext]_dispatchVars => ResponseInv'
  BY SessionKeepsResponse
<1>3. ResponseInv => ResponseIsWhole
  BY DEF ResponseInv, Reached, ResponseIsWhole, Provider!ResponseIsWhole
<1> QED BY <1>1, <1>2, <1>3, PTL DEF DispatchSpec

\* The stream of a session tells exactly the chunks by which the response has
\* grown since its checkpoint, in order, and ends as the result says
\* (reference-provider.ts, adapter-host.ts).
THEOREM StreamsAreWellFormed == DispatchSpec => []StreamIsWellFormed
<1>1. DispatchInit => ResponseInv /\ StreamInv
  BY InitAnswers
<1>2. ResponseInv /\ StreamInv /\ [DispatchNext]_dispatchVars
        => ResponseInv' /\ StreamInv'
  BY SessionKeepsResponse, SessionKeepsStream
<1> QED BY <1>1, <1>2, StreamIsTold, PTL DEF DispatchSpec

\* What the watcher was told of and has not delivered is collected by its name,
\* or there is an event under the key of the overflow event, which only a change
\* of the file of that name can have replaced; and a delivery is due
\* (workspace-watcher.ts 63-87).
THEOREM WatchersCover == DispatchSpec => []WatcherCovers
<1>1. DispatchInit => WatcherCovers
  BY InitAnswers
<1>2. WatcherCovers /\ [DispatchNext]_dispatchVars => WatcherCovers'
  BY WatcherKeepsCovering
<1> QED BY <1>1, <1>2, PTL DEF DispatchSpec

-----------------------------------------------------------------------------
(* The search of a workspace: the inductive invariant                      *)

Frame == [dir : Dir, entry : Nat]

\* The tree does not change.  What is gone counts as changed, and what was in a
\* directory that is gone is gone with it.
TreeInv ==
  /\ Work!IsTree(tree)
  /\ content \in [Work!Listed -> Content]
  /\ gone \subseteq changed
  /\ \A d \in (gone \cap Dir) \ {Root} :
       Work!Range(tree[d]) \subseteq gone /\ Work!Range(tree[d]) \cap Dir \subseteq {d}

Findings ==
  [scanned : SUBSET File, bytes : Nat, matches : Nat, truncated : BOOLEAN]

\* A directory that is on the stack, or that was listed or is gone.
Met(d) ==
  d \in visited \cup gone \/ \E k \in DOMAIN stack : stack[k].dir = d

\* An entry that the listing need not come back to.
Passed(x) ==
  /\ x \in Dir => Met(x)
  /\ x \in File => x \in changed \cup Work!Range(files)

PassedUpTo(d, n) == \A i \in 1 .. n : Passed(tree[d][i])

\* Calls of visit() that have read their directory are each of another one.
StackInv ==
  /\ stack \in Seq(Frame) /\ visited \subseteq Dir
  /\ \A k \in DOMAIN stack :
       /\ stack[k].entry <= Len(tree[stack[k].dir]) + 1
       /\ stack[k].entry = 0 => k = Len(stack)
       /\ stack[k].entry > 0 => stack[k].dir \in visited
  /\ \A j, k \in DOMAIN stack :
       stack[j].dir = stack[k].dir /\ stack[j].entry > 0 /\ stack[k].entry > 0
         => j = k

\* Where a candidate was listed: the call that did is done or beyond it.
FoundAt(f, d, i) ==
  /\ i \in DOMAIN tree[d] /\ tree[d][i] = f
  /\ \A k \in DOMAIN stack :
       stack[k].dir = d /\ stack[k].entry > 0 => i < stack[k].entry

Distinct(s) == \A i, j \in DOMAIN s : s[i] = s[j] => i = j

ListedInv ==
  /\ files \in Seq(File) /\ Distinct(files)
  /\ \A f \in Work!Range(files) :
       \E d \in visited : \E i \in DOMAIN tree[d] : FoundAt(f, d, i)

\* While nothing was cut, the listing has passed all that it is beyond.
PassedInv ==
  ~found.truncated /\ Root \notin gone =>
    /\ Met(Root)
    /\ \A d \in visited :
         \/ PassedUpTo(d, Len(tree[d]))
         \/ \E k \in DOMAIN stack :
              /\ stack[k].dir = d /\ stack[k].entry > 0
              /\ PassedUpTo(d, stack[k].entry - 1)

ListingInv ==
  /\ StackInv /\ ListedInv /\ PassedInv
  /\ found \in Findings /\ found.scanned = {} /\ found.matches = 0

Hits == [f \in Work!Listed |-> content[f].matches]

\* While nothing was cut, what was left alone is read or will be, and the
\* matches are those of what is read.
ReadingInv ==
  /\ files \in Seq(Work!Listed) /\ Distinct(files)
  /\ found \in Findings
  /\ found.scanned \subseteq Work!Listed \ Work!Range(files)
  /\ IsFiniteSet(found.scanned)
  /\ searchAt \in {"opening", "reading"} => files # <<>>
  /\ ~found.truncated /\ Root \notin gone =>
       /\ \A f \in Work!Listed \ changed :
            content[f].text => f \in found.scanned \cup Work!Range(files)
       /\ searchAt = "reading" /\ Head(files) \notin changed =>
            content[Head(files)].size <= MaxFileBytes
  /\ ~found.truncated /\ changed = {} =>
       /\ \A f \in found.scanned : content[f].text
       /\ found.matches = SumFunctionOnSet(Hits, found.scanned)

Ended == searchAt = "done" /\ searched = "succeeded"

HonestInv ==
  /\ TreeInv
  /\ searchAt \in {"idle", "listing", "next", "opening", "reading", "done", "read"}
  /\ searchAt = "idle" =>
       stack = <<>> /\ visited = {} /\ files = <<>> /\ found = Work!NothingFound
  /\ searchAt = "listing" => ListingInv
  /\ searchAt \in {"next", "opening", "reading"} \/ Ended => ReadingInv
  /\ Ended => files = <<>>

-----------------------------------------------------------------------------
(* Files in order, and the tree                                            *)

\* The workspace counts and adds up as the libraries do.
LEMMA SameOperators ==
  ASSUME NEW S, NEW f
  PROVE  /\ Work!Cardinality(S) = Cardinality(S)
         /\ Work!SumFunctionOnSet(f, S) = SumFunctionOnSet(f, S)
<1>1. Work!Cardinality(S) = Cardinality(S)
  BY DEF Work!Cardinality, Cardinality
<1>2. Work!SumFunctionOnSet(f, S) = SumFunctionOnSet(f, S)
  BY DEF Work!SumFunctionOnSet, Work!FoldFunctionOnSet, Work!MapThenFoldSet,
         SumFunctionOnSet, FoldFunctionOnSet, MapThenFoldSet
<1> QED BY <1>1, <1>2

\* Files in the order of their paths are all of them, each once.
LEMMA InOrderFacts ==
  ASSUME NEW S \in SUBSET Nat, IsFiniteSet(S)
  PROVE  /\ Work!InOrder(S) \in Seq(S) /\ Distinct(Work!InOrder(S))
         /\ Work!Range(Work!InOrder(S)) = S
<1> DEFINE n == Cardinality(S)
           below(f) == {g \in S : g <= f}
           place == [f \in S |-> Cardinality(below(f))]
           chosen(i) == CHOOSE f \in S : Cardinality(below(f)) = i
<1>1. n \in Nat /\ IsFiniteSet(1 .. n) /\ Cardinality(1 .. n) = n
  BY FS_CardinalityType, FS_Interval
<1>2. ASSUME NEW f \in S
      PROVE  IsFiniteSet(below(f)) /\ Cardinality(below(f)) \in 1 .. n
  <2>1. IsFiniteSet(below(f)) /\ Cardinality(below(f)) <= n
    BY FS_Subset
  <2>2. below(f) # {} /\ Cardinality(below(f)) \in Nat
    BY <2>1, FS_CardinalityType
  <2>3. Cardinality(below(f)) # 0
    BY <2>1, <2>2, FS_EmptySet
  <2> QED BY <1>1, <2>1, <2>2, <2>3
<1>3. ASSUME NEW f \in S, NEW g \in S, f < g
      PROVE  place[f] # place[g]
  <2>1. below(f) \subseteq below(g) /\ g \in below(g) /\ g \notin below(f)
    <3>1. f \in Nat /\ g \in Nat /\ f < g /\ ~(g <= f) /\ g <= g
      BY <1>3
    <3>2. ASSUME NEW h \in below(f) PROVE h \in below(g)
      <4>1. h \in S /\ h \in Nat /\ h <= f
        OBVIOUS
      <4> QED BY <3>1, <4>1
    <3> QED BY <3>1, <3>2
  <2>2. Cardinality(below(f)) < Cardinality(below(g))
    <3>1. Cardinality(below(f)) <= Cardinality(below(g) \ {g})
      BY <1>2, <2>1, FS_Subset, FS_RemoveElement
    <3>2. Cardinality(below(g) \ {g}) = Cardinality(below(g)) - 1
      BY <1>2, <2>1, FS_RemoveElement
    <3>3. Cardinality(below(f)) \in Nat /\ Cardinality(below(g)) \in Nat
      <4> HIDE DEF below, n
      <4> QED BY <1>1, <1>2
    <3> QED BY <3>1, <3>2, <3>3
  <2> HIDE DEF below, n
  <2> QED BY <1>1, <1>2, <2>2
<1>4. place \in Injection(S, 1 .. n)
  <2> HIDE DEF n
  <2>1. place \in [S -> 1 .. n]
    BY <1>2
  <2>2. \A f, g \in S : place[f] = place[g] => f = g
    BY <1>3
  <2> HIDE DEF place
  <2> QED BY <2>1, <2>2, Fun_IsInj
<1>5. place \in Surjection(S, 1 .. n)
  <2> HIDE DEF place
  <2> QED BY <1>1, <1>4, FS_Injection
<1>6. \A i \in 1 .. n : \E f \in S : place[f] = i
  <2> HIDE DEF place, n
  <2> QED BY <1>5 DEF Surjection
<1>7. \A i \in 1 .. n : chosen(i) \in S /\ place[chosen(i)] = i
  <2> SUFFICES ASSUME NEW i \in 1 .. n
               PROVE  chosen(i) \in S /\ place[chosen(i)] = i
    OBVIOUS
  <2>1. \E f \in S : Cardinality(below(f)) = i
    BY <1>6
  <2> QED BY <2>1
<1>8. \A f \in S : \E i \in 1 .. n : chosen(i) = f
  <2> SUFFICES ASSUME NEW f \in S PROVE \E i \in 1 .. n : chosen(i) = f
    OBVIOUS
  <2>1. place[f] \in 1 .. n
    BY <1>2
  <2>2. chosen(place[f]) \in S /\ place[chosen(place[f])] = place[f]
    <3> HIDE DEF chosen, place, n
    <3> QED BY <1>7, <2>1
  <2>3. \A g \in S : place[g] = place[f] => g = f
    <3> HIDE DEF place
    <3> QED BY <1>3
  <2> HIDE DEF chosen, place, n
  <2> QED BY <2>1, <2>2, <2>3
<1>9. Work!InOrder(S) = [i \in 1 .. n |-> chosen(i)]
  BY DEF Work!InOrder, Work!Cardinality, Cardinality
<1> HIDE DEF chosen, place, n
<1>10. Work!InOrder(S) \in Seq(S)
  BY <1>1, <1>7, <1>9
<1>11. Distinct(Work!InOrder(S))
  BY <1>7, <1>9 DEF Distinct
<1>12. Work!Range(Work!InOrder(S)) = S
  <2> DEFINE s == Work!InOrder(S)
  <2>1. DOMAIN s = 1 .. n /\ \A i \in 1 .. n : s[i] = chosen(i)
    BY <1>9
  <2>2. Work!Range(s) = {s[i] : i \in 1 .. n}
    BY <2>1 DEF Work!Range
  <2> HIDE DEF s
  <2>3. S \subseteq Work!Range(s)
    BY <1>8, <2>1, <2>2
  <2>4. Work!Range(s) \subseteq S
    BY <1>7, <2>1, <2>2
  <2> QED BY <2>3, <2>4 DEF s
<1> QED BY <1>10, <1>11, <1>12

\* What becomes of the tree.
LEMMA TreeStays ==
  ASSUME TreeInv, Work!Next
  PROVE  TreeInv'
<1>1. CASE Work!Disk
  <2>1. ASSUME NEW f \in Work!Listed, Work!Modify(f)
        PROVE  TreeInv'
    <3>1. /\ tree' = tree /\ gone' = gone /\ changed' = changed \cup {f}
          /\ \E c \in Content : content' = [content EXCEPT ![f] = c]
      BY <2>1 DEF Work!Modify, Work!Change
    <3>2. Work!Listed' = Work!Listed
      BY <3>1 DEF Work!Listed
    <3> QED BY <3>1, <3>2 DEF TreeInv
  <2>2. ASSUME NEW e \in Dir \cup Work!Listed, Work!Vanish(e)
        PROVE  TreeInv'
    <3> DEFINE lost == IF e \in Dir \ {Root} THEN {e} \cup Work!Range(tree[e])
                       ELSE {e}
    <3>1. /\ tree' = tree /\ content' = content /\ gone' = gone \cup lost
          /\ gone' \subseteq changed'
          /\ lost \subseteq File \cup {e}
      BY <2>2 DEF Work!Vanish, Work!Change, TreeInv
    <3>2. Work!Listed' = Work!Listed
      BY <3>1 DEF Work!Listed
    <3>3. Dir \cap File = {}
      BY DispatchAssumption DEF Work!WorkspaceParameters
    <3>4. ASSUME NEW d \in (gone' \cap Dir) \ {Root}
          PROVE  /\ Work!Range(tree[d]) \subseteq gone'
                 /\ Work!Range(tree[d]) \cap Dir \subseteq {d}
      BY <3>1, <3>3, <3>4 DEF TreeInv
    <3> QED BY <3>1, <3>2, <3>4 DEF TreeInv
  <2> QED BY <1>1, <2>1, <2>2 DEF Work!Disk
<1>2. CASE Work!Search
  BY <1>2 DEF Work!Search, TreeInv, Work!Listed
<1>3. CASE UNCHANGED Work!disk
  BY <1>3 DEF Work!disk, TreeInv, Work!Listed
<1> QED BY <1>1, <1>2, <1>3
        DEF Work!Next, Work!ReadText, Work!Abort, Work!SearchStep,
            Work!Watcher, Work!Watch, Work!Close, Work!Deliver,
            Work!NotifiedAgain, Work!Enter,
            Work!EntryFails, Work!EnterDirectory, Work!ListFile,
            Work!EndOfDirectory, Work!EndOfListing, Work!NextFile,
            Work!OpenFile, Work!ReadFile, Work!Finish, Work!disk

-----------------------------------------------------------------------------
(* The calls of visit()                                                    *)

\* The last call returns, goes on to an entry, or calls another.
Popped ==
  /\ stack' \in Seq(Frame) /\ Len(stack') = Len(stack) - 1
  /\ \A k \in 1 .. Len(stack) - 1 : stack'[k] = stack[k]

Moved(entry) ==
  /\ stack' \in Seq(Frame) /\ Len(stack') = Len(stack)
  /\ \A k \in 1 .. Len(stack) - 1 : stack'[k] = stack[k]
  /\ stack'[Len(stack)] = [dir |-> stack[Len(stack)].dir, entry |-> entry]

Pushed(d) ==
  /\ stack' \in Seq(Frame) /\ Len(stack') = Len(stack) + 1
  /\ \A k \in 1 .. Len(stack) - 1 : stack'[k] = stack[k]
  /\ stack'[Len(stack)] = [dir |-> stack[Len(stack)].dir,
                           entry |-> stack[Len(stack)].entry + 1]
  /\ stack'[Len(stack) + 1] = [dir |-> d, entry |-> 0]

\* A sequence and one more.
LEMMA Appended ==
  ASSUME NEW S, NEW s \in Seq(S), NEW x \in S, NEW n \in Nat, Len(s) + 1 = n
  PROVE  /\ Append(s, x) \in Seq(S) /\ Len(Append(s, x)) = n
         /\ \A k \in 1 .. n - 1 : Append(s, x)[k] = s[k]
         /\ Append(s, x)[n] = x
<1>1. /\ Len(s) \in Nat /\ n - 1 = Len(s)
      /\ Append(s, x) \in Seq(S) /\ Len(Append(s, x)) = Len(s) + 1
      /\ \A k \in 1 .. Len(s) : Append(s, x)[k] = s[k]
      /\ Append(s, x)[Len(s) + 1] = x
  OBVIOUS
<1> QED BY <1>1

\* The call of visit() that runs, and what may become of it.
LEMMA CallFacts ==
  ASSUME StackInv, stack # <<>>
  PROVE  /\ Len(stack) \in Nat \ {0} /\ DOMAIN stack = 1 .. Len(stack)
         /\ Work!Running = stack[Len(stack)]
         /\ stack[Len(stack)] \in Frame
         /\ stack[Len(stack)].dir \in Dir /\ stack[Len(stack)].entry \in Nat
         /\ Work!Return => Popped
         /\ \A e \in Nat : stack' = Work!Goto(e) => Moved(e)
         /\ \A d \in Dir :
              stack' = Append(Work!Goto(stack[Len(stack)].entry + 1),
                              [dir |-> d, entry |-> 0])
                => Pushed(d)
<1> DEFINE n == Len(stack)
<1>1. /\ stack \in Seq(Frame) /\ n \in Nat \ {0} /\ DOMAIN stack = 1 .. n
      /\ stack[n] \in Frame /\ \A k \in 1 .. n : stack[k] \in Frame
  BY EmptySeq, ElementOfSeq DEF StackInv
<1>2. stack[n].dir \in Dir /\ stack[n].entry \in Nat
  BY <1>1 DEF Frame
<1>3. Work!Running = stack[n]
  BY DEF Work!Running, Work!Last
<1> DEFINE front == Work!Front(stack)
<1>4. /\ front \in Seq(Frame) /\ Len(front) = n - 1
      /\ \A k \in 1 .. n - 1 : front[k] = stack[k]
  <2>1. front = SubSeq(stack, 1, n - 1)
    BY DEF Work!Front
  <2>2. /\ 1 \in Int /\ n - 1 \in Int
        /\ \A k \in 1 .. n - 1 : stack[k] \in Frame
    BY <1>1
  <2>3. /\ SubSeq(stack, 1, n - 1) \in Seq(Frame)
        /\ Len(SubSeq(stack, 1, n - 1)) = IF 1 <= n - 1 THEN n - 1 - 1 + 1 ELSE 0
        /\ \A k \in 1 .. n - 1 - 1 + 1 :
             SubSeq(stack, 1, n - 1)[k] = stack[1 + k - 1]
    BY <2>2, SubSeqProperties
  <2> HIDE DEF front
  <2> QED BY <1>1, <2>1, <2>3
<1>5. Work!Return => Popped
  BY <1>4 DEF Work!Return, Popped
<1> HIDE DEF front
<1>6. ASSUME NEW e \in Nat
      PROVE  /\ Work!Goto(e) = Append(front, [dir |-> stack[n].dir, entry |-> e])
             /\ Work!Goto(e) \in Seq(Frame) /\ Len(Work!Goto(e)) = n
             /\ \A k \in 1 .. n - 1 : Work!Goto(e)[k] = stack[k]
             /\ Work!Goto(e)[n] = [dir |-> stack[n].dir, entry |-> e]
  <2>1. [stack[n] EXCEPT !.entry = e] = [dir |-> stack[n].dir, entry |-> e]
    BY <1>1 DEF Frame
  <2>2. [dir |-> stack[n].dir, entry |-> e] \in Frame
    BY <1>2 DEF Frame
  <2>3. Work!Goto(e) = Append(front, [dir |-> stack[n].dir, entry |-> e])
    BY <1>3, <2>1 DEF Work!Goto, front
  <2>4. Len(front) + 1 = n /\ n \in Nat
    BY <1>1, <1>4
  <2> HIDE DEF n
  <2>5. /\ Work!Goto(e) \in Seq(Frame) /\ Len(Work!Goto(e)) = n
        /\ \A k \in 1 .. n - 1 : Work!Goto(e)[k] = front[k]
        /\ Work!Goto(e)[n] = [dir |-> stack[n].dir, entry |-> e]
    BY <1>4, <2>2, <2>3, <2>4, Appended
  <2> QED BY <1>4, <2>3, <2>5
<1>7. \A e \in Nat : stack' = Work!Goto(e) => Moved(e)
  BY <1>6 DEF Moved
<1>8. ASSUME NEW d \in Dir,
             stack' = Append(Work!Goto(stack[n].entry + 1),
                             [dir |-> d, entry |-> 0])
      PROVE  Pushed(d)
  <2>1. PICK e \in Nat : e = stack[n].entry + 1
    BY <1>2
  <2>2. PICK moved : moved = Work!Goto(e)
    OBVIOUS
  <2>3. /\ moved \in Seq(Frame) /\ Len(moved) = n
        /\ \A k \in 1 .. n - 1 : moved[k] = stack[k]
        /\ moved[n] = [dir |-> stack[n].dir, entry |-> e]
    BY <1>6, <2>2
  <2>4. stack' = Append(moved, [dir |-> d, entry |-> 0])
    BY <1>8, <2>1, <2>2
  <2>5. [dir |-> d, entry |-> 0] \in Frame
    BY DEF Frame
  <2>6. /\ stack' \in Seq(Frame) /\ Len(stack') = n + 1
        /\ \A k \in 1 .. n : stack'[k] = moved[k]
        /\ stack'[n + 1] = [dir |-> d, entry |-> 0]
    BY <1>1, <2>3, <2>4, <2>5
  <2> QED BY <1>1, <2>1, <2>3, <2>6 DEF Pushed
<1> QED BY <1>1, <1>2, <1>3, <1>5, <1>7, <1>8

\* Each of them keeps the stack in order.
LEMMA PopKeepsStack ==
  ASSUME StackInv, stack # <<>>, Popped, UNCHANGED <<tree, visited>>
  PROVE  StackInv'
<1>1. /\ Len(stack) \in Nat \ {0} /\ DOMAIN stack = 1 .. Len(stack)
      /\ DOMAIN stack' = 1 .. Len(stack) - 1
  BY CallFacts DEF Popped
<1>2. \A k \in DOMAIN stack' : k \in DOMAIN stack /\ stack'[k] = stack[k]
                               /\ k # Len(stack)
  BY <1>1 DEF Popped
<1> QED BY <1>1, <1>2 DEF StackInv, Popped

LEMMA MoveKeepsStack ==
  ASSUME StackInv, stack # <<>>, NEW entry \in Nat \ {0}, Moved(entry),
         tree' = tree, visited \subseteq visited', visited' \subseteq Dir,
         stack[Len(stack)].dir \in visited',
         stack[Len(stack)].entry = 0 => stack[Len(stack)].dir \notin visited,
         entry <= Len(tree[stack[Len(stack)].dir]) + 1
  PROVE  StackInv'
<1> DEFINE n == Len(stack)
           d == stack[n].dir
<1>1. /\ n \in Nat \ {0} /\ DOMAIN stack = 1 .. n /\ DOMAIN stack' = 1 .. n
      /\ \A k \in 1 .. n - 1 : stack'[k] = stack[k]
      /\ stack'[n].dir = d /\ stack'[n].entry = entry
      /\ Len(stack') = n /\ stack' \in Seq(Frame)
  BY CallFacts DEF Moved
<1>2. \A k \in 1 .. n - 1 : stack[k].entry # 0 /\ stack[k].entry \in Nat
                            /\ stack[k].dir \in visited
  <2> SUFFICES ASSUME NEW k \in 1 .. n - 1
               PROVE  stack[k].entry # 0 /\ stack[k].entry \in Nat
                      /\ stack[k].dir \in visited
    OBVIOUS
  <2>1. k \in DOMAIN stack /\ k # n /\ stack[k] \in Frame
    BY <1>1 DEF StackInv
  <2> QED BY <2>1 DEF StackInv, Frame
<1>3. \A k \in 1 .. n - 1 : stack[k].dir # d
  <2> SUFFICES ASSUME NEW k \in 1 .. n - 1, stack[k].dir = d PROVE FALSE
    OBVIOUS
  <2>1. k \in DOMAIN stack /\ n \in DOMAIN stack /\ k # n
    <3> HIDE DEF n
    <3> QED BY <1>1
  <2>2. stack[n].entry \in Nat /\ d \in visited
    BY <1>2, CallFacts
  <2>3. stack[n].entry > 0 /\ stack[k].entry > 0
    BY <1>2, <2>2
  <2> QED BY <2>1, <2>3 DEF StackInv
<1>4. ASSUME NEW k \in DOMAIN stack'
      PROVE  /\ stack'[k].entry <= Len(tree[stack'[k].dir]) + 1
             /\ stack'[k].entry = 0 => k = n
             /\ stack'[k].entry > 0 => stack'[k].dir \in visited'
  <2>1. CASE k = n
    BY <1>1, <2>1
  <2>2. CASE k # n
    <3>1. k \in 1 .. n - 1 /\ k \in DOMAIN stack
      BY <1>1, <2>2
    <3> QED BY <1>1, <1>2, <3>1 DEF StackInv
  <2> QED BY <2>1, <2>2
<1>5. ASSUME NEW j \in DOMAIN stack', NEW k \in DOMAIN stack',
             stack'[j].dir = stack'[k].dir
      PROVE  j = k
  <2> HIDE DEF d
  <2>1. CASE j = n \/ k = n
    BY <1>1, <1>3, <1>5, <2>1
  <2>2. CASE j # n /\ k # n
    <3>1. j \in 1 .. n - 1 /\ k \in 1 .. n - 1
      BY <1>1, <2>2
    <3>2. /\ stack[j].entry > 0 /\ stack[k].entry > 0
          /\ j \in DOMAIN stack /\ k \in DOMAIN stack
      BY <1>1, <1>2, <3>1
    <3> QED BY <1>1, <1>5, <3>1, <3>2 DEF StackInv
  <2> QED BY <2>1, <2>2
<1> HIDE DEF n, d
<1> QED BY <1>1, <1>4, <1>5 DEF StackInv, n

LEMMA PushKeepsStack ==
  ASSUME StackInv, stack # <<>>, NEW d \in Dir, Pushed(d),
         UNCHANGED <<tree, visited>>,
         stack[Len(stack)].entry \in DOMAIN tree[stack[Len(stack)].dir],
         tree \in [Dir -> Seq(Dir \cup File)]
  PROVE  StackInv'
<1> DEFINE n == Len(stack)
           e == stack[n].entry
<1>1. /\ n \in Nat \ {0} /\ DOMAIN stack = 1 .. n
      /\ DOMAIN stack' = 1 .. n + 1
      /\ \A k \in 1 .. n - 1 : stack'[k] = stack[k]
      /\ stack'[n].dir = stack[n].dir /\ stack'[n].entry = e + 1
      /\ stack'[n + 1].entry = 0 /\ stack'[n + 1].dir = d
      /\ Len(stack') = n + 1 /\ stack' \in Seq(Frame)
  BY CallFacts DEF Pushed
<1>2. /\ e \in 1 .. Len(tree[stack[n].dir]) /\ e \in Nat
      /\ Len(tree[stack[n].dir]) \in Nat /\ tree[d] \in Seq(Dir \cup File)
      /\ Len(tree[d]) \in Nat
  BY CallFacts
<1>3. ASSUME NEW k \in 1 .. n
      PROVE  /\ stack'[k].dir = stack[k].dir
             /\ stack[k].entry > 0 /\ stack'[k].entry > 0
             /\ stack'[k].entry # 0
             /\ stack'[k].entry <= Len(tree[stack[k].dir]) + 1
             /\ k \in DOMAIN stack
  <2>1. CASE k = n
    BY <1>1, <1>2, <2>1
  <2>2. CASE k # n
    <3>1. k \in 1 .. n - 1 /\ k \in DOMAIN stack
      <4> HIDE DEF n
      <4> QED BY <1>1, <2>2
    <3>2. stack[k].entry \in Nat
      <4>1. stack[k] \in Frame
        BY <3>1 DEF StackInv
      <4> QED BY <4>1 DEF Frame
    <3>3. /\ stack'[k] = stack[k] /\ stack[k].entry # 0
          /\ stack[k].entry <= Len(tree[stack[k].dir]) + 1
      BY <1>1, <2>2, <3>1 DEF StackInv
    <3> HIDE DEF n, e
    <3> QED BY <3>1, <3>2, <3>3
  <2> QED BY <2>1, <2>2
<1>4. \A k \in DOMAIN stack' : k \in 1 .. n \/ k = n + 1
  BY <1>1
<1>5. ASSUME NEW k \in DOMAIN stack'
      PROVE  /\ stack'[k].entry <= Len(tree[stack'[k].dir]) + 1
             /\ stack'[k].entry = 0 => k = n + 1
             /\ stack'[k].entry > 0 => stack'[k].dir \in visited
  <2>1. CASE k = n + 1
    BY <1>1, <1>2, <2>1
  <2>2. CASE k \in 1 .. n
    BY <1>3, <2>2 DEF StackInv
  <2> QED BY <1>4, <2>1, <2>2
<1>6. ASSUME NEW j \in DOMAIN stack', NEW k \in DOMAIN stack',
             stack'[j].dir = stack'[k].dir,
             stack'[j].entry > 0, stack'[k].entry > 0
      PROVE  j = k
  <2>1. j # n + 1 /\ k # n + 1
    BY <1>1, <1>6
  <2>2. j \in 1 .. n /\ k \in 1 .. n
    BY <1>4, <2>1
  <2> QED BY <1>3, <1>6, <2>2 DEF StackInv
<1> HIDE DEF n, e
<1> QED BY <1>1, <1>5, <1>6 DEF StackInv, n

-----------------------------------------------------------------------------
(* What was listed, and what was passed                                    *)

\* No call goes back, and a directory that is read for the first time has no
\* candidates yet.
Onward ==
  \A k \in DOMAIN stack' : stack'[k].entry > 0 /\ stack'[k].dir \in visited =>
    \E j \in DOMAIN stack :
      /\ stack[j].dir = stack'[k].dir
      /\ stack[j].entry > 0 /\ stack[j].entry <= stack'[k].entry

LEMMA CallsGoOn ==
  ASSUME StackInv, stack # <<>>,
         \/ Popped
         \/ \E e \in Nat :
              /\ Moved(e) /\ stack[Len(stack)].entry <= e
              /\ stack[Len(stack)].entry = 0 =>
                   stack[Len(stack)].dir \notin visited
         \/ \E d \in Dir : stack[Len(stack)].entry > 0 /\ Pushed(d)
  PROVE  Onward
<1> DEFINE n == Len(stack)
<1>1. n \in Nat \ {0} /\ DOMAIN stack = 1 .. n /\ stack[n].entry \in Nat
  BY CallFacts
<1>2. \A k \in 1 .. n : stack[k].entry \in Nat
  <2> SUFFICES ASSUME NEW k \in 1 .. n PROVE stack[k].entry \in Nat
    OBVIOUS
  <2>1. stack[k] \in Frame
    BY <1>1 DEF StackInv
  <2> QED BY <2>1 DEF Frame
<1> SUFFICES ASSUME NEW k \in DOMAIN stack', stack'[k].entry > 0,
                    stack'[k].dir \in visited
             PROVE  \E j \in DOMAIN stack :
                      /\ stack[j].dir = stack'[k].dir
                      /\ stack[j].entry > 0 /\ stack[j].entry <= stack'[k].entry
  BY DEF Onward
<1>3. CASE k \in 1 .. n - 1 /\ stack'[k] = stack[k]
  <2>1. k \in 1 .. n
    <3> HIDE DEF n
    <3> QED BY <1>1, <1>3
  <2> QED BY <1>1, <1>2, <1>3, <2>1
<1>4. CASE Popped
  <2>1. DOMAIN stack' = 1 .. n - 1
    BY <1>1, <1>4 DEF Popped
  <2> QED BY <1>3, <1>4, <2>1 DEF Popped
<1>5. ASSUME NEW e \in Nat, Moved(e), stack[n].entry <= e,
             stack[n].entry = 0 => stack[n].dir \notin visited
      PROVE  \E j \in DOMAIN stack :
               /\ stack[j].dir = stack'[k].dir
               /\ stack[j].entry > 0 /\ stack[j].entry <= stack'[k].entry
  <2>1. DOMAIN stack' = 1 .. n
    BY <1>1, <1>5 DEF Moved
  <2>2. CASE k = n
    <3>1. stack'[k].dir = stack[n].dir /\ stack'[k].entry = e
      BY <1>5, <2>2 DEF Moved
    <3>2. stack[n].entry > 0 /\ n \in DOMAIN stack
      <4> HIDE DEF n
      <4> QED BY <1>1, <1>5, <3>1
    <3> QED BY <1>5, <3>1, <3>2
  <2>3. CASE k # n
    <3>1. k \in 1 .. n - 1
      <4> HIDE DEF n
      <4> QED BY <1>1, <2>1, <2>3
    <3> QED BY <1>3, <1>5, <3>1 DEF Moved
  <2> QED BY <2>2, <2>3
<1>6. ASSUME NEW d \in Dir, stack[n].entry > 0, Pushed(d)
      PROVE  \E j \in DOMAIN stack :
               /\ stack[j].dir = stack'[k].dir
               /\ stack[j].entry > 0 /\ stack[j].entry <= stack'[k].entry
  <2>1. DOMAIN stack' = 1 .. n + 1
    BY <1>1, <1>6 DEF Pushed
  <2>2. CASE k = n
    <3>1. /\ stack'[k].dir = stack[n].dir
          /\ stack'[k].entry = stack[n].entry + 1
      BY <1>6, <2>2 DEF Pushed
    <3>2. n \in DOMAIN stack
      <4> HIDE DEF n
      <4> QED BY <1>1
    <3> QED BY <1>1, <1>6, <3>1, <3>2
  <2>3. CASE k = n + 1
    <3>1. stack'[k].entry = 0
      BY <1>6, <2>3 DEF Pushed
    <3> QED BY <3>1
  <2>4. CASE k # n /\ k # n + 1
    <3>1. k \in 1 .. n - 1
      <4> HIDE DEF n
      <4> QED BY <1>1, <2>1, <2>4
    <3> QED BY <1>3, <1>6, <3>1 DEF Pushed
  <2> QED BY <2>2, <2>3, <2>4
<1> QED BY <1>4, <1>5, <1>6

\* A candidate stays where it was found.
LEMMA FoundStays ==
  ASSUME tree \in [Dir -> Seq(Dir \cup File)], StackInv, StackInv', Onward,
         tree' = tree, NEW d \in visited, NEW f, NEW i, FoundAt(f, d, i)
  PROVE  FoundAt(f, d, i)'
<1>1. d \in Dir /\ tree[d] \in Seq(Dir \cup File)
  BY DEF StackInv
<1>2. i \in DOMAIN tree[d] /\ tree[d][i] = f /\ i \in Nat
  BY <1>1 DEF FoundAt
<1>3. ASSUME NEW k \in DOMAIN stack', stack'[k].dir = d, stack'[k].entry > 0
      PROVE  i < stack'[k].entry
  <2>1. PICK j \in DOMAIN stack :
          /\ stack[j].dir = d
          /\ stack[j].entry > 0 /\ stack[j].entry <= stack'[k].entry
    BY <1>3 DEF Onward
  <2>2. i < stack[j].entry
    BY <2>1 DEF FoundAt
  <2>3. stack[j] \in Frame /\ stack'[k] \in Frame
    BY <2>1, <1>3 DEF StackInv
  <2>4. stack[j].entry \in Nat /\ stack'[k].entry \in Nat
    BY <2>3 DEF Frame
  <2> QED BY <1>2, <2>1, <2>2, <2>4
<1> QED BY <1>2, <1>3 DEF FoundAt

\* So do all of them, when nothing is listed.
LEMMA ListedStays ==
  ASSUME tree \in [Dir -> Seq(Dir \cup File)], StackInv, StackInv', Onward,
         tree' = tree, visited \subseteq visited', files' = files, ListedInv
  PROVE  ListedInv'
<1> SUFFICES ASSUME NEW f \in Work!Range(files)
             PROVE  \E d \in visited' : \E i \in DOMAIN tree[d] : FoundAt(f, d, i)'
  BY DEF ListedInv, Distinct, Work!Range
<1>1. PICK d \in visited : \E i \in DOMAIN tree[d] : FoundAt(f, d, i)
  BY DEF ListedInv
<1>2. PICK i \in DOMAIN tree[d] : FoundAt(f, d, i)
  BY <1>1
<1>3. FoundAt(f, d, i)'
  BY <1>2, FoundStays
<1> QED BY <1>2, <1>3

\* What was passed stays so.
LEMMA PassingStays ==
  ASSUME visited \subseteq visited', gone \subseteq gone',
         changed \subseteq changed',
         Work!Range(files) \subseteq Work!Range(files)',
         \A k \in DOMAIN stack :
           \/ stack[k].dir \in visited'
           \/ \E j \in DOMAIN stack' : stack'[j].dir = stack[k].dir
  PROVE  /\ \A d : Met(d) => Met(d)'
         /\ \A x : Passed(x) => Passed(x)'
<1>1. \A d : Met(d) => Met(d)'
  BY DEF Met
<1> QED BY <1>1 DEF Passed

\* The listing has passed all of what a call did, if the call is at its end or
\* goes on, from the entry it was at or from the next, the one being passed.
Carried(d, e) ==
  \/ e = Len(tree[d]) + 1
  \/ \E j \in DOMAIN stack' :
       /\ stack'[j].dir = d
       /\ \/ stack'[j].entry = e
          \/ stack'[j].entry = e + 1 /\ Passed(tree[d][e])'

LEMMA PassesOn ==
  ASSUME tree \in [Dir -> Seq(Dir \cup File)], StackInv, PassedInv,
         tree' = tree, visited \subseteq visited', gone \subseteq gone',
         changed \subseteq changed',
         Work!Range(files) \subseteq Work!Range(files)',
         ~found'.truncated => ~found.truncated,
         \A k \in DOMAIN stack :
           /\ \/ stack[k].dir \in visited'
              \/ \E j \in DOMAIN stack' : stack'[j].dir = stack[k].dir
           /\ \A d \in visited : \A e \in Nat \ {0} :
                stack[k].dir = d /\ stack[k].entry = e => Carried(d, e),
         \A d \in visited' \ visited :
           \E j \in DOMAIN stack' : stack'[j].dir = d /\ stack'[j].entry = 1
  PROVE  PassedInv'
<1> SUFFICES ASSUME ~found'.truncated, Root \notin gone'
             PROVE  /\ Met(Root)'
                    /\ \A d \in visited' :
                         \/ PassedUpTo(d, Len(tree[d]))'
                         \/ \E k \in DOMAIN stack' :
                              /\ stack'[k].dir = d /\ stack'[k].entry > 0
                              /\ PassedUpTo(d, stack[k].entry - 1)'
  BY DEF PassedInv
<1>1. /\ \A d : Met(d) => Met(d)'
      /\ \A x : Passed(x) => Passed(x)'
  BY PassingStays
<1>2. Met(Root)'
  BY <1>1 DEF PassedInv
<1>3. ASSUME NEW d \in visited' \ visited
      PROVE  \E k \in DOMAIN stack' :
               /\ stack'[k].dir = d /\ stack'[k].entry > 0
               /\ PassedUpTo(d, stack[k].entry - 1)'
  <2>1. PICK k \in DOMAIN stack' : stack'[k].dir = d /\ stack'[k].entry = 1
    OBVIOUS
  <2>2. PassedUpTo(d, stack[k].entry - 1)'
    BY <2>1 DEF PassedUpTo
  <2> QED BY <2>1, <2>2
<1>4. \A d, n : PassedUpTo(d, n) => PassedUpTo(d, n)'
  BY <1>1 DEF PassedUpTo
<1>5. ASSUME NEW d \in visited
      PROVE  \/ PassedUpTo(d, Len(tree[d]))'
             \/ \E k \in DOMAIN stack' :
                  /\ stack'[k].dir = d /\ stack'[k].entry > 0
                  /\ PassedUpTo(d, stack[k].entry - 1)'
  <2>1. CASE PassedUpTo(d, Len(tree[d]))
    BY <2>1, <1>1 DEF PassedUpTo
  <2>2. CASE ~PassedUpTo(d, Len(tree[d]))
    <3>1. PICK k \in DOMAIN stack :
            /\ stack[k].dir = d /\ stack[k].entry > 0
            /\ PassedUpTo(d, stack[k].entry - 1)
      BY <2>2 DEF PassedInv
    <3>2. stack[k] \in Frame /\ stack[k].entry \in Nat
      <4>1. stack[k] \in Frame
        BY <3>1 DEF StackInv
      <4> QED BY <4>1 DEF Frame
    <3>3. d \in Dir /\ Len(tree[d]) \in Nat
      BY DEF StackInv
    <3>4. stack[k].entry # Len(tree[d]) + 1
      <4> SUFFICES ASSUME stack[k].entry = Len(tree[d]) + 1 PROVE FALSE
        OBVIOUS
      <4>1. stack[k].entry - 1 = Len(tree[d])
        BY <3>3
      <4> QED BY <2>2, <3>1, <4>1
    <3>5. PICK e \in Nat \ {0} : e = stack[k].entry
      BY <3>1, <3>2
    <3>6. Carried(d, e)
      BY <3>1, <3>5
    <3>7. PICK j \in DOMAIN stack' :
            /\ stack'[j].dir = d
            /\ \/ stack'[j].entry = e
               \/ stack'[j].entry = e + 1 /\ Passed(tree[d][e])'
      BY <3>4, <3>5, <3>6 DEF Carried
    <3>8. stack'[j].entry > 0
      BY <3>5, <3>7
    <3>9. PassedUpTo(d, stack[j].entry - 1)'
      <4>1. ASSUME NEW i \in 1 .. stack'[j].entry - 1
            PROVE  Passed(tree[d][i])'
        <5>1. CASE i \in 1 .. e - 1
          BY <1>1, <3>1, <3>5, <5>1 DEF PassedUpTo
        <5>2. CASE i \notin 1 .. e - 1
          BY <3>5, <3>7, <5>2
        <5> QED BY <5>1, <5>2
      <4> QED BY <4>1 DEF PassedUpTo
    <3> QED BY <3>7, <3>8, <3>9
  <2> QED BY <2>1, <2>2
<1> QED BY <1>2, <1>3, <1>5

-----------------------------------------------------------------------------
(* The steps of the listing                                                *)

TreeType == tree \in [Dir -> Seq(Dir \cup File)]

\* A call ends, in the state it is in or at its last entry.
LEMMA PopKeepsListing ==
  ASSUME TreeType, ListingInv, stack # <<>>, Popped,
         UNCHANGED <<tree, visited, gone, changed, files>>,
         stack[Len(stack)].dir \in visited \/ found'.truncated,
         \/ found' = found
         \/ found' = [found EXCEPT !.truncated = TRUE],
         \/ found'.truncated
         \/ stack[Len(stack)].entry = 0
         \/ stack[Len(stack)].entry = Len(tree[stack[Len(stack)].dir]) + 1
  PROVE  ListingInv'
<1> DEFINE n == Len(stack)
<1>1. StackInv' /\ Onward
  BY PopKeepsStack, CallsGoOn DEF ListingInv
<1>2. ListedInv'
  BY <1>1, ListedStays DEF ListingInv, TreeType
<1>3. PassedInv'
  <2>1. CASE found'.truncated
    BY <2>1 DEF PassedInv
  <2>2. CASE ~found'.truncated
    <3>1. ASSUME NEW k \in DOMAIN stack
          PROVE  /\ \/ stack[k].dir \in visited'
                    \/ \E j \in DOMAIN stack' : stack'[j].dir = stack[k].dir
                 /\ \A d \in visited : \A e \in Nat \ {0} :
                      stack[k].dir = d /\ stack[k].entry = e => Carried(d, e)
      <4>1. CASE k = n
        BY <2>2, <4>1 DEF Carried
      <4>2. CASE k # n
        <5>1. k \in DOMAIN stack' /\ stack'[k] = stack[k]
          <6>1. n \in Nat \ {0} /\ DOMAIN stack = 1 .. n
            BY CallFacts DEF ListingInv
          <6>2. DOMAIN stack' = 1 .. n - 1
            BY <6>1 DEF Popped
          <6>3. k \in 1 .. n - 1
            <7> HIDE DEF n
            <7> QED BY <4>2, <6>1
          <6> QED BY <6>2, <6>3 DEF Popped
        <5> QED BY <5>1 DEF Carried
      <4> QED BY <4>1, <4>2
    <3>2. found' = found
      BY <2>2 DEF ListingInv, Findings
    <3> QED BY <3>1, <3>2, PassesOn DEF ListingInv, TreeType
  <2> QED BY <2>1, <2>2
<1>4. /\ found' \in Findings /\ found'.scanned = {} /\ found'.matches = 0
  BY DEF ListingInv, Findings
<1> QED BY <1>1, <1>2, <1>3, <1>4 DEF ListingInv

\* A call begins to read its directory, or passes an entry.
LEMMA MoveKeepsListing ==
  ASSUME TreeType, ListingInv, stack # <<>>, NEW entry \in Nat \ {0},
         Moved(entry), UNCHANGED <<tree, gone, changed, files, found>>,
         visited' = visited \cup {stack[Len(stack)].dir},
         \/ /\ stack[Len(stack)].entry = 0 /\ entry = 1
            /\ stack[Len(stack)].dir \notin visited
         \/ /\ stack[Len(stack)].entry \in DOMAIN tree[stack[Len(stack)].dir]
            /\ entry = stack[Len(stack)].entry + 1
            /\ Root \in gone
               \/ Passed(tree[stack[Len(stack)].dir][stack[Len(stack)].entry])
  PROVE  ListingInv'
<1> DEFINE n == Len(stack)
           dir == stack[n].dir
           at0 == stack[n].entry
<1>1. /\ n \in Nat \ {0} /\ DOMAIN stack = 1 .. n
      /\ dir \in Dir /\ at0 \in Nat
      /\ tree[dir] \in Seq(Dir \cup File) /\ Len(tree[dir]) \in Nat
      /\ visited' \subseteq Dir
  BY CallFacts DEF ListingInv, TreeType, StackInv
<1>2. entry <= Len(tree[dir]) + 1 /\ at0 <= entry
  BY <1>1
<1>3. at0 = 0 => dir \notin visited
  BY <1>1
<1>4. StackInv' /\ Onward
  <2>1. StackInv'
    BY <1>1, <1>2, <1>3, MoveKeepsStack DEF ListingInv
  <2>2. Onward
    BY <1>2, <1>3, CallsGoOn DEF ListingInv
  <2> QED BY <2>1, <2>2
<1>5. ListedInv'
  BY <1>4, ListedStays DEF ListingInv, TreeType
<1>6. /\ DOMAIN stack' = 1 .. n /\ n \in DOMAIN stack'
      /\ \A k \in 1 .. n - 1 : stack'[k] = stack[k]
      /\ stack'[n].dir = dir /\ stack'[n].entry = entry
  BY <1>1 DEF Moved
<1>7. PassedInv'
  <2>1. CASE Root \in gone
    BY <2>1 DEF PassedInv
  <2>2. CASE Root \notin gone
    <3>1. ASSUME NEW k \in DOMAIN stack
          PROVE  /\ \/ stack[k].dir \in visited'
                    \/ \E j \in DOMAIN stack' : stack'[j].dir = stack[k].dir
                 /\ \A d \in visited : \A e \in Nat \ {0} :
                      stack[k].dir = d /\ stack[k].entry = e => Carried(d, e)
      <4>1. CASE k = n
        <5>1. ASSUME NEW d \in visited, NEW e \in Nat \ {0}, dir = d, at0 = e
              PROVE  Carried(d, e)
          <6>1. entry = e + 1 /\ Passed(tree[d][e])
            BY <2>2, <5>1
          <6>2. \A x : Passed(x) => Passed(x)'
            <7>1. \A j \in DOMAIN stack :
                    \/ stack[j].dir \in visited'
                    \/ \E i \in DOMAIN stack' : stack'[i].dir = stack[j].dir
              <8> SUFFICES ASSUME NEW j \in DOMAIN stack, j # n
                           PROVE  \E i \in DOMAIN stack' :
                                    stack'[i].dir = stack[j].dir
                BY <1>6
              <8>1. j \in 1 .. n - 1 /\ j \in DOMAIN stack'
                <9> HIDE DEF n
                <9> QED BY <1>1, <1>6
              <8> QED BY <1>6, <8>1
            <7> HIDE DEF n, dir
            <7>2. Work!Range(files) \subseteq Work!Range(files)'
              BY DEF Work!Range
            <7> QED BY <7>1, <7>2, PassingStays
          <6>3. Passed(tree[d][e])'
            BY <6>1, <6>2
          <6> QED BY <1>6, <5>1, <6>1, <6>3 DEF Carried
        <5> QED BY <1>6, <4>1, <5>1
      <4>2. CASE k # n
        <5>1. k \in 1 .. n - 1 /\ k \in DOMAIN stack'
          <6> HIDE DEF n
          <6> QED BY <1>1, <1>6, <4>2
        <5> QED BY <1>6, <5>1 DEF Carried
      <4> QED BY <4>1, <4>2
    <3>2. ASSUME NEW d \in visited' \ visited
          PROVE  \E j \in DOMAIN stack' : stack'[j].dir = d /\ stack'[j].entry = 1
      <4>1. d = dir /\ dir \notin visited
        BY <3>2
      <4>2. at0 = 0
        <5>1. at0 > 0 => dir \in visited
          BY <1>1, <1>6 DEF ListingInv, StackInv
        <5> QED BY <1>1, <4>1, <5>1
      <4>3. entry = 1
        <5>1. at0 \notin DOMAIN tree[dir]
          BY <1>1, <4>2
        <5> QED BY <5>1
      <4> QED BY <1>6, <4>1, <4>3
    <3>3. Work!Range(files) \subseteq Work!Range(files)'
      BY DEF Work!Range
    <3> QED BY <3>1, <3>2, <3>3, PassesOn DEF ListingInv, TreeType
  <2> QED BY <2>1, <2>2
<1> QED BY <1>4, <1>5, <1>7 DEF ListingInv

\* A call of visit() calls it for the entry that it passes.
LEMMA PushKeepsListing ==
  ASSUME TreeType, Dir \cap File = {}, ListingInv, stack # <<>>,
         NEW x \in Dir, Pushed(x),
         UNCHANGED <<tree, visited, gone, changed, files, found>>,
         stack[Len(stack)].entry \in DOMAIN tree[stack[Len(stack)].dir],
         tree[stack[Len(stack)].dir][stack[Len(stack)].entry] = x
  PROVE  ListingInv'
<1> DEFINE n == Len(stack)
           dir == stack[n].dir
           at0 == stack[n].entry
<1>1. /\ n \in Nat \ {0} /\ DOMAIN stack = 1 .. n
      /\ dir \in Dir /\ at0 \in Nat
      /\ tree[dir] \in Seq(Dir \cup File)
      /\ at0 > 0
  BY CallFacts DEF ListingInv, TreeType
<1>2. StackInv' /\ Onward
  <2>1. StackInv'
    BY PushKeepsStack DEF ListingInv, TreeType
  <2>2. Onward
    BY <1>1, CallsGoOn DEF ListingInv
  <2> QED BY <2>1, <2>2
<1>3. ListedInv'
  BY <1>2, ListedStays DEF ListingInv, TreeType
<1>4. /\ DOMAIN stack' = 1 .. n + 1 /\ n \in DOMAIN stack' /\ n + 1 \in DOMAIN stack'
      /\ \A k \in 1 .. n - 1 : stack'[k] = stack[k] /\ k \in DOMAIN stack'
      /\ stack'[n].dir = dir /\ stack'[n].entry = at0 + 1
      /\ stack'[n + 1].dir = x
  BY <1>1 DEF Pushed
<1>5. Passed(x)'
  <2>1. Met(x)'
    BY <1>4 DEF Met
  <2> QED BY <2>1 DEF Passed
<1>6. ASSUME NEW k \in DOMAIN stack
      PROVE  /\ \/ stack[k].dir \in visited'
                \/ \E j \in DOMAIN stack' : stack'[j].dir = stack[k].dir
             /\ \A d \in visited : \A e \in Nat \ {0} :
                  stack[k].dir = d /\ stack[k].entry = e => Carried(d, e)
  <2>1. CASE k = n
    <3>1. ASSUME NEW d \in visited, NEW e \in Nat \ {0}, dir = d, at0 = e
          PROVE  Carried(d, e)
      <4>1. Passed(tree[d][e])'
        BY <1>5, <3>1
      <4> QED BY <1>4, <3>1, <4>1 DEF Carried
    <3> QED BY <1>4, <2>1, <3>1
  <2>2. CASE k # n
    <3>1. k \in 1 .. n - 1
      <4> HIDE DEF n
      <4> QED BY <1>1, <2>2
    <3> QED BY <1>4, <3>1 DEF Carried
  <2> QED BY <2>1, <2>2
<1>7. Work!Range(files) \subseteq Work!Range(files)'
  BY DEF Work!Range
<1>8. PassedInv'
  BY <1>6, <1>7, PassesOn DEF ListingInv, TreeType
<1> QED BY <1>2, <1>3, <1>8 DEF ListingInv

\* A file is listed: nothing was listed from its entry before.
LEMMA FileKeepsListing ==
  ASSUME Work!IsTree(tree), Dir \cap File = {}, ListingInv, stack # <<>>,
         NEW f \in File, files' = Append(files, f),
         UNCHANGED <<tree, visited, gone, changed>>,
         stack[Len(stack)].entry \in DOMAIN tree[stack[Len(stack)].dir],
         tree[stack[Len(stack)].dir][stack[Len(stack)].entry] = f,
         \/ Moved(stack[Len(stack)].entry + 1) /\ found' = found
         \/ Popped /\ found' = [found EXCEPT !.truncated = TRUE]
  PROVE  ListingInv'
<1> DEFINE n == Len(stack)
           dir == stack[n].dir
           at0 == stack[n].entry
<1>1. /\ n \in Nat \ {0} /\ DOMAIN stack = 1 .. n /\ n \in DOMAIN stack
      /\ dir \in Dir /\ at0 \in Nat /\ at0 \in DOMAIN tree[dir]
      /\ tree \in [Dir -> Seq(Dir \cup File)] /\ tree[dir] \in Seq(Dir \cup File)
      /\ at0 > 0
  <2>1. tree \in [Dir -> Seq(Dir \cup File)]
    BY DEF Work!IsTree
  <2> QED BY <2>1, CallFacts DEF ListingInv
<1>2. dir \in visited
  BY <1>1 DEF ListingInv, StackInv
<1>3. StackInv' /\ Onward
  <2>1. CASE Popped
    BY <2>1, PopKeepsStack, CallsGoOn DEF ListingInv
  <2>2. CASE Moved(at0 + 1)
    <3> DEFINE entry == at0 + 1
    <3>1. /\ entry \in Nat \ {0} /\ entry \in Nat
          /\ entry <= Len(tree[dir]) + 1 /\ at0 <= entry /\ at0 # 0
      BY <1>1
    <3>2. Moved(entry) /\ visited \subseteq visited' /\ visited' \subseteq Dir
      BY <2>2 DEF ListingInv, StackInv
    <3> HIDE DEF entry
    <3>3. StackInv'
      BY <1>2, <3>1, <3>2, MoveKeepsStack DEF ListingInv
    <3>4. Onward
      BY <3>1, <3>2, CallsGoOn DEF ListingInv
    <3> QED BY <3>3, <3>4
  <2> QED BY <2>1, <2>2
<1>4. ASSUME NEW k \in DOMAIN stack', stack'[k].dir = dir
      PROVE  (k = n /\ stack'[k].entry = at0 + 1) \/ stack'[k].entry = 0
  <2>1. CASE k = n /\ Moved(at0 + 1)
    BY <2>1 DEF Moved
  <2>2. CASE k # n \/ Popped
    <3>1. k \in 1 .. n - 1 /\ stack'[k] = stack[k] /\ k # n /\ k \in DOMAIN stack
      <4>1. DOMAIN stack' = 1 .. n \/ DOMAIN stack' = 1 .. n - 1
        <5>1. CASE Moved(at0 + 1)
          BY <5>1, <1>1 DEF Moved
        <5>2. CASE Popped
          BY <5>2, <1>1 DEF Popped
        <5> QED BY <5>1, <5>2
      <4>2. Popped => DOMAIN stack' = 1 .. n - 1
        BY <1>1 DEF Popped
      <4>3. k \in 1 .. n - 1
        <5> HIDE DEF n
        <5> QED BY <1>1, <2>2, <4>1, <4>2
      <4>4. stack'[k] = stack[k]
        BY <4>3 DEF Moved, Popped
      <4> HIDE DEF n
      <4> QED BY <1>1, <4>3, <4>4
    <3>2. stack[k].entry \in Nat
      <4>1. stack[k] \in Frame
        BY <3>1 DEF ListingInv, StackInv
      <4> QED BY <4>1 DEF Frame
    <3>3. ~(stack[k].entry > 0)
      BY <1>1, <1>4, <3>1 DEF ListingInv, StackInv
    <3> QED BY <3>1, <3>2, <3>3
  <2> QED BY <2>1, <2>2
<1>5. PICK here \in visited, place \in Nat \ {0} : here = dir /\ place = at0
  BY <1>1, <1>2
<1>6. FoundAt(f, here, place)'
  <2>1. ASSUME NEW k \in DOMAIN stack', stack'[k].dir = here, stack'[k].entry > 0
        PROVE  place < stack'[k].entry
    <3>1. stack'[k].entry = at0 + 1
      BY <1>4, <1>5, <2>1
    <3> QED BY <1>5, <3>1
  <2> QED BY <1>1, <1>5, <2>1 DEF FoundAt
<1>7. f \notin Work!Range(files)
  <2> SUFFICES ASSUME f \in Work!Range(files) PROVE FALSE
    OBVIOUS
  <2>1. PICK d \in visited : \E i \in DOMAIN tree[d] : FoundAt(f, d, i)
    BY DEF ListingInv, ListedInv
  <2>2. PICK i \in DOMAIN tree[d] : FoundAt(f, d, i)
    BY <2>1
  <2>3. d \in Dir /\ tree[d][i] = f
    BY <2>2 DEF ListingInv, StackInv, FoundAt
  <2>4. d = dir /\ i = at0
    BY <1>1, <2>3 DEF Work!IsTree
  <2>5. i < stack[n].entry
    BY <1>1, <2>2, <2>4 DEF FoundAt
  <2> QED BY <1>1, <2>4, <2>5
<1>8. /\ files \in Seq(File) /\ Len(files) \in Nat
      /\ files' \in Seq(File) /\ DOMAIN files' = 1 .. Len(files) + 1
      /\ \A i \in 1 .. Len(files) : files'[i] = files[i]
      /\ files'[Len(files) + 1] = f
      /\ DOMAIN files = 1 .. Len(files)
  <2>1. files \in Seq(File)
    BY DEF ListingInv, ListedInv
  <2> QED BY <2>1
<1>9. Work!Range(files)' = Work!Range(files) \cup {f}
  BY <1>8 DEF Work!Range
<1>10. Distinct(files)'
  <2> SUFFICES ASSUME NEW i \in DOMAIN files', NEW j \in DOMAIN files',
                      files'[i] = files'[j]
               PROVE  i = j
    BY DEF Distinct
  <2>1. \A m \in 1 .. Len(files) : files[m] # f
    BY <1>7, <1>8 DEF Work!Range
  <2>2. Distinct(files)
    BY DEF ListingInv, ListedInv
  <2>3. CASE i = Len(files) + 1 \/ j = Len(files) + 1
    BY <1>8, <2>1, <2>3
  <2>4. CASE i # Len(files) + 1 /\ j # Len(files) + 1
    BY <1>8, <2>2, <2>4 DEF Distinct
  <2> QED BY <2>3, <2>4
<1>11. ListedInv'
  <2> SUFFICES ASSUME NEW g \in Work!Range(files)'
               PROVE  \E d \in visited' : \E i \in DOMAIN tree'[d] : FoundAt(g, d, i)'
    BY <1>8, <1>10 DEF ListedInv
  <2>1. CASE g = f
    BY <1>1, <1>5, <1>6, <2>1
  <2>2. CASE g \in Work!Range(files)
    <3>1. PICK d \in visited : \E i \in DOMAIN tree[d] : FoundAt(g, d, i)
      BY <2>2 DEF ListingInv, ListedInv
    <3>2. PICK i \in DOMAIN tree[d] : FoundAt(g, d, i)
      BY <3>1
    <3>3. FoundAt(g, d, i)'
      BY <1>1, <1>3, <3>2, FoundStays DEF ListingInv
    <3> QED BY <3>2, <3>3
  <2> QED BY <1>9, <2>1, <2>2
<1>12. found' \in Findings /\ found'.scanned = {} /\ found'.matches = 0
  BY DEF ListingInv, Findings
<1>13. PassedInv'
  <2>1. CASE found' = [found EXCEPT !.truncated = TRUE]
    <3>1. found'.truncated
      BY <2>1 DEF ListingInv, Findings
    <3> QED BY <3>1 DEF PassedInv
  <2>2. CASE Moved(at0 + 1) /\ found' = found
    <3>1. /\ DOMAIN stack' = 1 .. n /\ n \in DOMAIN stack'
          /\ \A k \in 1 .. n - 1 : stack'[k] = stack[k] /\ k \in DOMAIN stack'
          /\ stack'[n].dir = dir /\ stack'[n].entry = at0 + 1
      BY <1>1, <2>2 DEF Moved
    <3>2. Passed(f)'
      <4>1. f \notin Dir
        OBVIOUS
      <4> QED BY <1>9, <4>1 DEF Passed
    <3>3. ASSUME NEW k \in DOMAIN stack
          PROVE  /\ \/ stack[k].dir \in visited'
                    \/ \E j \in DOMAIN stack' : stack'[j].dir = stack[k].dir
                 /\ \A d \in visited : \A e \in Nat \ {0} :
                      stack[k].dir = d /\ stack[k].entry = e => Carried(d, e)
      <4>1. CASE k = n
        <5>1. ASSUME NEW d \in visited, NEW e \in Nat \ {0}, dir = d, at0 = e
              PROVE  Carried(d, e)
          <6>1. Passed(tree[d][e])'
            BY <3>2, <5>1
          <6> QED BY <3>1, <5>1, <6>1 DEF Carried
        <5> QED BY <3>1, <4>1, <5>1
      <4>2. CASE k # n
        <5>1. k \in 1 .. n - 1
          <6> HIDE DEF n
          <6> QED BY <1>1, <4>2
        <5> QED BY <3>1, <5>1 DEF Carried
      <4> QED BY <4>1, <4>2
    <3>4. Work!Range(files) \subseteq Work!Range(files)'
      BY <1>9
    <3> QED BY <1>1, <2>2, <3>3, <3>4, PassesOn DEF ListingInv
  <2> QED BY <2>1, <2>2
<1> QED BY <1>3, <1>11, <1>12, <1>13 DEF ListingInv

Thrown == searchAt' = "done" /\ searched' # "succeeded"

\* A step of the listing keeps its invariant, or throws.
LEMMA ListingKeeps ==
  ASSUME TreeInv, Dir \cap File = {}, searchAt = "listing", ListingInv,
         \/ Work!Enter \/ Work!EntryFails \/ Work!EnterDirectory
         \/ Work!ListFile \/ Work!EndOfDirectory
  PROVE  Thrown \/ (searchAt' = "listing" /\ ListingInv')
<1> DEFINE n == Len(stack)
           dir == stack[n].dir
           at0 == stack[n].entry
<1>1. /\ stack # <<>> /\ TreeType /\ Work!IsTree(tree)
      /\ Work!Running = stack[n]
      /\ n \in Nat \ {0} /\ n \in DOMAIN stack
      /\ dir \in Dir /\ at0 \in Nat
      /\ tree[dir] \in Seq(Dir \cup File)
      /\ StackInv
  <2>1. stack # <<>> /\ Work!IsTree(tree)
    BY DEF Work!Enter, Work!EntryFails, Work!EnterDirectory, Work!ListFile,
           Work!EndOfDirectory, Work!AtEntry, Work!Listable, Work!Calling, TreeInv
  <2>2. TreeType
    BY <2>1 DEF Work!IsTree, TreeType
  <2> QED BY <2>1, <2>2, CallFacts DEF ListingInv, TreeType
<1>2. at0 \in DOMAIN tree[dir] => at0 # 0 /\ dir \in visited
  BY <1>1 DEF StackInv
<1>3. Work!Throw => Thrown
  BY DEF Work!Throw, Work!Answer, Thrown
<1>4. ASSUME at0 \in DOMAIN tree[dir], Work!NextEntry,
             UNCHANGED <<tree, gone, changed, files, found, visited>>,
             Root \in gone \/ Passed(tree[dir][at0])
      PROVE  ListingInv'
  <2>1. PICK entry \in Nat \ {0} : entry = at0 + 1
    BY <1>1
  <2>2. Moved(entry)
    <3>1. stack' = Work!Goto(entry)
      BY <1>1, <1>4, <2>1 DEF Work!NextEntry
    <3> QED BY <1>1, <3>1, CallFacts
  <2>3. visited' = visited \cup {dir}
    BY <1>2, <1>4
  <2> QED BY <1>1, <1>4, <2>1, <2>2, <2>3, MoveKeepsListing
<1>5. CASE Work!Enter
  <2>1. CASE Work!Throw
    BY <1>3, <2>1
  <2>2. CASE /\ found' = [found EXCEPT !.truncated = TRUE]
             /\ Work!Return
             /\ UNCHANGED <<searchAt, searched, visited>>
    <3>1. found'.truncated
      BY <2>2 DEF ListingInv, Findings
    <3>2. Popped /\ UNCHANGED <<tree, visited, gone, changed, files>>
      BY <1>1, <1>5, <2>2, CallFacts DEF Work!Enter, Work!disk
    <3> QED BY <1>1, <2>2, <3>1, <3>2, PopKeepsListing
  <2>3. CASE /\ gone \cap {Root, dir} = {}
             /\ visited' = visited \cup {dir}
             /\ IF dir \in visited THEN Work!Return ELSE stack' = Work!Goto(1)
             /\ UNCHANGED <<searchAt, searched, found>>
    <3>1. UNCHANGED <<tree, gone, changed, files, found>> /\ at0 = 0
      BY <1>1, <1>5, <2>3 DEF Work!Enter, Work!disk
    <3>2. CASE dir \in visited
      <4>1. Popped /\ visited' = visited
        BY <1>1, <2>3, <3>2, CallFacts
      <4> QED BY <1>1, <2>3, <3>1, <3>2, <4>1, PopKeepsListing
    <3>3. CASE dir \notin visited
      <4>1. Moved(1)
        BY <1>1, <2>3, <3>3, CallFacts
      <4> QED BY <1>1, <2>3, <3>1, <3>3, <4>1, MoveKeepsListing
    <3> QED BY <3>2, <3>3
  <2> QED BY <1>1, <1>5, <2>1, <2>2, <2>3 DEF Work!Enter
<1>6. CASE Work!EntryFails
  <2>1. CASE Work!Throw
    BY <1>3, <2>1
  <2>2. CASE /\ gone \cap {Root, tree[dir][at0]} # {} /\ Work!NextEntry
             /\ UNCHANGED <<searchAt, searched>>
    <3>1. /\ at0 \in DOMAIN tree[dir]
          /\ UNCHANGED <<tree, gone, changed, files, found, visited>>
      BY <1>1, <1>6 DEF Work!EntryFails, Work!AtEntry, Work!disk
    <3>2. Root \in gone \/ Passed(tree[dir][at0])
      BY <2>2 DEF TreeInv, Passed, Met
    <3> QED BY <1>4, <2>2, <3>1, <3>2
  <2> QED BY <1>1, <1>6, <2>1, <2>2 DEF Work!EntryFails, Work!Entry
<1>7. CASE Work!EnterDirectory
  <2>1. PICK x \in Dir : x = tree[dir][at0]
    BY <1>1, <1>7 DEF Work!EnterDirectory, Work!Entry
  <2>2. /\ at0 \in DOMAIN tree[dir]
        /\ stack' = Append(Work!Goto(at0 + 1), [dir |-> x, entry |-> 0])
        /\ UNCHANGED <<tree, visited, gone, changed, files, found>>
        /\ searchAt' = searchAt
    BY <1>1, <1>7, <2>1
       DEF Work!EnterDirectory, Work!Listable, Work!AtEntry, Work!Entry, Work!disk
  <2>3. Pushed(x)
    BY <1>1, <2>2, CallFacts
  <2> QED BY <1>1, <2>1, <2>2, <2>3, PushKeepsListing
<1>8. CASE Work!ListFile
  <2>1. PICK f \in File : f = tree[dir][at0]
    BY <1>1, <1>8 DEF Work!ListFile, Work!Entry
  <2>2. /\ at0 \in DOMAIN tree[dir]
        /\ files' = Append(files, f)
        /\ UNCHANGED <<tree, visited, gone, changed>> /\ searchAt' = searchAt
        /\ \/ Work!Return /\ found' = [found EXCEPT !.truncated = TRUE]
           \/ Work!NextEntry /\ found' = found
    BY <1>1, <1>8, <2>1
       DEF Work!ListFile, Work!Listable, Work!AtEntry, Work!Entry, Work!disk
  <2>3. Work!NextEntry => Moved(at0 + 1)
    <3>1. PICK e \in Nat : e = at0 + 1
      BY <1>1
    <3> QED BY <1>1, <3>1, CallFacts DEF Work!NextEntry
  <2>4. Work!Return => Popped
    BY <1>1, CallFacts
  <2>5. ListingInv'
    BY <1>1, <2>1, <2>2, <2>3, <2>4, FileKeepsListing
  <2> QED BY <2>2, <2>5
<1>9. CASE Work!EndOfDirectory
  <2>1. /\ at0 = Len(tree[dir]) + 1 /\ Popped
        /\ UNCHANGED <<tree, visited, gone, changed, files, found>>
        /\ searchAt' = searchAt
    BY <1>1, <1>9, CallFacts DEF Work!EndOfDirectory, Work!disk
  <2>2. dir \in visited
    BY <1>1, <2>1 DEF StackInv
  <2> QED BY <1>1, <2>1, <2>2, PopKeepsListing
<1> QED BY <1>5, <1>6, <1>7, <1>8, <1>9

\* All that was left alone is listed, unless the listing was cut.
LEMMA EndOfListingKeeps ==
  ASSUME TreeInv, File \subseteq Nat, Root \in Dir, ListingInv, Work!EndOfListing
  PROVE  searchAt' = "next" /\ ReadingInv'
<1> DEFINE S == Work!Range(files)
<1>1. /\ stack = <<>> /\ searchAt' = "next" /\ files' = Work!InOrder(S)
      /\ UNCHANGED <<tree, content, gone, changed, visited, found>>
  BY DEF Work!EndOfListing, Work!disk
<1>2. S \in SUBSET Nat /\ IsFiniteSet(S) /\ S \subseteq Work!Listed
  <2>1. files \in Seq(File)
    BY DEF ListingInv, ListedInv
  <2>2. IsFiniteSet(DOMAIN files) /\ S = {files[i] : i \in DOMAIN files}
    <3>1. DOMAIN files = 1 .. Len(files) /\ Len(files) \in Nat
      BY <2>1
    <3> QED BY <3>1, FS_Interval DEF Work!Range
  <2>3. IsFiniteSet(S)
    <3> DEFINE D == DOMAIN files
    <3>1. IsFiniteSet(D) /\ S = {files[i] : i \in D}
      BY <2>2
    <3>2. files \in Surjection(D, S)
      <4>1. files \in [D -> S]
        BY <2>1, <3>1
      <4>2. \A f \in S : \E i \in D : files[i] = f
        BY <3>1
      <4> HIDE DEF D, S
      <4> QED BY <4>1, <4>2 DEF Surjection
    <3> HIDE DEF D, S
    <3> QED BY <3>1, <3>2, FS_Surjection
  <2>4. ASSUME NEW f \in S PROVE f \in Work!Listed
    <3>1. PICK d \in visited : \E i \in DOMAIN tree[d] : FoundAt(f, d, i)
      BY DEF ListingInv, ListedInv
    <3>2. d \in Dir /\ f \in Work!Range(tree[d]) /\ f \in File
      BY <2>1, <2>2, <3>1 DEF ListingInv, StackInv, FoundAt, Work!Range
    <3> QED BY <3>2 DEF Work!Listed, Work!FilesOf, Work!FilesIn
  <2>5. S \subseteq File
    BY <2>1, <2>2
  <2> QED BY <2>3, <2>4, <2>5
<1> HIDE DEF S
<1>3. /\ files' \in Seq(S) /\ Distinct(files') /\ Work!Range(files)' = S
  <2>1. /\ Work!InOrder(S) \in Seq(S) /\ Distinct(Work!InOrder(S))
        /\ Work!Range(Work!InOrder(S)) = S
    BY <1>2, InOrderFacts
  <2>2. Work!Range(files)' = Work!Range(files')
    BY DEF Work!Range
  <2> QED BY <1>1, <2>1, <2>2
<1>4. files' \in Seq(Work!Listed)
  <2> DEFINE T == Work!Listed
  <2>1. S \subseteq T
    BY <1>2
  <2> HIDE DEF T
  <2>2. files' \in Seq(T)
    BY <1>3, <2>1
  <2> QED BY <2>2 DEF T
<1>5. ASSUME ~found.truncated, Root \notin gone,
             NEW f \in Work!Listed, f \notin changed
      PROVE  f \in S
  <2> DEFINE D == {d \in Dir : d \in visited \cup gone}
  <2>1. /\ \A d : Met(d) => d \in visited \cup gone
        /\ \A d \in visited : PassedUpTo(d, Len(tree[d]))
        /\ Root \in D
    BY <1>1, <1>5 DEF ListingInv, PassedInv, Met
  <2>2. \A d \in visited : \A x \in Work!Range(tree[d]) : d \in Dir /\ Passed(x)
    <3> SUFFICES ASSUME NEW d \in visited, NEW x \in Work!Range(tree[d])
                 PROVE  d \in Dir /\ Passed(x)
      OBVIOUS
    <3>1. d \in Dir /\ tree[d] \in Seq(Dir \cup File)
      BY DEF ListingInv, StackInv, TreeInv, Work!IsTree
    <3>2. PICK i \in 1 .. Len(tree[d]) : x = tree[d][i]
      BY <3>1 DEF Work!Range
    <3> QED BY <2>1, <3>1, <3>2 DEF PassedUpTo
  <2>3. \A d \in D : Work!Range(tree[d]) \cap Dir \subseteq D
    <3> SUFFICES ASSUME NEW d \in D, NEW x \in Work!Range(tree[d]) \cap Dir
                 PROVE  x \in D
      OBVIOUS
    <3>1. CASE d \in visited
      BY <2>1, <2>2, <3>1 DEF Passed
    <3>2. CASE d \notin visited
      BY <1>5, <3>2 DEF TreeInv
    <3> QED BY <3>1, <3>2
  <2>4. Work!FilesOf(tree) = Work!FilesIn(tree, D)
    <3>1. D \in SUBSET Dir
      OBVIOUS
    <3> HIDE DEF D
    <3> QED BY <2>1, <2>3, <3>1 DEF TreeInv, Work!IsTree
  <2>5. f \in Work!FilesIn(tree, D)
    BY <2>4 DEF Work!Listed
  <2>6. PICK d \in D : f \in Work!Range(tree[d]) /\ f \in File
    BY <2>5 DEF Work!FilesIn
  <2>7. CASE d \in visited
    BY <1>5, <2>2, <2>6, <2>7 DEF Passed, S
  <2>8. CASE d \notin visited
    BY <1>5, <2>6, <2>8 DEF TreeInv
  <2> QED BY <2>7, <2>8
<1>6. SumFunctionOnSet(Hits', {}) = 0
  BY SumType, FS_EmptySet
<1>7. found' = found /\ found \in Findings /\ found.scanned = {} /\ found.matches = 0
  BY <1>1 DEF ListingInv
<1>8. Work!Listed' = Work!Listed
  BY <1>1 DEF Work!Listed
<1> QED BY <1>1, <1>3, <1>4, <1>5, <1>6, <1>7, <1>8, FS_EmptySet DEF ReadingInv

-----------------------------------------------------------------------------
(* The steps of the reading                                                *)

\* The first of distinct files, and the rest.
LEMMA RestOfFiles ==
  ASSUME NEW T, NEW s \in Seq(T), s # <<>>, Distinct(s)
  PROVE  /\ Head(s) \in T /\ Head(s) \in Work!Range(s)
         /\ Tail(s) \in Seq(T) /\ Distinct(Tail(s))
         /\ Work!Range(Tail(s)) = Work!Range(s) \ {Head(s)}
<1>1. /\ Len(s) \in Nat \ {0} /\ DOMAIN s = 1 .. Len(s) /\ Head(s) = s[1]
      /\ \A i \in DOMAIN s : s[i] \in T
      /\ Tail(s) \in Seq(T) /\ DOMAIN Tail(s) = 1 .. Len(s) - 1
      /\ \A i \in 1 .. Len(s) - 1 : Tail(s)[i] = s[i + 1]
  BY EmptySeq, ElementOfSeq, HeadTailProperties
<1>2. ASSUME NEW i \in DOMAIN s, NEW j \in DOMAIN s, s[i] = s[j] PROVE i = j
  BY <1>2 DEF Distinct
<1>3. \A i \in 1 .. Len(s) - 1 : i + 1 \in DOMAIN s /\ i + 1 # 1 /\ 1 \in DOMAIN s
  BY <1>1
<1>4. Distinct(Tail(s))
  <2> SUFFICES ASSUME NEW i \in 1 .. Len(s) - 1, NEW j \in 1 .. Len(s) - 1,
                      Tail(s)[i] = Tail(s)[j]
               PROVE  i = j
    BY <1>1 DEF Distinct
  <2>1. i + 1 = j + 1
    BY <1>1, <1>2, <1>3
  <2> QED BY <2>1
<1>5. Work!Range(Tail(s)) = {Tail(s)[i] : i \in 1 .. Len(s) - 1}
  BY <1>1 DEF Work!Range
<1>6. ASSUME NEW x \in Work!Range(Tail(s))
      PROVE  x \in Work!Range(s) /\ x # Head(s)
  <2>1. PICK i \in 1 .. Len(s) - 1 : x = s[i + 1]
    BY <1>1, <1>5
  <2> QED BY <1>1, <1>2, <1>3, <2>1 DEF Work!Range
<1>7. ASSUME NEW x \in Work!Range(s), x # Head(s)
      PROVE  x \in Work!Range(Tail(s))
  <2>1. PICK j \in DOMAIN s : x = s[j]
    BY DEF Work!Range
  <2>2. PICK i \in 1 .. Len(s) - 1 : j = i + 1
    <3>1. j - 1 \in 1 .. Len(s) - 1 /\ j = (j - 1) + 1
      BY <1>1, <1>7, <2>1
    <3> QED BY <3>1
  <2> QED BY <1>1, <1>5, <2>1, <2>2
<1>8. Head(s) \in T /\ Head(s) \in Work!Range(s)
  BY <1>1 DEF Work!Range
<1> QED BY <1>1, <1>4, <1>6, <1>7, <1>8

\* A file is passed over when it changed, or when it is no text.
LEMMA SkipKeepsReading ==
  ASSUME ReadingInv, files # <<>>, files' = Tail(files), searchAt' = "next",
         UNCHANGED <<tree, content, gone, changed, found>>,
         \/ Root \in gone \/ found.truncated
         \/ Head(files) \in changed \/ ~content[Head(files)].text
  PROVE  ReadingInv'
<1> DEFINE T == Work!Listed
<1>1. files \in Seq(T) /\ Distinct(files)
  BY DEF ReadingInv
<1>2. /\ Tail(files) \in Seq(T) /\ Distinct(Tail(files))
      /\ Work!Range(Tail(files)) = Work!Range(files) \ {Head(files)}
  <2> HIDE DEF T
  <2> QED BY <1>1, RestOfFiles
<1>3. /\ Work!Listed' = Work!Listed /\ Hits' = Hits
      /\ Work!Range(files)' = Work!Range(files) \ {Head(files)}
      /\ Distinct(files)'
  BY <1>2 DEF Work!Listed, Hits, Work!Range, Distinct
<1> QED BY <1>1, <1>2, <1>3 DEF ReadingInv

\* A step of the reading keeps its invariant, ends it, or throws.
LEMMA ReadingKeeps ==
  ASSUME TreeInv, MaxMatches \in Nat,
         Content \subseteq [size : Nat, matches : Nat, text : BOOLEAN],
         searchAt \in {"next", "opening", "reading"}, ReadingInv,
         \/ Work!NextFile \/ Work!OpenFile \/ Work!ReadFile \/ Work!Finish
  PROVE  \/ Thrown
         \/ searchAt' \in {"next", "opening", "reading"} /\ ReadingInv'
         \/ searchAt' = "done" /\ files' = <<>> /\ ReadingInv'
<1> DEFINE T == Work!Listed
           f == Head(files)
<1>1. files \in Seq(T) /\ Distinct(files)
  BY DEF ReadingInv
<1>2. files # <<>> =>
        /\ f \in T /\ f \in Work!Range(files)
        /\ Tail(files) \in Seq(T) /\ Distinct(Tail(files))
        /\ Work!Range(Tail(files)) = Work!Range(files) \ {f}
  <2> HIDE DEF T
  <2> QED BY <1>1, RestOfFiles
<1>3. Work!Throw => Thrown
  BY DEF Work!Throw, Work!Answer, Thrown
<1>4. UNCHANGED <<tree, content, gone, changed>>
  BY DEF Work!NextFile, Work!OpenFile, Work!ReadFile, Work!Finish, Work!disk
<1>5. Work!Listed' = Work!Listed /\ Hits' = Hits
  BY <1>4 DEF Work!Listed, Hits
<1>6. ASSUME files' = files, found' = found,
             searchAt' \in {"opening", "reading"} => files # <<>>,
             searchAt' = "reading" /\ ~found.truncated /\ Root \notin gone =>
               content[f].size <= MaxFileBytes
      PROVE  ReadingInv'
  <2>1. Work!Range(files)' = Work!Range(files) /\ Distinct(files)'
    BY <1>1, <1>6 DEF Work!Range, Distinct
  <2> QED BY <1>4, <1>5, <1>6, <2>1 DEF ReadingInv
<1>7. CASE Work!NextFile
  BY <1>3, <1>6, <1>7 DEF Work!NextFile
<1>8. ASSUME Work!Skip, files # <<>>, found' = found,
             Root \in gone \/ found.truncated \/ f \in changed \/ ~content[f].text
      PROVE  Thrown \/ (searchAt' = "next" /\ ReadingInv')
  <2>1. CASE Work!Throw
    BY <1>3, <2>1
  <2>2. CASE searchAt' = "next" /\ files' = Tail(files)
    BY <1>4, <1>8, <2>2, SkipKeepsReading
  <2> QED BY <1>8, <2>1, <2>2 DEF Work!Skip
<1>9. CASE Work!OpenFile
  <2>1. files # <<>>
    BY <1>9 DEF Work!OpenFile, ReadingInv
  <2>2. CASE /\ found' = [found EXCEPT !.truncated = TRUE]
             /\ searchAt' = "next" /\ files' \in {<<>>, Tail(files)}
    <3>1. found' \in Findings /\ found'.truncated /\ found'.scanned = found.scanned
      BY <2>2 DEF ReadingInv, Findings
    <3>2. files' \in Seq(T) /\ Distinct(files')
          /\ Work!Range(files') \subseteq Work!Range(files)
      <4>1. CASE files' = <<>>
        BY <4>1 DEF Distinct, Work!Range
      <4>2. CASE files' = Tail(files)
        BY <1>2, <2>1, <4>2
      <4> QED BY <2>2, <4>1, <4>2
    <3>3. Work!Range(files)' = Work!Range(files') /\ Distinct(files)' = Distinct(files')
      BY DEF Work!Range, Distinct
    <3>4. ReadingInv'
      BY <1>5, <2>2, <3>1, <3>2, <3>3 DEF ReadingInv
    <3> QED BY <2>2, <3>4
  <2>3. CASE ~Work!Present(f) /\ Work!Skip /\ UNCHANGED found
    <3>1. Root \in gone \/ f \in changed
      BY <2>3 DEF Work!Present, TreeInv
    <3> QED BY <1>8, <2>1, <2>3, <3>1
  <2>4. CASE /\ content[f].size <= MaxFileBytes
             /\ searchAt' = "reading" /\ UNCHANGED <<found, files, searched>>
    BY <1>6, <2>1, <2>4
  <2> QED BY <1>9, <2>2, <2>3, <2>4 DEF Work!OpenFile
<1>10. CASE Work!ReadFile
  <2>1. files # <<>> /\ searchAt = "reading"
    BY <1>10 DEF Work!ReadFile, ReadingInv
  <2>2. /\ content[f] \in [size : Nat, matches : Nat, text : BOOLEAN]
        /\ content[f].size \in Nat /\ content[f].matches \in Nat
        /\ found.matches \in Nat /\ found.bytes \in Nat
    BY <1>2, <2>1 DEF TreeInv, ReadingInv, Findings
  <2>3. CASE /\ ~Work!Present(f) \/ content[f].size > MaxFileBytes
                \/ ~content[f].text
             /\ Work!Skip /\ UNCHANGED found
    <3>1. \/ Root \in gone \/ found.truncated
          \/ f \in changed \/ ~content[f].text
      <4>1. MaxFileBytes \in Nat
        BY DispatchAssumption DEF Work!WorkspaceParameters
      <4> QED BY <2>1, <2>2, <2>3, <4>1 DEF Work!Present, TreeInv, ReadingInv
    <3> QED BY <1>8, <2>1, <2>3, <3>1
  <2> DEFINE hits == found.matches + content[f].matches
  <2>4. CASE /\ content[f].text
             /\ found' = [scanned |-> found.scanned \cup {f},
                          bytes |-> found.bytes + content[f].size,
                          matches |-> IF hits < MaxMatches THEN hits
                                      ELSE MaxMatches,
                          truncated |-> found.truncated \/ hits >= MaxMatches]
             /\ searchAt' = "next" /\ files' = Tail(files)
    <3>1. /\ found'.scanned = found.scanned \cup {f}
          /\ ~found'.truncated => ~found.truncated /\ found'.matches = hits
      BY <2>2, <2>4
    <3>2. found' \in Findings
      <4>1. T \subseteq File
        BY DEF Work!Listed, Work!FilesOf, Work!FilesIn
      <4> QED BY <1>2, <2>1, <2>2, <2>4, <4>1 DEF ReadingInv, Findings
    <3>3. /\ f \notin found.scanned /\ IsFiniteSet(found.scanned \cup {f})
          /\ found.scanned \cup {f} \subseteq T \ Work!Range(files')
      BY <1>2, <2>1, <2>4, FS_AddElement DEF ReadingInv
    <3>4. ASSUME found.matches = SumFunctionOnSet(Hits, found.scanned)
          PROVE  hits = SumFunctionOnSet(Hits, found.scanned \cup {f})
      <4> DEFINE D == found.scanned \cup {f}
      <4>1. ASSUME NEW x \in D PROVE Hits[x] = content[x].matches /\ Hits[x] \in Nat
        <5>1. x \in T
          BY <3>3
        <5>2. content[x] \in [size : Nat, matches : Nat, text : BOOLEAN]
          BY <5>1 DEF TreeInv
        <5> QED BY <5>1, <5>2 DEF Hits
      <4>2. D \ {f} = found.scanned /\ f \in D /\ IsFiniteSet(D)
        BY <3>3
      <4>3. \A x \in D : Hits[x] \in Nat
        BY <4>1
      <4>4. Hits[f] = content[f].matches
        BY <4>1, <4>2
      <4> HIDE DEF D
      <4>5. SumFunctionOnSet(Hits, D) = Hits[f] + SumFunctionOnSet(Hits, D \ {f})
        BY <4>2, <4>3, SumRemove
      <4>6. SumFunctionOnSet(Hits, D) = content[f].matches + found.matches
        BY <3>4, <4>2, <4>4, <4>5
      <4>7. hits = content[f].matches + found.matches
        BY <2>2
      <4> QED BY <4>6, <4>7 DEF D
    <3>5. /\ Work!Range(files)' = Work!Range(files') /\ Distinct(files)' = Distinct(files')
          /\ Work!Range(files') = Work!Range(files) \ {f}
      BY <1>2, <2>1, <2>4 DEF Work!Range, Distinct
    <3>6. ASSUME ~found'.truncated, changed = {}
          PROVE  /\ \A x \in found'.scanned : content[x].text
                 /\ found'.matches = SumFunctionOnSet(Hits, found'.scanned)
      <4>1. /\ \A x \in found.scanned : content[x].text
            /\ found.matches = SumFunctionOnSet(Hits, found.scanned)
        BY <3>1, <3>6 DEF ReadingInv
      <4> QED BY <2>4, <3>1, <3>4, <3>6, <4>1
    <3>7. ASSUME ~found'.truncated, Root \notin gone,
                 NEW x \in T \ changed, content[x].text
          PROVE  x \in found'.scanned \cup Work!Range(files')
      BY <3>1, <3>5, <3>7 DEF ReadingInv
    <3>8. files' \in Seq(T) /\ Distinct(files')
      BY <1>2, <2>1, <2>4
    <3> HIDE DEF hits, f
    <3>9. ReadingInv'
      BY <1>4, <1>5, <2>4, <3>1, <3>2, <3>3, <3>5, <3>6, <3>7, <3>8 DEF ReadingInv
    <3> QED BY <2>4, <3>9
  <2> QED BY <1>10, <2>3, <2>4 DEF Work!ReadFile
<1>11. CASE Work!Finish
  <2>1. CASE Work!Throw
    BY <1>3, <2>1
  <2>2. CASE Work!Answer("succeeded")
    BY <1>6, <1>11, <2>2 DEF Work!Finish, Work!Answer
  <2> QED BY <1>11, <2>1, <2>2 DEF Work!Finish
<1> QED BY <1>7, <1>9, <1>10, <1>11

-----------------------------------------------------------------------------
(* The search is honest                                                    *)

\* What happens to the tree takes nothing of what was left alone.
LEMMA DiskKeepsHonest ==
  ASSUME HonestInv, Work!Disk
  PROVE  HonestInv'
<1>1. PICK e \in Dir \cup Work!Listed :
        /\ searchAt # "done" /\ e \in changed'
        /\ tree' = tree /\ gone \subseteq gone' /\ changed \subseteq changed'
        /\ UNCHANGED <<searchAt, stack, visited, files, found, searched>>
        /\ \A f \in Work!Listed : f \in changed' \/ content'[f] = content[f]
  <2>1. ASSUME NEW f \in Work!Listed, Work!Modify(f)
        PROVE  /\ searchAt # "done" /\ f \in changed'
               /\ tree' = tree /\ gone \subseteq gone' /\ changed \subseteq changed'
               /\ UNCHANGED <<searchAt, stack, visited, files, found, searched>>
               /\ \A g \in Work!Listed : g \in changed' \/ content'[g] = content[g]
    BY <2>1 DEF Work!Modify, Work!Change, Work!search, HonestInv, TreeInv
  <2>2. ASSUME NEW e \in Dir \cup Work!Listed, Work!Vanish(e)
        PROVE  /\ searchAt # "done" /\ e \in changed'
               /\ tree' = tree /\ gone \subseteq gone' /\ changed \subseteq changed'
               /\ UNCHANGED <<searchAt, stack, visited, files, found, searched>>
               /\ content' = content
    BY <2>2 DEF Work!Vanish, Work!Change, Work!search
  <2> QED BY <2>1, <2>2 DEF Work!Disk
<1>2. TreeInv'
  BY TreeStays DEF HonestInv, Work!Next
<1>3. ASSUME ListingInv PROVE ListingInv'
  <2>1. StackInv'
    BY <1>1, <1>3 DEF ListingInv, StackInv
  <2>2. ListedInv'
    BY <1>1, <1>3 DEF ListingInv, ListedInv, Distinct, FoundAt, Work!Range
  <2>3. /\ \A d : Met(d) => Met(d)'
        /\ \A x : Passed(x) => Passed(x)'
    BY <1>1 DEF Met, Passed, Work!Range
  <2>4. \A d, n : PassedUpTo(d, n) => PassedUpTo(d, n)'
    BY <1>1, <2>3 DEF PassedUpTo
  <2>5. PassedInv'
    <3> SUFFICES ASSUME ~found.truncated, Root \notin gone
                 PROVE  /\ Met(Root)'
                        /\ \A d \in visited :
                             \/ PassedUpTo(d, Len(tree[d]))'
                             \/ \E k \in DOMAIN stack :
                                  /\ stack[k].dir = d /\ stack[k].entry > 0
                                  /\ PassedUpTo(d, stack[k].entry - 1)'
      BY <1>1 DEF PassedInv
    <3>1. Met(Root)
      BY <1>3 DEF ListingInv, PassedInv
    <3>2. ASSUME NEW d \in visited
          PROVE  \/ PassedUpTo(d, Len(tree[d]))'
                 \/ \E k \in DOMAIN stack :
                      /\ stack[k].dir = d /\ stack[k].entry > 0
                      /\ PassedUpTo(d, stack[k].entry - 1)'
      <4>1. CASE PassedUpTo(d, Len(tree[d]))
        BY <1>1, <2>3, <4>1 DEF PassedUpTo
      <4>2. CASE ~PassedUpTo(d, Len(tree[d]))
        <5>1. PICK k \in DOMAIN stack : /\ stack[k].dir = d /\ stack[k].entry > 0
                                        /\ PassedUpTo(d, stack[k].entry - 1)
          BY <1>3, <4>2 DEF ListingInv, PassedInv
        <5>2. PassedUpTo(d, stack[k].entry - 1)'
          BY <1>1, <2>3, <5>1 DEF PassedUpTo
        <5> QED BY <5>1, <5>2
      <4> QED BY <4>1, <4>2
    <3> QED BY <2>3, <3>1, <3>2
  <2> QED BY <1>1, <1>3, <2>1, <2>2, <2>5 DEF ListingInv
<1>4. ASSUME ReadingInv PROVE ReadingInv'
  <2>1. /\ Work!Listed' = Work!Listed /\ Work!Range(files)' = Work!Range(files)
        /\ Distinct(files)' = Distinct(files)
    BY <1>1 DEF Work!Listed, Work!Range, Distinct
  <2>2. searchAt = "reading" => files # <<>> /\ Head(files) \in Work!Listed
    BY <1>4 DEF ReadingInv
  <2>3. changed' # {}
    BY <1>1
  <2> QED BY <1>1, <1>4, <2>1, <2>2, <2>3 DEF ReadingInv
<1> QED BY <1>1, <1>2, <1>3, <1>4 DEF HonestInv, Ended, Work!NothingFound

\* So does every step of the workspace.
LEMMA SearchKeepsHonest ==
  ASSUME HonestInv, Work!Next
  PROVE  HonestInv'
<1>1. /\ Dir \cap File = {} /\ Root \in Dir /\ File \subseteq Nat
      /\ Content \subseteq [size : Nat, matches : Nat, text : BOOLEAN]
      /\ MaxMatches \in Nat
  BY DispatchAssumption DEF Work!WorkspaceParameters
<1>2. TreeInv /\ TreeInv'
  BY TreeStays DEF HonestInv
<1>3. CASE Work!Disk
  BY <1>3, DiskKeepsHonest
<1>4. CASE Work!Search
  <2>1. /\ stack' = <<[dir |-> Root, entry |-> 0]>> /\ visited' = {}
        /\ files' = <<>> /\ found' = Work!NothingFound
        /\ tree' = tree
        /\ Thrown \/ searchAt' = "listing"
    BY <1>4 DEF Work!Search, HonestInv, Work!Answer, Thrown
  <2>2. Len(tree[Root]) \in Nat
    BY <1>1, <1>2 DEF TreeInv, Work!IsTree
  <2>3. ListingInv'
    <3>1. /\ DOMAIN stack' = {1} /\ stack' \in Seq(Frame) /\ Len(stack') = 1
          /\ stack'[1].dir = Root /\ stack'[1].entry = 0
      BY <1>1, <2>1 DEF Frame
    <3>2. StackInv'
      BY <2>1, <2>2, <3>1 DEF StackInv
    <3>3. ListedInv'
      BY <2>1 DEF ListedInv, Distinct, Work!Range
    <3>4. PassedInv'
      BY <2>1, <3>1 DEF PassedInv, Met
    <3>5. found' \in Findings /\ found'.scanned = {} /\ found'.matches = 0
      BY <2>1 DEF Findings, Work!NothingFound
    <3> QED BY <3>2, <3>3, <3>4, <3>5 DEF ListingInv
  <2> QED BY <1>2, <2>1, <2>3 DEF HonestInv, Ended, Thrown
<1>5. CASE \E f \in Work!Listed : Work!ReadText(f)
  <2>1. searchAt' = "read"
    BY <1>5 DEF Work!ReadText
  <2> QED BY <1>2, <2>1 DEF HonestInv, Ended
<1>6. CASE UNCHANGED <<tree, content, gone, changed, searchAt, stack, visited,
                       files, found, searched>>
  <2>1. StackInv' = StackInv /\ ListedInv' = ListedInv /\ PassedInv' = PassedInv
    BY <1>6 DEF StackInv, ListedInv, PassedInv, Distinct, Work!Range, FoundAt,
                Met, Passed, PassedUpTo
  <2>2. ListingInv' = ListingInv
    BY <1>6, <2>1 DEF ListingInv
  <2>3. ReadingInv' = ReadingInv
    BY <1>6 DEF ReadingInv, Distinct, Work!Range, Work!Listed, Hits
  <2> QED BY <1>2, <1>6, <2>2, <2>3 DEF HonestInv, Ended, Work!NothingFound
<1>7. CASE Work!Abort \/ Work!Watcher
  <2>1. UNCHANGED <<tree, content, gone, changed, searchAt, stack, visited,
                    files, found, searched>>
    BY <1>7 DEF Work!Abort, Work!Watcher, Work!Watch, Work!Close, Work!Deliver,
                Work!NotifiedAgain, Work!disk, Work!search
  <2> QED BY <1>6, <2>1
<1>8. CASE Work!SearchStep
  <2>1. CASE \/ Work!Enter \/ Work!EntryFails \/ Work!EnterDirectory
             \/ Work!ListFile \/ Work!EndOfDirectory
    <3>1. searchAt = "listing"
      BY <2>1 DEF Work!Enter, Work!EntryFails, Work!EnterDirectory,
                  Work!ListFile, Work!EndOfDirectory, Work!AtEntry,
                  Work!Listable, Work!Calling
    <3>2. Thrown \/ (searchAt' = "listing" /\ ListingInv')
      BY <1>1, <1>2, <2>1, <3>1, ListingKeeps DEF HonestInv
    <3> QED BY <1>2, <3>2 DEF HonestInv, Ended, Thrown
  <2>2. CASE Work!EndOfListing
    <3>1. searchAt = "listing"
      BY <2>2 DEF Work!EndOfListing
    <3>2. searchAt' = "next" /\ ReadingInv'
      BY <1>1, <1>2, <2>2, <3>1, EndOfListingKeeps DEF HonestInv
    <3> QED BY <1>2, <3>2 DEF HonestInv, Ended
  <2>3. CASE Work!NextFile \/ Work!OpenFile \/ Work!ReadFile \/ Work!Finish
    <3>1. searchAt \in {"next", "opening", "reading"}
      BY <2>3 DEF Work!NextFile, Work!OpenFile, Work!ReadFile, Work!Finish
    <3>2. \/ Thrown
          \/ searchAt' \in {"next", "opening", "reading"} /\ ReadingInv'
          \/ searchAt' = "done" /\ files' = <<>> /\ ReadingInv'
      BY <1>1, <1>2, <2>3, <3>1, ReadingKeeps DEF HonestInv
    <3> QED BY <1>2, <3>2 DEF HonestInv, Ended, Thrown
  <2> QED BY <1>8, <2>1, <2>2, <2>3 DEF Work!SearchStep
<1> QED BY <1>3, <1>4, <1>5, <1>7, <1>8 DEF Work!Next

\* A step of the dispatchers is a step of the workspace, or leaves it alone.
LEMMA WorkspaceMoves ==
  ASSUME [DispatchNext]_dispatchVars
  PROVE  Work!Next \/ UNCHANGED workspace
BY DEF DispatchNext, dispatchVars, Refuse, StartProcess, StartSession,
       StartWorkspace, ProcessStep, SessionStep, SessionLost, WorkspaceStep,
       Give, Work!Next

\* With no candidate left, what was left alone was read.
LEMMA HonestMeans == HonestInv => SearchIsHonest
<1> SUFFICES ASSUME HonestInv, Ended, ~found.truncated, Root \notin gone
             PROVE  LET readable == {f \in Work!Listed : content[f].text}
                    IN  /\ readable \ changed \subseteq found.scanned
                        /\ changed = {} =>
                             found.matches = Work!SumFunctionOnSet(Hits, readable)
  BY DEF SearchIsHonest, Work!SearchIsHonest, Ended, Hits
<1> DEFINE readable == {f \in Work!Listed : content[f].text}
<1>1. ReadingInv /\ files = <<>>
  BY DEF HonestInv
<1>2. Work!Range(files) = {}
  BY <1>1 DEF Work!Range
<1>3. readable \ changed \subseteq found.scanned
  BY <1>1, <1>2 DEF ReadingInv
<1>4. ASSUME changed = {}
      PROVE  found.matches = Work!SumFunctionOnSet(Hits, readable)
  <2>1. found.scanned \subseteq readable
    BY <1>1, <1>4 DEF ReadingInv
  <2>2. found.scanned = readable
    BY <1>3, <1>4, <2>1
  <2>3. found.matches = SumFunctionOnSet(Hits, found.scanned)
    BY <1>1, <1>4 DEF ReadingInv
  <2>4. Work!SumFunctionOnSet(Hits, readable) = SumFunctionOnSet(Hits, readable)
    BY SameOperators
  <2> QED BY <2>2, <2>3, <2>4
<1> QED BY <1>3, <1>4

\* A search that does not say it was cut has read every text file that was left
\* alone, and counts all their matches (workspace-service.ts 58-240).
THEOREM SearchesAreHonest == DispatchSpec => []SearchIsHonest
<1>1. DispatchInit => HonestInv
  <2> SUFFICES ASSUME DispatchInit PROVE HonestInv
    OBVIOUS
  <2>1. Work!Init
    BY DEF DispatchInit
  <2>2. PICK s \in Starts : tree = s.tree /\ content = s.content
    BY <2>1 DEF Work!Init
  <2>3. Work!IsTree(tree) /\ content \in [Work!Listed -> Content]
    BY <2>2, DispatchAssumption DEF Work!WorkspaceParameters, Work!Listed
  <2> QED BY <2>1, <2>3 DEF Work!Init, HonestInv, TreeInv, Ended
<1>2. HonestInv /\ [DispatchNext]_dispatchVars => HonestInv'
  <2> SUFFICES ASSUME HonestInv, [DispatchNext]_dispatchVars PROVE HonestInv'
    OBVIOUS
  <2>1. CASE Work!Next
    BY <2>1, SearchKeepsHonest
  <2>2. CASE UNCHANGED workspace
    <3>1. StackInv' = StackInv /\ ListedInv' = ListedInv /\ PassedInv' = PassedInv
      BY <2>2 DEF workspace, StackInv, ListedInv, PassedInv, Distinct,
                  Work!Range, FoundAt, Met, Passed, PassedUpTo
    <3>2. ListingInv' = ListingInv
      BY <2>2, <3>1 DEF workspace, ListingInv
    <3>3. ReadingInv' = ReadingInv
      BY <2>2 DEF workspace, ReadingInv, Distinct, Work!Range, Work!Listed, Hits
    <3>4. TreeInv' = TreeInv
      BY <2>2 DEF workspace, TreeInv, Work!Listed
    <3> QED BY <2>2, <3>2, <3>3, <3>4 DEF workspace, HonestInv, Ended, Work!NothingFound
  <2> QED BY <2>1, <2>2, WorkspaceMoves
<1> QED BY <1>1, <1>2, HonestMeans, PTL DEF DispatchSpec

=============================================================================

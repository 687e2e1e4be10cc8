--------------------------- MODULE ProcessSupervisor ---------------------------
(***************************************************************************)
(* One call of ProcessSupervisor.run                                       *)
(* (packages/runtime/src/process-supervisor.ts): a child process, which    *)
(* may start a descendant, its output, and the abort signal, the timeout   *)
(* and the close of its pipes racing to end it.                            *)
(*                                                                         *)
(* The validation of the spec is a pure check before the start and is left *)
(* out.  A descendant that leaves the process group, which the decision    *)
(* record of the supervisor excludes, is not modelled; nor is the reuse of *)
(* a process id.  A microtask runs before any other event, so the end of   *)
(* #terminateTree and the finish() it leads to are one step.               *)
(***************************************************************************)
EXTENDS Naturals

CONSTANTS
  Platforms,  \* subset of {"posix", "win32"}
  MaxOutput,  \* spec.maxOutputBytes
  MaxChunk,   \* largest chunk a pipe delivers
  MaxProduced \* bound on what the tree writes

ASSUME SupervisorAssumption ==
  /\ Platforms \subseteq {"posix", "win32"}
  /\ MaxOutput \in Nat \ {0}
  /\ MaxChunk \in Nat \ {0}
  /\ MaxProduced \in Nat

VARIABLES
  platform,
  pc,        \* "idle" before run(), "waiting" for its promise, "done"
  spawned,   \* whether the operating system started the child
  aborted,   \* signal.aborted
  timer,     \* "off", "armed", "fired"
  reason,    \* terminationReason
  kill,      \* where #terminateTree is: "none", "polite", "grace", "force"
  graceful,  \* what the polite taskkill answered
  result,    \* outcome and treeTerminationConfirmed of the promise
  output,    \* bytes captured, bytes written by the tree, outputTruncated
  \* the operating system
  alive,     \* live processes of the tree
  doomed,    \* those that were sent a kill they cannot refuse
  forked,    \* whether the child started its descendant
  pipes,     \* whether the descendant inherited the child's pipes
  exitCode   \* the child's exit code, "none" while it runs

events == <<pc, spawned, aborted, timer, reason, kill, graceful, result>>
system == <<alive, doomed, forked, pipes, exitCode>>
vars == <<platform, events, output, system>>

Tree == {"child", "descendant"}

Pending == [outcome |-> "pending", confirmed |-> FALSE]

Init ==
  /\ platform \in Platforms
  /\ pc = "idle"
  /\ spawned = FALSE
  /\ aborted \in BOOLEAN
  /\ timer = "off"
  /\ reason = "none"
  /\ kill = "none"
  /\ graceful = FALSE
  /\ result = Pending
  /\ output = [captured |-> 0, produced |-> 0, truncated |-> FALSE]
  /\ alive = {}
  /\ doomed = {}
  /\ forked = FALSE
  /\ pipes = FALSE
  /\ exitCode = "none"

-----------------------------------------------------------------------------
(* finish() and requestTermination().                                      *)

\* Mutant of OutcomeFor: the exit code alone decides.
OutcomeFor_ExitOnly(cause, code) ==
  IF code = "zero" THEN "succeeded" ELSE "failed"

OutcomeFor(cause, code) ==
  IF cause # "none" THEN cause
  ELSE IF code = "zero" THEN "succeeded"
  ELSE "failed"

\* finish(code, confirmed): the timer is cleared, the listener removed.
Finish(code, confirmed) ==
  /\ pc' = "done"
  /\ timer' = IF timer = "armed" THEN "off" ELSE timer
  /\ result' = [outcome |-> OutcomeFor(reason, code), confirmed |-> confirmed]

\* Mutant of CanTerminate: a later cause starts another termination.
CanTerminate_Again == pc = "waiting" /\ spawned

CanTerminate == pc = "waiting" /\ spawned /\ reason = "none"

\* requestTermination(cause) up to the first await of #terminateTree: on POSIX
\* SIGTERM goes to the group, and an empty group is a confirmed end.
RequestTermination(cause) ==
  /\ reason' = cause
  /\ \/ /\ platform = "posix" /\ alive = {}
        /\ pc' = "done"
        /\ result' = [outcome |-> cause, confirmed |-> TRUE]
        /\ UNCHANGED kill
     \/ /\ platform = "posix" /\ alive # {}
        /\ kill' = "grace"
        /\ UNCHANGED <<pc, result>>
     \/ /\ platform = "win32"
        /\ kill' = "polite"
        /\ UNCHANGED <<pc, result>>

-----------------------------------------------------------------------------
(* run() and its events.                                                   *)

Run ==
  /\ pc = "idle"
  /\ \/ /\ aborted
        /\ pc' = "done"
        /\ result' = [outcome |-> "cancelled", confirmed |-> TRUE]
        /\ UNCHANGED <<spawned, alive, timer>>
     \/ /\ ~aborted
        /\ pc' = "waiting" /\ timer' = "armed"
        /\ \/ spawned' = TRUE /\ alive' = {"child"}
           \/ spawned' = FALSE /\ alive' = {}
        /\ UNCHANGED result
  /\ UNCHANGED <<platform, aborted, reason, kill, graceful, output, doomed,
                 forked, pipes, exitCode>>

\* The "error" event of a child that could not be started.
SpawnError ==
  /\ pc = "waiting" /\ ~spawned
  /\ pc' = "done"
  /\ timer' = IF timer = "armed" THEN "off" ELSE timer
  /\ result' = [outcome |-> "rejected", confirmed |-> FALSE]
  /\ UNCHANGED <<platform, spawned, aborted, reason, kill, graceful, output,
                 system>>

Abort ==
  /\ ~aborted
  /\ aborted' = TRUE
  /\ IF CanTerminate
     THEN RequestTermination("cancelled")
     ELSE UNCHANGED <<pc, reason, kill, result>>
  /\ timer' = IF pc' = "done" /\ timer = "armed" THEN "off" ELSE timer
  /\ UNCHANGED <<platform, spawned, graceful, output, system>>

TimerFires ==
  /\ timer = "armed"
  /\ timer' = "fired"
  /\ IF CanTerminate
     THEN RequestTermination("timed_out")
     ELSE UNCHANGED <<pc, reason, kill, result>>
  /\ UNCHANGED <<platform, spawned, aborted, graceful, output, system>>

\* capture(): both pipes share one limit; what does not fit is dropped.
Capture(n) ==
  LET remaining == MaxOutput - output.captured
      accepted == IF n < remaining THEN n ELSE remaining
  IN [captured |-> output.captured + accepted,
      produced |-> output.produced + n,
      truncated |-> output.truncated \/ remaining = 0 \/ n > accepted]

Data(n) ==
  /\ pc = "waiting" /\ spawned
  /\ output.produced + n <= MaxProduced
  /\ output' = Capture(n)
  /\ UNCHANGED <<platform, events, system>>

\* All holders of the pipes are gone.
PipesClosed ==
  /\ spawned /\ "child" \notin alive
  /\ "descendant" \in alive => ~pipes

\* Mutant of Close: the end of the child is taken for the end of the tree.
Close_Trusting ==
  /\ pc = "waiting" /\ PipesClosed
  /\ Finish(exitCode, TRUE)
  /\ UNCHANGED <<platform, spawned, aborted, reason, kill, graceful, output,
                 system>>

\* The "close" event; after a request for termination it is ignored.
Close ==
  /\ pc = "waiting" /\ PipesClosed
  /\ reason = "none"
  /\ Finish(exitCode, TRUE)
  /\ UNCHANGED <<platform, spawned, aborted, reason, kill, graceful, output,
                 system>>

-----------------------------------------------------------------------------
(* #terminateTree and #taskkill.                                           *)

\* POSIX, after the grace period: SIGKILL to whatever is left of the group.
GroupKill ==
  /\ platform = "posix" /\ kill = "grace"
  /\ doomed' = alive
  /\ kill' = "none"
  /\ Finish("none", TRUE)
  /\ UNCHANGED <<platform, spawned, aborted, reason, graceful, output, alive,
                 forked, pipes, exitCode>>

\* "taskkill /T" finds the tree from its root: without the child it fails; it
\* may also fail or take too long for other reasons.
PoliteTaskkill(ok) ==
  /\ kill = "polite"
  /\ ok => "child" \in alive
  /\ graceful' = ok
  /\ kill' = "grace"
  /\ UNCHANGED <<platform, pc, spawned, aborted, timer, reason, result, output,
                 system>>

GraceEnds ==
  /\ platform = "win32" /\ kill = "grace"
  /\ kill' = "force"
  /\ UNCHANGED <<platform, pc, spawned, aborted, timer, reason, graceful,
                 result, output, system>>

\* Mutant of ForcedTaskkill: the result is left to the close event.
ForcedTaskkill_AwaitsClose(ok) ==
  /\ kill = "force"
  /\ ok => "child" \in alive
  /\ doomed' = IF ok THEN alive ELSE doomed
  /\ kill' = "none"
  /\ UNCHANGED <<platform, pc, spawned, aborted, timer, reason, graceful,
                 result, output, alive, forked, pipes, exitCode>>

\* "taskkill /T /F", and the probe of the child when both failed.
ForcedTaskkill(ok) ==
  /\ kill = "force"
  /\ ok => "child" \in alive
  /\ doomed' = IF ok THEN alive ELSE doomed
  /\ kill' = "none"
  /\ Finish("none", graceful \/ ok \/ "child" \notin alive)
  /\ UNCHANGED <<platform, spawned, aborted, reason, graceful, output, alive,
                 forked, pipes, exitCode>>

-----------------------------------------------------------------------------
(* The operating system.                                                   *)

Fork(inherits) ==
  /\ "child" \in alive \ doomed /\ ~forked
  /\ forked' = TRUE
  /\ pipes' = inherits
  /\ alive' = alive \cup {"descendant"}
  /\ UNCHANGED <<platform, events, output, doomed, exitCode>>

ChildExits(code) ==
  /\ "child" \in alive
  /\ "child" \in doomed => code = "other"
  /\ alive' = alive \ {"child"}
  /\ exitCode' = code
  /\ UNCHANGED <<platform, events, output, doomed, forked, pipes>>

DescendantExits ==
  /\ "descendant" \in alive
  /\ alive' = alive \ {"descendant"}
  /\ UNCHANGED <<platform, events, output, doomed, forked, pipes, exitCode>>

-----------------------------------------------------------------------------
Supervise ==
  \/ SpawnError \/ TimerFires \/ Close \/ GroupKill \/ GraceEnds
  \/ \E ok \in BOOLEAN : PoliteTaskkill(ok)
  \/ \E ok \in BOOLEAN : ForcedTaskkill(ok)

System ==
  \/ \E n \in 1 .. MaxChunk : Data(n)
  \/ \E inherits \in BOOLEAN : Fork(inherits)
  \/ \E code \in {"zero", "other"} : ChildExits(code)
  \/ DescendantExits

Next == Run \/ Abort \/ Supervise \/ System

Spec == Init /\ [][Next]_vars

-----------------------------------------------------------------------------
(* Properties.                                                             *)

\* The type invariant, with the limit of the captured output.
TypeOK ==
  /\ platform \in Platforms
  /\ pc \in {"idle", "waiting", "done"}
  /\ spawned \in BOOLEAN /\ aborted \in BOOLEAN
  /\ timer \in {"off", "armed", "fired"}
  /\ reason \in {"none", "cancelled", "timed_out"}
  /\ kill \in {"none", "polite", "grace", "force"}
  /\ graceful \in BOOLEAN
  /\ result \in [outcome : {"pending", "succeeded", "failed", "cancelled",
                            "timed_out", "rejected"},
                 confirmed : BOOLEAN]
  /\ output \in [captured : 0 .. MaxOutput, produced : Nat, truncated : BOOLEAN]
  /\ alive \subseteq Tree /\ doomed \subseteq Tree
  /\ forked \in BOOLEAN /\ pipes \in BOOLEAN
  /\ exitCode \in {"none", "zero", "other"}

\* The result names what ended the process: success is an exit of its own
\* with code zero that nobody had tried to end, and a cancellation or a
\* timeout really was the first of the two to happen.  Output is told to be
\* truncated exactly when some of it was dropped.
OutcomeTellsCause ==
  /\ result.outcome = "succeeded" => reason = "none" /\ exitCode = "zero"
  /\ result.outcome = "failed" => reason = "none" /\ exitCode = "other"
  /\ result.outcome = "timed_out" => reason = "timed_out" /\ timer = "fired"
  /\ result.outcome = "cancelled" => aborted /\ reason # "timed_out"
  /\ output.truncated <=> output.captured < output.produced

\* The first cause stays the cause, and a result is given once: a late signal
\* or exit changes neither.
CauseIsFinal ==
  [][/\ reason # "none" => reason' = reason
     /\ pc = "done" => result' = result]_vars

\* A terminated tree is confirmed only when nothing of it survives the call on
\* POSIX.  On Windows the confirmation is weaker: the polite taskkill reached
\* the tree, or the child itself is gone or going.
ConfirmedTreeIsDoomed ==
  pc = "done" /\ reason # "none" /\ result.confirmed =>
    \/ alive \subseteq doomed
    \/ platform = "win32" /\ (graceful \/ "child" \notin alive)

=============================================================================

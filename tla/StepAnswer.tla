------------------------------ MODULE StepAnswer ------------------------------
(***************************************************************************)
(* What the runtime takes for granted of whoever it dispatches a step to   *)
(* (packages/runtime/src: dispatcher-registry.ts, runtime-engine.ts): one  *)
(* answer, whose parts do not contradict each other.  The runtime's        *)
(* actions LocalAnswer, LocalThrows and ProviderAnswer are guarded by it.  *)
(***************************************************************************)
EXTENDS StoreRules

VARIABLES
  desk,    \* "idle", "called", "answered"
  aborted, \* the signal of the call
  given    \* the answer

vars == <<desk, aborted, given>>

NoAnswer == [outcome |-> "none", tree |-> TRUE, remote |-> "none"]
Threw == [outcome |-> "threw", tree |-> TRUE, remote |-> "none"]

\* A tree is FALSE when its termination is said to be unconfirmed, a remote
\* state "none" when nothing is remote.
Promised(answer) ==
  /\ answer.outcome \in Outcome \cup {"threw"}
  /\ answer.outcome = "succeeded" => answer.tree
  /\ answer.outcome = "cancelled" => aborted
  /\ \/ answer.remote = "none"
     \/ answer.remote = answer.outcome
     \/ answer.outcome = "timed_out" /\ answer.remote \in {"failed", "cancelled"}

Init ==
  /\ desk = "idle"
  /\ aborted \in BOOLEAN
  /\ given = NoAnswer

Ask ==
  /\ desk # "called"
  /\ desk' = "called"
  /\ aborted' \in BOOLEAN
  /\ given' = NoAnswer

Abort ==
  /\ ~aborted
  /\ aborted' = TRUE
  /\ UNCHANGED <<desk, given>>

\* An answer may be given without anything having been started.
Give ==
  /\ desk # "answered"
  /\ desk' = "answered"
  /\ Promised(given')
  /\ UNCHANGED aborted

\* The process dies while the call is awaited.
Lose ==
  /\ desk = "called"
  /\ desk' = "idle"
  /\ UNCHANGED <<aborted, given>>

Spec == Init /\ [][Ask \/ Abort \/ Give \/ Lose]_vars

=============================================================================

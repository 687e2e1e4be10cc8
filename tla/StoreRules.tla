------------------------------ MODULE StoreRules ------------------------------
(***************************************************************************)
(* The vocabulary and the transition tables of the persistence store:      *)
(* which status may follow which, for runs (store.ts,                      *)
(* allowedRunTransitions) and for provider attempts (store.ts, the         *)
(* "transitions" table of updateProviderExecutionState).  "none" stands    *)
(* for a row that does not exist.                                          *)
(***************************************************************************)

RunStatus ==
  {"none", "planned", "awaiting_approval", "approved", "running",
   "completed", "failed", "cancelled", "timed_out", "orphaned"}

TerminalRun == {"completed", "failed", "cancelled", "timed_out", "orphaned"}

RunSuccessors(status) ==
  CASE status = "planned" ->
         {"awaiting_approval", "approved", "running", "failed", "cancelled"}
    [] status = "awaiting_approval" -> {"approved", "failed", "cancelled"}
    [] status = "approved" -> {"running", "failed", "cancelled"}
    [] status = "running" -> TerminalRun
    [] OTHER -> {}

ApprovalStatus ==
  {"none", "pending", "granted", "denied", "expired", "consumed"}

RemoteState ==
  {"none", "not_dispatched", "dispatching", "accepted", "running",
   "cancel_requested", "succeeded", "failed", "cancelled",
   "remote_state_unknown"}

\* States of an attempt whose request may be in the provider's hands.
LiveRemote == {"dispatching", "accepted", "running", "cancel_requested"}

\* States in which Runtime.cancel still records a cancellation request.
CancellableRemote == {"dispatching", "accepted", "running"}

SettledRemote == {"succeeded", "failed", "cancelled"}

RemoteSuccessors(state) ==
  CASE state = "not_dispatched" -> {"dispatching"}
    [] state = "dispatching" ->
         {"accepted", "running", "cancel_requested", "remote_state_unknown"}
           \cup SettledRemote
    [] state = "accepted" ->
         {"running", "cancel_requested", "remote_state_unknown"}
           \cup SettledRemote
    [] state = "running" ->
         {"cancel_requested", "remote_state_unknown"} \cup SettledRemote
    [] state = "cancel_requested" ->
         {"running", "cancelled", "failed", "remote_state_unknown"}
    [] state = "remote_state_unknown" -> SettledRemote
    [] OTHER -> {}

Outcome == {"succeeded", "failed", "cancelled", "timed_out"}

=============================================================================

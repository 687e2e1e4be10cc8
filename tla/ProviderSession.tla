----------------------------- MODULE ProviderSession -----------------------------
(***************************************************************************)
(* The sessions of the reference provider on one request                   *)
(* (packages/provider-adapters/src/reference-provider.ts), as adapter-host *)
(* and provider-step-dispatcher pass them to the runtime: execute() or     *)
(* recover() from a checkpoint, the stream of chunks, the budgets, the one *)
(* retry, the caller's abort and the timeout.  A session that failed, was  *)
(* cancelled or died with the process is followed by one that recovers.    *)
(*                                                                         *)
(* A session awaits nothing but the delay before each chunk, so that is    *)
(* where the abort, the timeout and a crash fall, and what follows a delay *)
(* up to the next one is one step.                                         *)
(***************************************************************************)
EXTENDS Naturals, Sequences

CONSTANTS
  ResponseSize,  \* size of the response
  ChunkSize,     \* size of its chunks, the last of which may be shorter
  ChunkBudgets,  \* maxChunks that requests may have
  SizeBudgets,   \* maxOutputBytes that requests may have
  MaxSessions    \* bound on the sessions

ProviderParameters ==
  /\ {ResponseSize, ChunkSize, MaxSessions} \subseteq Nat \ {0}
  /\ ChunkBudgets \subseteq Nat \ {0}
  /\ SizeBudgets \subseteq Nat \ {0}

NChunks == (ResponseSize + ChunkSize - 1) \div ChunkSize
Size(n) == IF n < NChunks THEN ChunkSize * n ELSE ResponseSize
Chunks(n) == [i \in 1 .. n |-> i]

IsEnd(n) == n = NChunks

Scenario == {"normal", "slow", "error", "recoverable_error"}
Checkpoint == [next : 0 .. NChunks, size : 0 .. ResponseSize]
NoCheckpoint == [next |-> 0, size |-> 0]

VARIABLES
  request,  \* scenario and budgets of the request
  at,       \* "idle", "delay": between sessions, before a chunk
  output,   \* the chunks of the response so far
  point,    \* the session's last checkpoint
  begun,    \* the checkpoint the session began from
  resuming, \* whether the stream runs as a recovery
  events,   \* what the session has told its consumer
  result,   \* of the last session
  stopped,  \* what stopped the session from outside: "no", "abort", "timeout"
  saved,    \* the checkpoints the consumer has in the store
  sessions

vars == <<request, at, output, point, begun, resuming, events, result, stopped,
          saved, sessions>>

NoResult == [outcome |-> "none", code |-> "none", chunks |-> 0]

Event(type) == [type |-> type, chunk |-> 0]
Delta(i) == [type |-> "delta", chunk |-> i]
CheckpointEvent(i) == [type |-> "checkpoint", chunk |-> i]

Init ==
  /\ request \in [scenario : Scenario, maxChunks : ChunkBudgets,
                  maxSize : SizeBudgets]
  /\ at = "idle"
  /\ output = <<>>
  /\ point = NoCheckpoint
  /\ begun = NoCheckpoint
  /\ resuming = FALSE
  /\ events = <<>>
  /\ result = NoResult
  /\ stopped = "no"
  /\ saved = {}
  /\ sessions = 0

-----------------------------------------------------------------------------
(* The end of a session.                                                   *)

Succeed(told, chunks) ==
  /\ at' = "idle"
  /\ events' = told \o <<Event("usage"), Event("completed")>>
  /\ result' = [outcome |-> "succeeded", code |-> "none", chunks |-> chunks]

\* The usage of a failure counts what was consumed.
Fail(told, outcome, code, chunks) ==
  /\ at' = "idle"
  /\ events' = told \o <<Event("error")>>
  /\ result' = [outcome |-> outcome, code |-> code, chunks |-> chunks]

-----------------------------------------------------------------------------
(* The beginning of a session.                                             *)

Execute ==
  /\ at = "idle" /\ sessions < MaxSessions
  /\ sessions' = sessions + 1
  /\ at' = "delay"
  /\ output' = <<>>
  /\ point' = NoCheckpoint /\ begun' = NoCheckpoint
  /\ resuming' = FALSE
  /\ events' = <<Event("started")>>
  /\ result' = NoResult
  /\ stopped' = "no"
  /\ UNCHANGED <<request, saved>>

\* #stateFromCheckpoint: the response up to the checkpoint has its size.
Matches(checkpoint) == Size(checkpoint.next) = checkpoint.size

\* A checkpoint that does not match is noticed after "started" was told, and
\* the session rejects without a terminal event.  One at the end of the
\* response leaves nothing to stream.
Recover(checkpoint) ==
  /\ at = "idle" /\ sessions < MaxSessions
  /\ sessions' = sessions + 1
  /\ point' = checkpoint /\ begun' = checkpoint
  /\ resuming' = TRUE
  /\ stopped' = "no"
  /\ IF Matches(checkpoint)
     THEN /\ output' = Chunks(checkpoint.next)
          /\ \/ /\ ~IsEnd(checkpoint.next)
                /\ at' = "delay"
                /\ events' = <<Event("started")>>
                /\ result' = NoResult
             \/ /\ IsEnd(checkpoint.next)
                /\ Succeed(<<Event("started")>>, NChunks)
     ELSE /\ output' = <<>>
          /\ at' = "idle"
          /\ events' = <<Event("started")>>
          /\ result' = [NoResult EXCEPT !.outcome = "threw"]
  /\ UNCHANGED <<request, saved>>

-----------------------------------------------------------------------------
(* The stream.                                                             *)

\* The chunk the transport is about to yield, counted from 1.
NextChunk == Len(output) + 1

\* The scenario has the transport fail before this chunk: the first one, or
\* the second one (there are always two) of a stream that is no recovery.
Breaks ==
  \/ request.scenario = "error" /\ NextChunk = 1
  \/ request.scenario = "recoverable_error" /\ ~resuming /\ NextChunk = 2

CanRetry ==
  /\ request.scenario = "recoverable_error"
  /\ begun = NoCheckpoint /\ ~resuming

\* Mutant of Retry: the stream is resumed from the start of the response.
Retry_FromStart ==
  /\ at = "delay" /\ Breaks /\ CanRetry
  /\ resuming' = TRUE
  /\ output' = <<>>
  /\ UNCHANGED <<request, at, point, begun, events, result, stopped, saved,
                 sessions>>

\* A retryable error of a session that is no recovery: the stream is resumed
\* from the last checkpoint, once.
Retry ==
  /\ at = "delay" /\ Breaks /\ CanRetry
  /\ resuming' = TRUE
  /\ output' = Chunks(point.next)
  /\ UNCHANGED <<request, at, point, begun, events, result, stopped, saved,
                 sessions>>

TransportFails ==
  /\ at = "delay" /\ Breaks /\ ~CanRetry
  /\ Fail(events, "failed", "transport_error", Len(output))
  /\ UNCHANGED <<request, output, point, begun, resuming, stopped, saved,
                 sessions>>

\* Mutant of OverBudget: the size is compared before the chunk is added.
OverBudget_Late ==
  \/ NextChunk > request.maxChunks
  \/ Size(Len(output)) > request.maxSize

OverBudget ==
  \/ NextChunk > request.maxChunks
  \/ Size(NextChunk) > request.maxSize

ChunkRefused ==
  /\ at = "delay" /\ ~Breaks /\ OverBudget
  /\ Fail(events, "failed",
          IF NextChunk > request.maxChunks THEN "chunk_budget_exceeded"
          ELSE "output_budget_exceeded", Len(output))
  /\ UNCHANGED <<request, output, point, begun, resuming, stopped, saved,
                 sessions>>

\* A chunk is told, then its checkpoint, which the runtime saves or, when the
\* store refuses, throws into the session.
ChunkArrives(accepted) ==
  LET n == NextChunk
      here == [next |-> n, size |-> Size(n)]
      told == events \o <<Delta(n), CheckpointEvent(n)>>
  IN /\ at = "delay" /\ ~Breaks /\ ~OverBudget
     /\ output' = Append(output, n)
     /\ point' = here
     /\ IF ~accepted
        THEN /\ Fail(told, "failed", "protocol_error", n)
             /\ UNCHANGED saved
        ELSE /\ saved' = saved \cup {here}
             /\ \/ IsEnd(n) /\ Succeed(told, n)
                \/ /\ ~IsEnd(n)
                   /\ events' = told
                   /\ UNCHANGED <<at, result>>
     /\ UNCHANGED <<request, begun, resuming, stopped, sessions>>

-----------------------------------------------------------------------------
(* What stops a session.                                                   *)

\* The caller aborts, or the timer of the time budget fires: the delay rejects.
Stop(how) ==
  LET outcome == IF how = "timeout" THEN "timed_out" ELSE "cancelled"
  IN /\ at = "delay"
     /\ stopped' = how
     /\ Fail(events, outcome, outcome, Len(output))
     /\ UNCHANGED <<request, output, point, begun, resuming, saved, sessions>>

\* The process dies: only what is in the store is left.
Crash ==
  /\ at = "delay"
  /\ at' = "idle"
  /\ output' = <<>>
  /\ point' = NoCheckpoint /\ begun' = NoCheckpoint
  /\ resuming' = FALSE
  /\ events' = <<>>
  /\ result' = NoResult
  /\ stopped' = "no"
  /\ UNCHANGED <<request, saved, sessions>>

-----------------------------------------------------------------------------
\* A checkpoint whose size is wrong, of another version of the response.
Stale == {c \in Checkpoint : c.next > 0 /\ c.size = 0}

StreamStep ==
  \/ Retry \/ TransportFails \/ ChunkRefused
  \/ \E accepted \in BOOLEAN : ChunkArrives(accepted)

Next ==
  \/ Execute
  \/ \E checkpoint \in saved \cup Stale : Recover(checkpoint)
  \/ StreamStep
  \/ \E how \in {"abort", "timeout"} : Stop(how)
  \/ Crash

Spec == Init /\ [][Next]_vars

-----------------------------------------------------------------------------
(* Properties.                                                             *)

\* "The other limits fail closed during the execution"
\* (docs/architecture/reference-provider-contract.md): a success carries the
\* whole response, every chunk once and in order, however often the stream was
\* interrupted and resumed, and stays within the budgets; what has been put
\* together so far is a beginning of the response and within them too.
ResponseIsWhole ==
  /\ output = Chunks(Len(output))
  /\ Len(output) <= request.maxChunks /\ Size(Len(output)) <= request.maxSize
  /\ result.outcome = "succeeded" => Len(output) = NChunks

\* What a session tells of its first n chunks: each of them, counted from where
\* the session began, and its checkpoint.
Body(n) == [i \in 1 .. 2 * n |->
  LET chunk == begun.next + (i + 1) \div 2
  IN IF i % 2 = 1 THEN Delta(chunk) ELSE CheckpointEvent(chunk)]

Ending ==
  CASE result.outcome = "none" -> <<>>
    [] result.outcome = "succeeded" -> <<Event("usage"), Event("completed")>>
    [] OTHER -> <<Event("error")>>

\* The consumer of a session is told "started", then exactly the chunks by which
\* the response has grown, each once, in order and with its checkpoint, however
\* often the stream broke and was resumed, and at the end the terminal event that
\* agrees with the result.  A session that rejects its checkpoint tells its start
\* only.
StreamIsWellFormed ==
  /\ result.outcome = "threw" => events = <<Event("started")>>
  /\ result.outcome # "threw" /\ events # <<>> =>
       events = <<Event("started")>> \o Body(Len(output) - begun.next) \o Ending

=============================================================================

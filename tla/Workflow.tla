-------------------------------- MODULE Workflow --------------------------------
(***************************************************************************)
(* The coordinated workflow: recall of memory, a team of agents, synthesis *)
(* with at most one repair, commit to memory, evaluation (packages/agents, *)
(* packages/workflows, packages/memory and the memory_entries table), as   *)
(* the runtime drives its steps in the order that Planning gives.          *)
(*                                                                         *)
(* Runs of several plans interleave at the calls of the provider, the only *)
(* awaits, and share the table.  Sizes are in units of MinOutput's scale;  *)
(* input bytes, elapsed time and cost, which are budgeted like the output, *)
(* are left out but for their exhaustion (CallFails).  A response is good  *)
(* if it passes the checks of the synthesis.  Approvals, evidence and      *)
(* checkpoints are Runtime's.                                              *)
(***************************************************************************)
EXTENDS Planning, SequencesExt

CONSTANTS
  Run,        \* executions of workflows
  Namespace,  \* workspaces
  Budgets,    \* the budgets that requests may have
  Sizes,      \* the sizes that responses may have
  Stored,     \* the contents that memory may begin with
  MinOutput,  \* the least output an agent is given: 256 bytes
  recall, team, synthesis, commit, evaluation  \* the five capabilities

Entry == [run : Run \cup {"earlier"}, namespace : Namespace, size : Nat,
          good : BOOLEAN, state : {"valid", "expired", "deleted"}]
Budget == [agents : 1 .. 3, calls : 1 .. 4, output : Nat, items : Nat,
           bytes : Nat, replans : 0 .. 1]

\* The entries that memory begins with are of an earlier process.
ASSUME WorkflowAssumption ==
  /\ MinOutput \in Nat \ {0}
  /\ Budgets \subseteq Budget
  /\ Sizes \subseteq Nat
  /\ "earlier" \notin Run
  /\ \A m \in Stored : m \in Seq(Entry) /\ \A i \in DOMAIN m : m[i].run = "earlier"

\* The five are published with the dependencies that chain them.
ASSUME PublishedAssumption ==
  /\ {recall, team, synthesis, commit, evaluation} \subseteq Capability
  /\ recall \notin {team, synthesis, commit, evaluation}
  /\ team \notin {synthesis, commit, evaluation}
  /\ synthesis \notin {commit, evaluation} /\ commit # evaluation
  /\ \A reg \in Registries : reg[evaluation].status = "on" =>
       /\ commit \in reg[evaluation].deps /\ synthesis \in reg[commit].deps
       /\ team \in reg[synthesis].deps

VARIABLES
  open,    \* the workspace of the session
  run,     \* what each execution has done
  memory   \* memory_entries, by created_at, the oldest first

workVars == <<open, run, memory>>
vars == <<planVars, workVars>>

NoBudget == [agents |-> 1, calls |-> 1, output |-> 0, items |-> 0, bytes |-> 0,
             replans |-> 0]

\* of a run: where it is in the plan, what the workspace lets it recall, the
\* output limit of the call in flight (0: none), what it used, its candidate
NoRun == [status |-> "none", namespace |-> "none", private |-> TRUE,
          budget |-> NoBudget, step |-> 1, limit |-> 0, recalled |-> {},
          answers |-> 0, replans |-> 0, output |-> 0,
          candidate |-> [good |-> FALSE, size |-> 0]]

WorkInit ==
  /\ Init
  /\ open \in Namespace
  /\ run = [r \in Run |-> NoRun]
  /\ memory \in Stored

Running(r) == run[r].status = "running"
Calling(r) == Running(r) /\ run[r].limit > 0
AtStep(r, c) == Running(r) /\ run[r].limit = 0 /\ ordered[run[r].step] = c

Calls(r) == run[r].answers + run[r].replans + (IF run[r].limit > 0 THEN 1 ELSE 0)
OutputLeft(r) == run[r].budget.output - run[r].output

\* An ended run leaves nothing but its status, and here whether it was private.
Ended(r, status) == [NoRun EXCEPT !.status = status, !.private = run[r].private]
End(r, status) == [run EXCEPT ![r] = Ended(r, status)]

-----------------------------------------------------------------------------
(* Memory                                                                  *)

\* Mutant of Current: what expired is recalled until it is pruned.
Current_Expired(i, namespace) ==
  /\ memory[i].namespace = namespace
  /\ memory[i].state # "deleted"

\* The query of listMemoryEntries.
Current(i, namespace) ==
  /\ memory[i].namespace = namespace
  /\ memory[i].state = "valid"

Newer(i, j) == j < i

SizeOf(S) == SumFunctionOnSet([i \in DOMAIN memory |-> memory[i].size], S)

\* The newest entries, up to the first that exceeds a budget.
Recalled(namespace, budget) ==
  LET rows == {i \in DOMAIN memory : Current(i, namespace)}
      upTo(i) == {j \in rows : i = j \/ Newer(j, i)}
  IN  {i \in rows : /\ Cardinality(upTo(i)) <= budget.items
                    /\ SizeOf(upTo(i)) <= budget.bytes}

Recall(r) ==
  /\ AtStep(r, recall)
  /\ LET found == IF run[r].private THEN {}
                  ELSE Recalled(run[r].namespace, run[r].budget)
     IN  run' = [run EXCEPT ![r].recalled = found, ![r].step = @ + 1]
  /\ UNCHANGED <<planVars, open, memory>>

Commit(r) ==
  /\ AtStep(r, commit)
  /\ run' = [run EXCEPT ![r].step = @ + 1]
  /\ memory' = IF run[r].private THEN memory
               ELSE Append(memory, [run |-> r, namespace |-> run[r].namespace,
                                    size |-> run[r].candidate.size,
                                    good |-> run[r].candidate.good,
                                    state |-> "valid"])
  /\ UNCHANGED <<planVars, open>>

\* expires_at passes.
Expire(i) ==
  /\ memory[i].state = "valid"
  /\ memory' = [memory EXCEPT ![i].state = "expired"]
  /\ UNCHANGED <<planVars, open, run>>

Forget(i) ==
  /\ memory[i].state # "deleted"
  /\ memory' = [memory EXCEPT ![i] = [@ EXCEPT !.state = "deleted", !.size = 0]]
  /\ UNCHANGED <<planVars, open, run>>

\* Opening a workspace, refused while a run executes, prunes every namespace.
OpenWorkspace(w) ==
  /\ phase = "used" /\ \A r \in Run : ~Running(r)
  /\ open' = w
  /\ memory' = [i \in DOMAIN memory |->
                  IF memory[i].state = "expired"
                  THEN [memory[i] EXCEPT !.state = "deleted", !.size = 0]
                  ELSE memory[i]]
  /\ UNCHANGED <<planVars, run>>

-----------------------------------------------------------------------------
(* The team                                                                *)

\* Mutant of CanCall: the least output is given even if there is less left.
CanCall_Exhausted(r) == run[r].budget.agents <= run[r].budget.calls

CanCall(r) ==
  /\ run[r].budget.agents <= run[r].budget.calls
  /\ OutputLeft(r) >= MinOutput

Share(r) ==
  LET equal == OutputLeft(r) \div (run[r].budget.agents - run[r].answers)
  IN  IF equal > MinOutput THEN equal ELSE MinOutput

\* The next role in turn is called with its share of the output that is left.
CallRole(r) ==
  /\ AtStep(r, team)
  /\ run' = IF CanCall(r) THEN [run EXCEPT ![r].limit = Share(r)]
            ELSE End(r, "failed")
  /\ UNCHANGED <<planVars, open, memory>>

\* A role answers: the last answer is the candidate.
Answer(r, size, good) ==
  /\ Calling(r) /\ ordered[run[r].step] = team
  /\ size <= run[r].limit
  /\ LET last == run[r].answers + 1 = run[r].budget.agents
     IN  run' = [run EXCEPT ![r].limit = 0,
                            ![r].answers = @ + 1,
                            ![r].output = @ + size,
                            ![r].candidate = [good |-> good, size |-> size],
                            ![r].step = IF last THEN @ + 1 ELSE @]
  /\ UNCHANGED <<planVars, open, memory>>

\* The provider fails, or input, cost or time are exhausted.
CallFails(r) ==
  /\ Calling(r)
  /\ run' = End(r, "failed")
  /\ UNCHANGED <<planVars, open, memory>>

Cancel(r) ==
  /\ Calling(r)
  /\ run' = End(r, "cancelled")
  /\ UNCHANGED <<planVars, open, memory>>

-----------------------------------------------------------------------------
(* Synthesis and evaluation                                                *)

CanRepair(r) ==
  /\ run[r].budget.replans > 0
  /\ run[r].budget.calls > run[r].answers
  /\ OutputLeft(r) > 0

\* Mutant of Synthesize: the candidate is passed on whatever the checks say.
Synthesize_Unchecked(r) ==
  /\ AtStep(r, synthesis)
  /\ run' = [run EXCEPT ![r].step = @ + 1]
  /\ UNCHANGED <<planVars, open, memory>>

Synthesize(r) ==
  /\ AtStep(r, synthesis)
  /\ run' = IF run[r].candidate.good THEN [run EXCEPT ![r].step = @ + 1]
            ELSE IF CanRepair(r) THEN [run EXCEPT ![r].limit = OutputLeft(r)]
            ELSE End(r, "failed")
  /\ UNCHANGED <<planVars, open, memory>>

Repaired(r, size, good) ==
  /\ Calling(r) /\ ordered[run[r].step] = synthesis
  /\ size <= run[r].limit
  /\ run' = IF good THEN [run EXCEPT ![r].limit = 0,
                                     ![r].replans = 1,
                                     ![r].output = @ + size,
                                     ![r].candidate = [good |-> TRUE, size |-> size],
                                     ![r].step = @ + 1]
            ELSE End(r, "failed")
  /\ UNCHANGED <<planVars, open, memory>>

\* What was committed is what the checks passed: the evaluation accepts it.
EvaluateResult(r) ==
  /\ AtStep(r, evaluation)
  /\ run' = End(r, IF run[r].candidate.good THEN "completed" ELSE "failed")
  /\ UNCHANGED <<planVars, open, memory>>

-----------------------------------------------------------------------------
(* The run                                                                 *)

\* The plan of the route is the same for every request that is not blocked.
Start(r, private, budget) ==
  /\ phase \in {"planned", "used"} /\ verdict # "blocked" /\ goal = {evaluation}
  /\ run[r].status = "none"
  /\ phase' = "used"
  /\ run' = [run EXCEPT ![r] = [NoRun EXCEPT !.status = "running",
                                             !.namespace = open,
                                             !.private = private,
                                             !.budget = budget]]
  /\ UNCHANGED <<registry, request, goal, roots, stack, ordered, issues, verdict,
                 open, memory>>

\* The store refuses a write of a step, the entry of the commit among them.  Its
\* run ends as failed (cancelled, if a cancellation came too late to be noticed);
\* it is told apart here, as it may have committed before.
StoreRefuses(r) ==
  /\ Running(r) /\ ~Calling(r)
  /\ run' = End(r, "refused")
  /\ UNCHANGED <<planVars, open, memory>>

\* The process dies and recovery finds the runs: only the store is left.
Crash ==
  /\ \E r \in Run : Running(r)
  /\ run' = [r \in Run |-> IF Running(r) THEN Ended(r, "orphaned") ELSE run[r]]
  /\ UNCHANGED <<planVars, open, memory>>

Pipeline(r) ==
  \/ Recall(r) \/ CallRole(r) \/ CallFails(r) \/ Cancel(r) \/ Synthesize(r)
  \/ Commit(r) \/ EvaluateResult(r) \/ StoreRefuses(r)
  \/ \E size \in Sizes, good \in BOOLEAN :
       Answer(r, size, good) \/ Repaired(r, size, good)

WorkNext ==
  \/ \E r \in Run, private \in BOOLEAN, b \in Budgets : Start(r, private, b)
  \/ \E r \in Run : Pipeline(r)
  \/ \E i \in DOMAIN memory : Expire(i) \/ Forget(i)
  \/ \E w \in Namespace : OpenWorkspace(w)
  \/ Crash

Next == (PlanNext /\ UNCHANGED workVars) \/ WorkNext

Spec == WorkInit /\ [][Next]_vars

-----------------------------------------------------------------------------
(* Properties                                                              *)

\* The team and the repair share one budget (docs/architecture/
\* workflows-agents-memory.md, "Budgets compartidos"; agent-team.ts 48-169,
\* workflow-engine.ts 73-137): at no time have they made more calls, or had
\* and been promised more output, than the request allows, and what was
\* recalled fits its budgets too.
BudgetsHold ==
  \A r \in Run :
    /\ Calls(r) <= run[r].budget.calls
    /\ run[r].output + run[r].limit <= run[r].budget.output
    /\ run[r].replans <= run[r].budget.replans
    /\ Cardinality(run[r].recalled) <= run[r].budget.items
    /\ SizeOf(run[r].recalled) <= run[r].budget.bytes

\* What is in memory was earned (memory-service.ts 96-160, dispatchers.ts
\* 51-71 of workflows): each entry is the candidate that passed the checks of
\* one run, of a standard request, in its workspace; a run that failed in a step
\* or was cancelled in one left none, and a standard one that completed left
\* exactly one.
MemoryIsEarned ==
  /\ \A i \in DOMAIN memory : memory[i].run \in Run =>
       LET r == memory[i].run IN
         /\ run[r].status \in {"running", "completed", "refused", "orphaned"}
         /\ memory[i].good /\ ~run[r].private
         /\ Running(r) => /\ memory[i].namespace = run[r].namespace
                          /\ run[r].candidate.good
                          /\ memory[i].size \in {0, run[r].candidate.size}
         /\ \A j \in DOMAIN memory : memory[j].run = r => j = i
  /\ \A r \in Run : run[r].status = "completed" /\ ~run[r].private =>
       \E i \in DOMAIN memory : memory[i].run = r

\* A recall takes only what the workspace of the session stored and neither
\* expired nor was forgotten, the newest first, and nothing for a private
\* request (memory-service.ts 34-94, store.ts 1217-1240).
RecallIsCurrent ==
  [][\A r \in Run : \A i \in run'[r].recalled \ run[r].recalled :
       /\ memory[i].namespace = open /\ memory[i].state = "valid"
       /\ ~run[r].private
       /\ \A j \in (i + 1) .. Len(memory) :
            memory[j].namespace = open /\ memory[j].state = "valid" =>
              j \in run'[r].recalled]_vars

=============================================================================

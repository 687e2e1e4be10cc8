-------------------------------- MODULE Planning --------------------------------
(***************************************************************************)
(* OrchestrationEngine.preview(): the strategy selects a route, the        *)
(* planner expands its dependencies depth first, the policy engine judges  *)
(* each step and the preflight evaluation gives the verdict                *)
(* (packages/orchestration-engine/src, packages/policy-engine/src).        *)
(*                                                                         *)
(* preview() runs without an await; its recursion is cut into calls and    *)
(* returns of visit(), with the call stack in a variable.  The order of    *)
(* arrays (of dependencies, of requested capabilities) is left open.       *)
(* Scores are abstracted: any matching, eligible route may have the best.  *)
(***************************************************************************)
EXTENDS Naturals, Sequences, FiniteSets, Functions

CONSTANTS
  Capability,  \* identifiers of capabilities
  Registries,  \* the registries to plan with
  Requests,    \* the requests to plan for
  MaxSteps     \* MAX_PLAN_STEPS

Status == {"absent", "off", "on"}  \* "off" unavailable or disabled, "on" others
Risk == {"safe", "guarded", "sensitive", "destructive"}
Kind == {"read", "write", "execute", "network", "git", "delete", "system",
         "credentials"}
Profile == {"observer", "assistant", "developer"}

Action == [risk : Risk, kinds : SUBSET Kind \ {{}}]
Descriptor == [status : Status, deps : SUBSET Capability, action : Action]
Request == [explicit : BOOLEAN, wants : SUBSET Capability, profile : Profile,
            private : BOOLEAN]

\* An explicit request names the capabilities it wants; of another, wants are
\* the routes with a term that occurs in its objective.  The constructor of the
\* registry refuses a capability that depends on itself.
ASSUME PlanningAssumption ==
  /\ IsFiniteSet(Capability)
  /\ MaxSteps \in Nat
  /\ Registries \subseteq [Capability -> Descriptor]
  /\ \A reg \in Registries : \A c \in Capability : c \notin reg[c].deps
  /\ Requests \subseteq Request
  /\ \A q \in Requests : q.explicit => q.wants # {}

VARIABLES
  registry,  \* the capabilities of the session, fixed
  request,   \* the request being planned for
  phase,     \* "idle", "planning", "planned", "used" once it was executed
  goal,      \* the capabilities of the selected strategy, {} if unavailable
  roots,     \* those that the planner has yet to visit
  stack,     \* the activations of visit(), with the dependencies left to visit
  ordered,   \* the capabilities planned, in the order of their steps
  issues,    \* the issues of the plan
  verdict    \* of the preflight evaluation

planVars == <<registry, request, phase, goal, roots, stack, ordered, issues,
              verdict>>

NoRequest == [explicit |-> FALSE, wants |-> {}, profile |-> "observer",
              private |-> TRUE]

Init ==
  /\ registry \in Registries
  /\ request = NoRequest
  /\ phase = "idle"
  /\ goal = {} /\ roots = {}
  /\ stack = <<>> /\ ordered = <<>>
  /\ issues = {}
  /\ verdict = "none"

-----------------------------------------------------------------------------
(* Strategy                                                                *)

Deps(c) == registry[c].deps
On(c) == registry[c].status = "on"
NeedsNetwork(c) == "network" \in registry[c].action.kinds

Closed(S) == \A c \in S : registry[c].status # "absent" => Deps(c) \subseteq S

\* What a set of capabilities needs, itself included.
Closure(S) ==
  LET enough == {T \in SUBSET Capability : S \subseteq T /\ Closed(T)}
  IN  {c \in Capability : \A T \in enough : c \in T}

Eligible(q, S) ==
  /\ \A c \in Closure(S) : On(c)
  /\ q.private => \A c \in Closure(S) : ~NeedsNetwork(c)

Candidates(q) == IF q.explicit THEN {q.wants} ELSE {{c} : c \in q.wants}

Select(q) ==
  /\ phase = "idle"
  /\ LET eligible == {S \in Candidates(q) : Eligible(q, S)}
     IN  goal' \in IF eligible = {} THEN {{}} ELSE eligible
  /\ request' = q
  /\ phase' = "planning"
  /\ roots' = goal'
  /\ UNCHANGED <<registry, stack, ordered, issues, verdict>>

-----------------------------------------------------------------------------
(* Planner                                                                 *)

Issue(code, c) == [code |-> code, cap |-> c]

Visiting == {stack[i].cap : i \in DOMAIN stack}
Visited == Range(ordered)

\* Mutant of CallIssues: a capability being visited is taken for visited.
CallIssues_NoCycle(c) ==
  IF registry[c].status = "on" THEN {} ELSE {Issue("missing", c)}

\* What a call of visit(c) complains of, when c is not visited yet.
CallIssues(c) ==
  IF c \in Visiting THEN {Issue("cycle", c)}
  ELSE IF registry[c].status = "absent" THEN {Issue("missing", c)}
  ELSE IF registry[c].status = "off" THEN {Issue("unavailable", c)}
  ELSE {}

\* The stack below the call of visit(c): its caller has one call less to make.
Called(c) ==
  IF stack = <<>> THEN stack
  ELSE [stack EXCEPT ![Len(stack)].left = @ \ {c}]

\* visit(c) called by the loop over the route's capabilities, or by the loop
\* over the dependencies of the innermost activation.
Visit(c) ==
  /\ phase = "planning"
  /\ c \in IF stack = <<>> THEN roots ELSE stack[Len(stack)].left
  /\ roots' = IF stack = <<>> THEN roots \ {c} ELSE roots
  /\ IF c \in Visited
     THEN stack' = Called(c) /\ UNCHANGED issues
     ELSE /\ issues' = issues \cup CallIssues(c)
          /\ stack' = IF c \in Visiting \/ ~On(c) THEN Called(c)
                      ELSE Append(Called(c), [cap |-> c, left |-> Deps(c)])
  /\ UNCHANGED <<registry, request, phase, goal, ordered, verdict>>

\* Mutant of Placed: a capability is planned before its dependencies.
Placed_First(c) == <<c>> \o ordered

Placed(c) == Append(ordered, c)

\* The end of the innermost activation.
Leave ==
  /\ phase = "planning" /\ stack # <<>>
  /\ LET c == stack[Len(stack)].cap
         faulty == \E i \in issues : i.cap = c
         full == Len(ordered) >= MaxSteps
     IN  /\ stack[Len(stack)].left = {}
         /\ ordered' = IF faulty \/ full THEN ordered ELSE Placed(c)
         /\ issues' = IF full /\ ~faulty /\ ~\E i \in issues : i.code = "limit"
                      THEN issues \cup {Issue("limit", c)} ELSE issues
  /\ stack' = SubSeq(stack, 1, Len(stack) - 1)
  /\ UNCHANGED <<registry, request, phase, goal, roots, verdict>>

-----------------------------------------------------------------------------
(* Policy and preflight                                                    *)

\* A privileged action (destructive, delete, system) is neither of the two that
\* are allowed.
Policy(profile, action) ==
  LET safeRead == /\ action.risk = "safe" /\ "read" \in action.kinds
                  /\ action.kinds \subseteq {"read", "git"}
      ownWrite == /\ profile = "developer"
                  /\ action.risk = "guarded" /\ action.kinds = {"write"}
  IN  IF "credentials" \in action.kinds THEN "deny"
      ELSE IF safeRead THEN "allow"
      ELSE IF profile = "observer" THEN "deny"
      ELSE IF ownWrite THEN "allow"
      ELSE "require_approval"

Decisions == {Policy(request.profile, registry[c].action) : c \in Visited}

Preflight ==
  IF goal = {} \/ issues # {} \/ ordered = <<>> \/ "deny" \in Decisions
  THEN "blocked"
  ELSE IF "require_approval" \in Decisions THEN "approval_required"
  ELSE "ready"

Evaluate ==
  /\ phase = "planning" /\ roots = {} /\ stack = <<>>
  /\ phase' = "planned"
  /\ verdict' = Preflight
  /\ UNCHANGED <<registry, request, goal, roots, stack, ordered, issues>>

\* preview() has returned: the next one begins afresh.
Return ==
  /\ phase = "planned"
  /\ request' = NoRequest
  /\ phase' = "idle"
  /\ goal' = {} /\ roots' = {}
  /\ stack' = <<>> /\ ordered' = <<>>
  /\ issues' = {}
  /\ verdict' = "none"
  /\ UNCHANGED registry

PlanNext ==
  \/ \E q \in Requests : Select(q)
  \/ \E c \in Capability : Visit(c)
  \/ Leave
  \/ Evaluate
  \/ Return

PlanSpec == Init /\ [][PlanNext]_planVars

-----------------------------------------------------------------------------
(* Properties                                                              *)

PlanTypeOK ==
  /\ registry \in [Capability -> Descriptor]
  /\ request \in Requests \cup {NoRequest}
  /\ phase \in {"idle", "planning", "planned", "used"}
  /\ goal \subseteq Capability /\ roots \subseteq goal
  /\ stack \in Seq([cap : Capability, left : SUBSET Capability])
  /\ ordered \in Seq(Capability)
  /\ issues \subseteq [code : {"cycle", "missing", "unavailable", "limit"},
                       cap : Capability]
  /\ verdict \in {"none", "blocked", "approval_required", "ready"}

DependenciesEarlier ==
  \A i \in DOMAIN ordered : Deps(ordered[i]) \subseteq {ordered[j] : j \in 1 .. (i - 1)}

NoDuplicates == \A i, j \in DOMAIN ordered : ordered[i] = ordered[j] => i = j

\* A plan that is not blocked is whole and in order, for any graph of
\* capabilities: it has exactly what the route needs, each capability once and
\* after all it depends on (execution-planner.ts 78-136; the runtime executes
\* the steps in this order and gives each the outputs of its dependencies).
PlanIsOrdered ==
  phase = "planned" /\ verdict # "blocked" =>
    /\ Range(ordered) = Closure(goal)
    /\ DependenciesEarlier
    /\ NoDuplicates
    /\ Len(ordered) <= MaxSteps

ReadOnly(c) ==
  registry[c].action.risk = "safe" /\ registry[c].action.kinds \in {{"read"}, {"read", "git"}}
OwnWrite(c) ==
  /\ request.profile = "developer"
  /\ registry[c].action = [risk |-> "guarded", kinds |-> {"write"}]
Forbidden(c) ==
  \/ "credentials" \in registry[c].action.kinds
  \/ request.profile = "observer" /\ ~ReadOnly(c)
OnCycle(c) == c \in Closure(Deps(c))

\* What must keep a set of capabilities from being planned for the request.
Unfit(S) ==
  \/ Cardinality(Closure(S)) > MaxSteps
  \/ \E c \in Closure(S) :
       \/ ~On(c) \/ OnCycle(c) \/ Forbidden(c)
       \/ request.private /\ NeedsNetwork(c)

\* The verdict is what the request deserves, whichever component finds the
\* fault (strategy-engine.ts 42-180, execution-planner.ts 22-136, policy
\* index.ts 18-92, evaluation-engine.ts 13-70): an explicit request is blocked
\* if and only if something it needs is missing, switched off, on a cycle, too
\* much, on the network in private mode or forbidden to its profile; another is
\* never planned with such a route; and only reads and a developer's own writes
\* need no approval.
VerdictIsRight ==
  phase = "planned" =>
    /\ request.explicit => (verdict = "blocked" <=> Unfit(request.wants))
    /\ ~request.explicit =>
         IF verdict = "blocked"
         THEN request.wants # {} => \E c \in request.wants : Unfit({c})
         ELSE \E c \in request.wants : goal = {c} /\ ~Unfit({c})
    /\ verdict # "blocked" =>
         (verdict = "ready" <=> \A c \in Closure(goal) : ReadOnly(c) \/ OwnWrite(c))

=============================================================================

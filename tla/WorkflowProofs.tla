----------------------------- MODULE WorkflowProofs -----------------------------
(***************************************************************************)
(* Proofs about planning, for every graph of capabilities, every request   *)
(* and every limit (a plan that is not blocked is whole and in order, and  *)
(* the verdict is the one that the request deserves), and about the        *)
(* coordinated workflow: the plan that its runs follow stays what the      *)
(* planner and the policy made it, what is in memory was earned, and the   *)
(* budgets hold.                                                           *)
(***************************************************************************)
EXTENDS Workflow, FoldFacts, SequenceTheorems, FiniteSetTheorems, TLAPS

Activation == [cap : Capability, left : SUBSET Capability]

-----------------------------------------------------------------------------
(* The inductive invariant of planning                                     *)

\* What a phase says of the planner.
PhaseInv ==
  /\ phase = "idle" =>
       goal = {} /\ roots = {} /\ stack = <<>> /\ ordered = <<>> /\ issues = {}
  /\ phase = "planned" =>
       roots = {} /\ stack = <<>> /\ (verdict # "blocked" => issues = {})

\* No capability is visited twice.
OnceInv ==
  /\ \A i, j \in DOMAIN stack : stack[i].cap = stack[j].cap => i = j
  /\ \A i \in DOMAIN stack : stack[i].cap \notin Visited
  /\ NoDuplicates
  /\ Len(ordered) <= MaxSteps

\* Nothing is visited that the route does not need.
NeededInv ==
  /\ \A i \in DOMAIN stack :
       /\ stack[i].cap \in Closure(goal)
       /\ On(stack[i].cap)
       /\ stack[i].left \subseteq Deps(stack[i].cap)
  /\ Visited \subseteq Closure(goal)

\* Where a dependency is of the capability visited by the i-th activation.
Accounted(d, i) ==
  \/ d \in Visited
  \/ d \in stack[i].left
  \/ i + 1 \in DOMAIN stack /\ d = stack[i + 1].cap

\* Where a capability of the route is.
RootAccounted(d) ==
  \/ d \in Visited
  \/ d \in roots
  \/ 1 \in DOMAIN stack /\ d = stack[1].cap

\* As long as there is no issue, nothing that is needed is forgotten.
WholeInv ==
  issues = {} =>
    /\ \A i \in DOMAIN stack : \A d \in Deps(stack[i].cap) : Accounted(d, i)
    /\ \A d \in goal : RootAccounted(d)
    /\ DependenciesEarlier

PlanInv == PlanTypeOK /\ PhaseInv /\ OnceInv /\ NeededInv /\ WholeInv

-----------------------------------------------------------------------------
(* The closure                                                             *)

\* The closure of a set has what its members depend on, and is the least such.
LEMMA ClosureFacts ==
  ASSUME registry \in [Capability -> Descriptor], NEW S \in SUBSET Capability
  PROVE  /\ Closure(S) \subseteq Capability
         /\ S \subseteq Closure(S)
         /\ \A c \in Closure(S) : On(c) => Deps(c) \subseteq Closure(S)
         /\ \A T \in SUBSET Capability :
              S \subseteq T /\ Closed(T) => Closure(S) \subseteq T
<1>1. \A c \in Closure(S) : On(c) => Deps(c) \subseteq Closure(S)
  <2> SUFFICES ASSUME NEW c \in Closure(S), On(c), NEW d \in Deps(c)
               PROVE  d \in Closure(S)
    OBVIOUS
  <2>1. c \in Capability /\ d \in Capability
    BY DEF Closure, Deps, Descriptor
  <2>2. \A T \in SUBSET Capability : S \subseteq T /\ Closed(T) => d \in T
    BY DEF Closure, Closed, On
  <2> QED BY <2>1, <2>2 DEF Closure
<1> QED BY <1>1 DEF Closure

-----------------------------------------------------------------------------
(* Calls and returns                                                       *)

\* The caller's loop has one call less to make; nothing else of the stack changes.
LEMMA CalledFacts ==
  ASSUME stack \in Seq(Activation), NEW c
  PROVE  /\ Called(c) \in Seq(Activation)
         /\ Len(Called(c)) = Len(stack)
         /\ \A i \in 1 .. Len(stack) :
              /\ Called(c)[i].cap = stack[i].cap
              /\ Called(c)[i].left = IF i = Len(stack) THEN stack[i].left \ {c}
                                     ELSE stack[i].left
<1>1. CASE stack = <<>>
  BY <1>1 DEF Called
<1>2. CASE stack # <<>>
  <2> DEFINE n == Len(stack)
             a == [stack[n] EXCEPT !.left = @ \ {c}]
  <2>1. n \in Nat \ {0} /\ stack[n] \in Activation
    BY <1>2, EmptySeq, ElementOfSeq
  <2>2. a \in Activation
    BY <2>1 DEF Activation
  <2>3. Called(c) = [stack EXCEPT ![n] = a]
    BY <1>2 DEF Called
  <2>4. Called(c) \in Seq(Activation) /\ Len(Called(c)) = n
    BY <2>1, <2>2, <2>3
  <2>5. \A i \in 1 .. n : Called(c)[i] = IF i = n THEN a ELSE stack[i]
    BY <2>1, <2>3
  <2> QED BY <2>1, <2>4, <2>5 DEF Activation
<1> QED BY <1>1, <1>2

\* What is called is needed.
LEMMA CalledNeeded ==
  ASSUME PlanInv, NEW c \in Capability, Visit(c)
  PROVE  c \in Closure(goal)
<1> USE DEF PlanInv, PlanTypeOK
<1>0. /\ goal \subseteq Closure(goal)
      /\ \A b \in Closure(goal) : On(b) => Deps(b) \subseteq Closure(goal)
  BY ClosureFacts
<1>1. CASE stack = <<>>
  BY <1>0, <1>1 DEF Visit
<1>2. CASE stack # <<>>
  <2>1. Len(stack) \in DOMAIN stack
    BY <1>2, EmptySeq
  <2>2. c \in stack[Len(stack)].left
    BY <1>2 DEF Visit
  <2> QED BY <1>0, <2>1, <2>2 DEF NeededInv
<1> QED BY <1>1, <1>2

\* A call that returns at once: only the caller's loop changes, and issues.
LEMMA CallReturns ==
  ASSUME PlanInv, NEW c \in Capability, Visit(c), stack' = Called(c),
         issues \subseteq issues',
         issues' \subseteq [code : {"cycle", "missing", "unavailable", "limit"},
                            cap : Capability],
         issues' = {} => c \in Visited
  PROVE  PlanInv'
<1> USE DEF Deps, On
<1> DEFINE n == Len(stack)
<1>0. /\ stack \in Seq(Activation)
      /\ n \in Nat /\ DOMAIN stack = 1 .. n
  BY DEF PlanInv, PlanTypeOK, Activation
<1>1. /\ stack' \in Seq(Activation)
      /\ DOMAIN stack' = 1 .. n
      /\ \A i \in 1 .. n :
           /\ stack'[i].cap = stack[i].cap
           /\ stack'[i].left = IF i = n THEN stack[i].left \ {c} ELSE stack[i].left
  <2>1. /\ Called(c) \in Seq(Activation) /\ Len(Called(c)) = n
        /\ \A i \in 1 .. n :
             /\ Called(c)[i].cap = stack[i].cap
             /\ Called(c)[i].left = IF i = n THEN stack[i].left \ {c}
                                    ELSE stack[i].left
    BY <1>0, CalledFacts
  <2>2. stack' \in Seq(Activation) /\ Len(stack') = n
    BY <2>1
  <2>3. DOMAIN stack' = 1 .. n
    BY <2>2
  <2>4. \A i \in 1 .. n : stack'[i].cap = stack[i].cap
    BY <2>1
  <2>5. \A i \in 1 .. n : stack'[i].left = IF i = n THEN stack[i].left \ {c} ELSE stack[i].left
    BY <2>1
  <2> QED BY <2>2, <2>3, <2>4, <2>5
<1>2. /\ UNCHANGED <<registry, request, phase, goal, ordered, verdict>>
      /\ phase = "planning"
      /\ roots' = IF stack = <<>> THEN roots \ {c} ELSE roots
  BY DEF Visit
<1>3. /\ Visited' = Visited /\ Closure(goal)' = Closure(goal)
      /\ NoDuplicates' = NoDuplicates /\ DependenciesEarlier' = DependenciesEarlier
  BY <1>2 DEF Visited, Closure, Closed, NoDuplicates, DependenciesEarlier
<1>4. PlanTypeOK'
  BY <1>1, <1>2 DEF PlanInv, PlanTypeOK, Activation
<1>5. PhaseInv'
  BY <1>2 DEF PhaseInv
<1>6. OnceInv'
  BY <1>0, <1>1, <1>2, <1>3 DEF PlanInv, OnceInv
<1>7. NeededInv'
  <2>1. \A i \in 1 .. n : /\ stack[i].cap \in Closure(goal)
                          /\ registry[stack[i].cap].status = "on"
                          /\ stack[i].left \subseteq registry[stack[i].cap].deps
    BY <1>0 DEF PlanInv, NeededInv
  <2>2. \A i \in 1 .. n : /\ stack'[i].cap \in Closure(goal)
                          /\ registry[stack'[i].cap].status = "on"
                          /\ stack'[i].left \subseteq registry[stack'[i].cap].deps
    BY <1>1, <2>1
  <2> QED BY <1>1, <1>2, <1>3, <2>2 DEF PlanInv, NeededInv
<1>8. WholeInv'
  <2> SUFFICES ASSUME issues' = {}
               PROVE  /\ \A i \in DOMAIN stack' :
                           \A d \in registry[stack'[i].cap].deps : Accounted(d, i)'
                      /\ \A d \in goal' : RootAccounted(d)'
                      /\ DependenciesEarlier'
    BY <1>2 DEF WholeInv
  <2>1. c \in Visited /\ issues = {}
    OBVIOUS
  <2>2. /\ \A i \in 1 .. n : \A d \in Deps(stack[i].cap) : Accounted(d, i)
        /\ \A d \in goal : RootAccounted(d)
        /\ DependenciesEarlier
    BY <1>0, <2>1 DEF PlanInv, WholeInv
  <2>3. ASSUME NEW i \in 1 .. n, NEW d \in Deps(stack[i].cap)
        PROVE  Accounted(d, i)'
    BY <1>0, <1>1, <1>3, <2>1, <2>2, <2>3 DEF Accounted
  <2>4. ASSUME NEW d \in goal
        PROVE  RootAccounted(d)'
    BY <1>0, <1>1, <1>2, <1>3, <2>1, <2>2, <2>4 DEF RootAccounted
  <2> QED BY <1>1, <1>2, <1>3, <2>2, <2>3, <2>4
<1> QED BY <1>4, <1>5, <1>6, <1>7, <1>8 DEF PlanInv

\* A call that goes on to the dependencies of what is visited.
LEMMA CallEnters ==
  ASSUME PlanInv, NEW c \in Capability, Visit(c), c \notin Visited,
         c \notin Visiting, On(c)
  PROVE  PlanInv'
<1> USE DEF Deps, On
<1> DEFINE n == Len(stack)
           a == [cap |-> c, left |-> Deps(c)]
<1>0. /\ stack \in Seq(Activation)
      /\ n \in Nat /\ DOMAIN stack = 1 .. n
      /\ registry[c] \in Descriptor
  BY DEF PlanInv, PlanTypeOK, Activation
<1>1. a \in Activation
  BY <1>0 DEF Activation, Deps, Descriptor
<1>2. /\ UNCHANGED <<registry, request, phase, goal, ordered, issues, verdict>>
      /\ phase = "planning"
      /\ roots' = IF stack = <<>> THEN roots \ {c} ELSE roots
      /\ stack' = Append(Called(c), a)
  BY DEF Visit, CallIssues, On
<1>3. /\ stack' \in Seq(Activation)
      /\ DOMAIN stack' = 1 .. n + 1
      /\ \A i \in 1 .. n :
           /\ stack'[i].cap = stack[i].cap
           /\ stack'[i].left = IF i = n THEN stack[i].left \ {c} ELSE stack[i].left
      /\ stack'[n + 1] = a
      /\ \A i \in 1 .. n + 1 : i \in 1 .. n \/ i = n + 1
  <2>1. /\ Called(c) \in Seq(Activation) /\ Len(Called(c)) = n
        /\ \A i \in 1 .. n :
             /\ Called(c)[i].cap = stack[i].cap
             /\ Called(c)[i].left = IF i = n THEN stack[i].left \ {c}
                                    ELSE stack[i].left
    BY <1>0, CalledFacts
  <2>2. /\ stack' \in Seq(Activation) /\ Len(stack') = n + 1
        /\ \A i \in 1 .. n : stack'[i] = Called(c)[i]
        /\ stack'[n + 1] = a
    BY <1>1, <1>2, <2>1, AppendProperties
  <2>3. DOMAIN stack' = 1 .. n + 1
    BY <2>2
  <2>4. \A i \in 1 .. n : stack'[i].cap = stack[i].cap
    BY <2>1, <2>2
  <2>5. \A i \in 1 .. n : stack'[i].left = IF i = n THEN stack[i].left \ {c}
                                             ELSE stack[i].left
    BY <2>1, <2>2
  <2>6. \A i \in 1 .. n + 1 : i \in 1 .. n \/ i = n + 1
    BY <1>0
  <2> QED BY <2>2, <2>3, <2>4, <2>5, <2>6
<1>4. /\ Visited' = Visited /\ Closure(goal)' = Closure(goal)
      /\ NoDuplicates' = NoDuplicates /\ DependenciesEarlier' = DependenciesEarlier
  BY <1>2 DEF Visited, Closure, Closed, NoDuplicates, DependenciesEarlier
<1>5. PlanTypeOK'
  BY <1>2, <1>3 DEF PlanInv, PlanTypeOK, Activation
<1>6. PhaseInv'
  BY <1>2 DEF PhaseInv
<1>7. OnceInv'
  <2>1. \A i \in 1 .. n : stack[i].cap # c
    BY <1>0 DEF Visiting
  <2>2. \A i, j \in 1 .. n : stack'[i].cap = stack'[j].cap => i = j
    BY <1>0, <1>3 DEF PlanInv, OnceInv
  <2>3. \A i \in 1 .. n : stack'[i].cap # c /\ stack'[i].cap \notin Visited
    BY <1>0, <1>3, <2>1 DEF PlanInv, OnceInv
  <2>4. stack'[n + 1].cap = c
    BY <1>3
  <2>5. \A i, j \in 1 .. n + 1 : stack'[i].cap = stack'[j].cap => i = j
    BY <1>3, <2>2, <2>3, <2>4
  <2>6. \A i \in 1 .. n + 1 : stack'[i].cap \notin Visited
    BY <1>3, <2>3, <2>4
  <2> QED BY <1>2, <1>3, <1>4, <2>5, <2>6 DEF PlanInv, OnceInv
<1>8. NeededInv'
  <2>1. c \in Closure(goal)
    BY CalledNeeded
  <2>2. \A i \in 1 .. n : /\ stack'[i].cap \in Closure(goal)
                          /\ registry[stack'[i].cap].status = "on"
                          /\ stack'[i].left \subseteq registry[stack'[i].cap].deps
    BY <1>0, <1>3 DEF PlanInv, NeededInv
  <2>3. /\ stack'[n + 1].cap \in Closure(goal)
        /\ registry[stack'[n + 1].cap].status = "on"
        /\ stack'[n + 1].left \subseteq registry[stack'[n + 1].cap].deps
    BY <1>3, <2>1
  <2>4. \A i \in DOMAIN stack' : /\ stack'[i].cap \in Closure(goal)
                                 /\ registry[stack'[i].cap].status = "on"
                                 /\ stack'[i].left \subseteq registry[stack'[i].cap].deps
    BY <1>3, <2>2, <2>3
  <2> QED BY <1>2, <1>4, <2>4 DEF PlanInv, NeededInv
<1>9. WholeInv'
  <2> SUFFICES ASSUME issues = {}
               PROVE  /\ \A i \in DOMAIN stack' :
                           \A d \in registry[stack'[i].cap].deps : Accounted(d, i)'
                      /\ \A d \in goal' : RootAccounted(d)'
                      /\ DependenciesEarlier'
    BY <1>2 DEF WholeInv
  <2>2. /\ \A i \in 1 .. n : \A d \in Deps(stack[i].cap) : Accounted(d, i)
        /\ \A d \in goal : RootAccounted(d)
        /\ DependenciesEarlier
    BY <1>0 DEF PlanInv, WholeInv
  <2>1. n + 1 \in 1 .. n + 1
    BY <1>0
  <2>0. n + 1 \in DOMAIN stack' /\ stack'[n + 1].cap = c /\ stack'[n + 1].left = Deps(c)
    BY <1>3, <2>1
  <2>3. ASSUME NEW i \in 1 .. n, NEW d \in Deps(stack[i].cap)
        PROVE  Accounted(d, i)'
    <3>1. CASE d \in Visited
      BY <1>4, <3>1 DEF Accounted
    <3>2. CASE d \in stack[i].left /\ (i # n \/ d # c)
      <4>1. d \in stack'[i].left
        BY <1>3, <3>2
      <4> QED BY <4>1 DEF Accounted
    <3>3. CASE d = c /\ i = n
      <4>1. i + 1 \in DOMAIN stack' /\ d = stack'[i + 1].cap
        BY <2>0, <3>3
      <4> QED BY <4>1 DEF Accounted
    <3>4. CASE i + 1 \in 1 .. n /\ d = stack[i + 1].cap
      <4>1. i + 1 \in 1 .. n + 1
        BY <1>0, <3>4
      <4>2. d = stack'[i + 1].cap
        BY <1>3, <3>4
      <4> QED BY <1>3, <4>1, <4>2 DEF Accounted
    <3> QED BY <1>0, <2>2, <3>1, <3>2, <3>3, <3>4 DEF Accounted
  <2>5. ASSUME NEW d \in goal
        PROVE  RootAccounted(d)'
    <3>1. CASE n = 0
      BY <1>0, <1>2, <1>3, <1>4, <2>2, <2>5, <3>1 DEF RootAccounted
    <3>2. CASE n > 0
      <4>1. /\ stack # <<>> /\ 1 \in DOMAIN stack'
            /\ stack'[1].cap = stack[1].cap
        <5>1. 1 \in 1 .. n /\ 1 \in 1 .. n + 1
          BY <1>0, <3>2
        <5>2. 1 \in DOMAIN stack' /\ stack'[1].cap = stack[1].cap
          BY <1>3, <5>1
        <5>3. stack # <<>>
          BY <3>2, EmptySeq
        <5> QED BY <5>2, <5>3
      <4> QED BY <1>2, <1>4, <2>2, <2>5, <4>1 DEF RootAccounted
    <3> QED BY <1>0, <3>1, <3>2
  <2>6. ASSUME NEW i \in DOMAIN stack', NEW d \in registry[stack'[i].cap].deps
        PROVE  Accounted(d, i)'
    <3>1. CASE i \in 1 .. n
      BY <1>3, <2>3, <3>1
    <3>2. CASE i = n + 1
      <4>1. d \in stack'[i].left
        BY <2>0, <2>6, <3>2
      <4> QED BY <4>1 DEF Accounted
    <3> QED BY <1>3, <3>1, <3>2
  <2> QED BY <1>2, <1>4, <2>2, <2>5, <2>6
<1> QED BY <1>5, <1>6, <1>7, <1>8, <1>9 DEF PlanInv

\* Every call preserves the invariant.
LEMMA VisitKeeps ==
  ASSUME PlanInv, NEW c \in Capability, Visit(c)
  PROVE  PlanInv'
<1> DEFINE Issues == [code : {"cycle", "missing", "unavailable", "limit"},
                      cap : Capability]
<1>0. /\ issues \subseteq Issues
      /\ registry[c].status \in {"absent", "off", "on"}
  BY DEF PlanInv, PlanTypeOK, Descriptor, Status
<1>1. CASE c \in Visited
  BY <1>0, <1>1, CallReturns DEF Visit
<1>2. CASE c \notin Visited /\ (c \in Visiting \/ ~On(c))
  <2>0. PICK code \in {"cycle", "missing", "unavailable"} :
             CallIssues(c) = {Issue(code, c)}
    BY <1>0, <1>2 DEF CallIssues, On
  <2>1. CallIssues(c) # {} /\ CallIssues(c) \subseteq Issues
    BY <2>0 DEF Issue
  <2>2. stack' = Called(c) /\ issues' = issues \cup CallIssues(c)
    BY <1>2 DEF Visit
  <2> QED BY <1>0, <2>1, <2>2, CallReturns
<1>3. CASE c \notin Visited /\ c \notin Visiting /\ On(c)
  BY <1>3, CallEnters
<1> QED BY <1>1, <1>2, <1>3

\* The end of an activation: the one below is now the innermost.
LEMMA LeaveFacts ==
  ASSUME PlanInv, Leave
  PROVE  /\ stack' \in Seq(Activation)
         /\ Len(stack) \in Nat \ {0} /\ DOMAIN stack = 1 .. Len(stack)
         /\ DOMAIN stack' = 1 .. (Len(stack) - 1)
         /\ \A i \in 1 .. (Len(stack) - 1) : stack'[i] = stack[i]
<1> DEFINE n == Len(stack)
<1>0. stack \in Seq(Activation) /\ stack # <<>> /\ stack' = SubSeq(stack, 1, n - 1)
  BY DEF PlanInv, PlanTypeOK, Activation, Leave
<1>1. n \in Nat \ {0} /\ DOMAIN stack = 1 .. n
  BY <1>0, EmptySeq
<1>2. \A i \in 1 .. n - 1 : stack[i] \in Activation
  BY <1>0, <1>1, ElementOfSeq
<1>3. /\ stack' \in Seq(Activation)
      /\ Len(stack') = IF 1 <= n - 1 THEN n - 1 - 1 + 1 ELSE 0
      /\ \A i \in 1 .. n - 1 - 1 + 1 : stack'[i] = stack[1 + i - 1]
  <2>1. 1 \in Int /\ n - 1 \in Int
    BY <1>1
  <2> QED BY <1>0, <1>2, <2>1, SubSeqProperties
<1>4. Len(stack') = n - 1
  <2>1. (IF 1 <= n - 1 THEN n - 1 - 1 + 1 ELSE 0) = n - 1
    BY <1>1
  <2> QED BY <1>3, <2>1
<1>5. \A i \in 1 .. n - 1 : stack'[i] = stack[i]
  <2> SUFFICES ASSUME NEW i \in 1 .. n - 1
               PROVE  stack'[i] = stack[i]
    OBVIOUS
  <2>1. i \in 1 .. n - 1 - 1 + 1 /\ 1 + i - 1 = i
    BY <1>1
  <2> QED BY <1>3, <2>1
<1>6. DOMAIN stack' = 1 .. n - 1
  BY <1>3, <1>4
<1> QED BY <1>1, <1>3, <1>5, <1>6

\* The end of an activation preserves the invariant.
LEMMA LeaveKeeps ==
  ASSUME PlanInv, Leave
  PROVE  PlanInv'
<1> USE DEF Deps, On
<1> DEFINE n == Len(stack)
           c == stack[n].cap
           faulty == \E i \in issues : i.cap = c
           full == Len(ordered) >= MaxSteps
<1>0. /\ stack' \in Seq(Activation)
      /\ n \in Nat \ {0} /\ DOMAIN stack = 1 .. n
      /\ DOMAIN stack' = 1 .. (n - 1)
      /\ \A i \in 1 .. (n - 1) : stack'[i] = stack[i]
  BY LeaveFacts
<1>1. /\ n \in 1 .. n
      /\ \A i \in 1 .. (n - 1) : i \in 1 .. n /\ i # n
      /\ \A i \in 1 .. n : i \in 1 .. (n - 1) \/ i = n
  <2>1. n \in Nat \ {0}
    BY <1>0
  <2> QED BY <2>1
<1>2. /\ UNCHANGED <<registry, request, phase, goal, roots, verdict>>
      /\ phase = "planning" /\ stack[n].left = {}
      /\ ordered' = IF faulty \/ full THEN ordered ELSE Append(ordered, c)
      /\ issues' = IF full /\ ~faulty /\ ~\E i \in issues : i.code = "limit"
                   THEN issues \cup {Issue("limit", c)} ELSE issues
  BY DEF Leave, Placed
<1>3. /\ stack \in Seq(Activation) /\ stack[n] \in Activation
      /\ c \in Capability /\ c \in Closure(goal)
      /\ c \notin Visited
      /\ ordered \in Seq(Capability) /\ Len(ordered) \in Nat
      /\ DOMAIN ordered = 1 .. Len(ordered)
      /\ MaxSteps \in Nat
  <2>1. stack \in Seq(Activation) /\ stack[n] \in Activation
    BY <1>1, ElementOfSeq DEF PlanInv, PlanTypeOK, Activation
  <2>2. c \in Capability
    BY <2>1 DEF Activation
  <2>3. c \in Closure(goal) /\ c \notin Visited
    BY <1>0, <1>1 DEF PlanInv, OnceInv, NeededInv
  <2>4. ordered \in Seq(Capability) /\ MaxSteps \in Nat
    BY PlanningAssumption DEF PlanInv, PlanTypeOK
  <2>5. Len(ordered) \in Nat /\ DOMAIN ordered = 1 .. Len(ordered)
    BY <2>4
  <2> QED BY <2>1, <2>2, <2>3, <2>4, <2>5
<1>4. Closure(goal)' = Closure(goal)
  BY <1>2 DEF Closure, Closed
<1>5. PhaseInv'
  BY <1>2 DEF PhaseInv
<1>6. \A i \in DOMAIN stack' : /\ stack'[i].cap \in Closure(goal)
                               /\ registry[stack'[i].cap].status = "on"
                               /\ stack'[i].left \subseteq registry[stack'[i].cap].deps
  <2>1. \A i \in 1 .. n : /\ stack[i].cap \in Closure(goal)
                          /\ registry[stack[i].cap].status = "on"
                          /\ stack[i].left \subseteq registry[stack[i].cap].deps
    BY <1>0 DEF PlanInv, NeededInv
  <2> QED BY <1>0, <1>1, <2>1
<1>7. CASE ~faulty /\ ~full
  <2>1. /\ ordered' = Append(ordered, c) /\ issues' = issues
        /\ ordered' \in Seq(Capability)
        /\ Len(ordered') = Len(ordered) + 1
        /\ DOMAIN ordered' = 1 .. Len(ordered) + 1
        /\ \A i \in 1 .. Len(ordered) : ordered'[i] = ordered[i]
        /\ ordered'[Len(ordered) + 1] = c
    <3>1. ordered' = Append(ordered, c) /\ issues' = issues
      BY <1>2, <1>7
    <3>2. /\ ordered' \in Seq(Capability)
          /\ Len(ordered') = Len(ordered) + 1
          /\ \A i \in 1 .. Len(ordered) : ordered'[i] = ordered[i]
          /\ ordered'[Len(ordered) + 1] = c
      BY <1>3, <3>1, AppendProperties
    <3>3. DOMAIN ordered' = 1 .. Len(ordered) + 1
      BY <3>2
    <3> QED BY <3>1, <3>2, <3>3
  <2>2. /\ Len(ordered) + 1 \in 1 .. Len(ordered) + 1
        /\ \A i \in 1 .. Len(ordered) : i \in 1 .. Len(ordered) + 1
        /\ \A i \in 1 .. Len(ordered) + 1 : i \in 1 .. Len(ordered) \/ i = Len(ordered) + 1
    BY <1>3
  <2>3. Visited' = Visited \cup {c}
    BY <1>3, <2>1, <2>2 DEF Visited, Range
  <2>4. PlanTypeOK'
    BY <1>0, <1>2, <2>1 DEF PlanInv, PlanTypeOK, Activation
  <2>5. OnceInv'
    <3>1. \A i, j \in 1 .. (n - 1) : stack'[i].cap = stack'[j].cap => i = j
      BY <1>0, <1>1 DEF PlanInv, OnceInv
    <3>2. \A i \in 1 .. (n - 1) : stack'[i].cap \notin Visited /\ stack'[i].cap # c
      BY <1>0, <1>1 DEF PlanInv, OnceInv
    <3>3. NoDuplicates'
      <4>1. \A i \in 1 .. Len(ordered) : ordered'[i] # c
        BY <1>3, <2>1 DEF Visited, Range
      <4>2. \A i, j \in 1 .. Len(ordered) : ordered'[i] = ordered'[j] => i = j
        BY <1>3, <2>1 DEF PlanInv, OnceInv, NoDuplicates
      <4> QED BY <2>1, <2>2, <4>1, <4>2 DEF NoDuplicates
    <3>4. Len(ordered') <= MaxSteps
      BY <1>3, <1>7, <2>1
    <3> QED BY <1>0, <2>3, <3>1, <3>2, <3>3, <3>4 DEF OnceInv
  <2>6. NeededInv'
    BY <1>2, <1>3, <1>4, <1>6, <2>3 DEF PlanInv, NeededInv
  <2>7. WholeInv'
    <3> SUFFICES ASSUME issues = {}
                 PROVE  /\ \A i \in DOMAIN stack' :
                           \A d \in registry[stack'[i].cap].deps : Accounted(d, i)'
                        /\ \A d \in goal' : RootAccounted(d)'
                        /\ DependenciesEarlier'
      BY <1>2, <2>1 DEF WholeInv
    <3>1. /\ \A i \in 1 .. n : \A d \in Deps(stack[i].cap) : Accounted(d, i)
          /\ \A d \in goal : RootAccounted(d)
          /\ DependenciesEarlier
      BY <1>0 DEF PlanInv, WholeInv
    <3>2. ASSUME NEW i \in 1 .. (n - 1), NEW d \in Deps(stack[i].cap)
          PROVE  Accounted(d, i)'
      <4>1. i \in 1 .. n /\ Accounted(d, i)
        BY <1>1, <3>1
      <4>2. CASE d \in Visited
        BY <2>3, <4>2 DEF Accounted
      <4>3. CASE d \in stack[i].left
        <5>1. d \in stack'[i].left
          BY <1>0, <4>3
        <5> QED BY <5>1 DEF Accounted
      <4>4. CASE i + 1 \in 1 .. (n - 1) /\ d = stack[i + 1].cap
        <5>1. i + 1 \in DOMAIN stack' /\ d = stack'[i + 1].cap
          BY <1>0, <4>4
        <5> QED BY <5>1 DEF Accounted
      <4>5. CASE i + 1 = n /\ d = stack[i + 1].cap
        BY <2>3, <4>5 DEF Accounted
      <4> QED BY <1>0, <1>1, <4>1, <4>2, <4>3, <4>4, <4>5 DEF Accounted
    <3>3. ASSUME NEW d \in goal
          PROVE  RootAccounted(d)'
      <4>1. RootAccounted(d)
        BY <3>1
      <4>2. CASE d \in Visited
        BY <2>3, <4>2 DEF RootAccounted
      <4>3. CASE d \in roots
        BY <1>2, <4>3 DEF RootAccounted
      <4>4. CASE 1 \in 1 .. (n - 1) /\ d = stack[1].cap
        <5>1. 1 \in DOMAIN stack' /\ d = stack'[1].cap
          BY <1>0, <4>4
        <5> QED BY <5>1 DEF RootAccounted
      <4>5. CASE 1 = n /\ d = stack[1].cap
        BY <2>3, <4>5 DEF RootAccounted
      <4> QED BY <1>0, <1>1, <4>1, <4>2, <4>3, <4>4, <4>5 DEF RootAccounted
    <3>4. DependenciesEarlier'
      <4>1. Deps(c) \subseteq Visited
        <5>1. \A d \in Deps(c) : Accounted(d, n)
          BY <1>1, <3>1
        <5>2. n + 1 \notin DOMAIN stack
          BY <1>0
        <5> QED BY <1>2, <5>1, <5>2 DEF Accounted
      <4>2. ASSUME NEW i \in 1 .. Len(ordered)
            PROVE  registry[ordered'[i]].deps \subseteq {ordered'[j] : j \in 1 .. (i - 1)}
        <5>1. registry[ordered[i]].deps \subseteq {ordered[j] : j \in 1 .. (i - 1)}
          BY <1>3, <3>1 DEF DependenciesEarlier
        <5>2. \A j \in 1 .. (i - 1) : j \in 1 .. Len(ordered)
          BY <1>3
        <5> QED BY <2>1, <5>1, <5>2
      <4>3. ASSUME NEW i \in Nat, i = Len(ordered) + 1
            PROVE  registry[ordered'[i]].deps \subseteq {ordered'[j] : j \in 1 .. (i - 1)}
        <5>1. i - 1 = Len(ordered)
          BY <1>3, <4>3
        <5>2. Visited = {ordered'[j] : j \in 1 .. Len(ordered)}
          BY <1>3, <2>1 DEF Visited, Range
        <5> QED BY <2>1, <4>1, <4>3, <5>1, <5>2
      <4>4. ASSUME NEW i \in 1 .. Len(ordered) + 1
            PROVE  registry[ordered'[i]].deps \subseteq {ordered'[j] : j \in 1 .. (i - 1)}
        <5>1. CASE i \in 1 .. Len(ordered)
          BY <4>2, <5>1
        <5>2. CASE i = Len(ordered) + 1
          <6>1. i \in Nat
            BY <1>3, <5>2
          <6> QED BY <4>3, <5>2, <6>1
        <5> QED BY <2>2, <5>1, <5>2
      <4>5. registry' = registry /\ DOMAIN ordered' = 1 .. Len(ordered) + 1
        BY <1>2, <2>1
      <4> QED BY <4>4, <4>5 DEF DependenciesEarlier
    <3> QED BY <1>0, <1>2, <3>2, <3>3, <3>4
  <2> QED BY <1>5, <2>4, <2>5, <2>6, <2>7 DEF PlanInv
<1>8. CASE faulty \/ full
  <2>1. ordered' = ordered
    BY <1>2, <1>8
  <2>2. issues' # {}
    BY <1>2, <1>8
  <2>3. Visited' = Visited /\ NoDuplicates' = NoDuplicates
    BY <2>1 DEF Visited, NoDuplicates
  <2>4. PlanTypeOK'
    <3>1. Issue("limit", c) \in [code : {"cycle", "missing", "unavailable", "limit"},
                                 cap : Capability]
      BY <1>3 DEF Issue
    <3>2. issues' \subseteq [code : {"cycle", "missing", "unavailable", "limit"},
                            cap : Capability]
      BY <1>2, <3>1 DEF PlanInv, PlanTypeOK
    <3> QED BY <1>0, <1>2, <2>1, <3>2 DEF PlanInv, PlanTypeOK, Activation
  <2>5. OnceInv'
    BY <1>0, <1>1, <2>1, <2>3 DEF PlanInv, OnceInv
  <2>6. NeededInv'
    BY <1>2, <1>4, <1>6, <2>3 DEF PlanInv, NeededInv
  <2> QED BY <1>5, <2>2, <2>4, <2>5, <2>6 DEF PlanInv, WholeInv
<1> QED BY <1>7, <1>8

-----------------------------------------------------------------------------
(* The invariant                                                           *)

\* The registry is chosen, nothing is planned.
LEMMA InitPlans == Init => PlanInv
<1> SUFFICES ASSUME Init PROVE PlanInv
  OBVIOUS
<1>1. PlanTypeOK
  BY PlanningAssumption DEF Init, PlanTypeOK
<1>2. PhaseInv
  BY DEF Init, PhaseInv
<1>3. DOMAIN stack = {} /\ DOMAIN ordered = {} /\ Len(ordered) = 0 /\ Visited = {}
  BY DEF Init, Visited, Range
<1>4. OnceInv
  BY <1>3, PlanningAssumption DEF OnceInv, NoDuplicates
<1>5. NeededInv
  BY <1>3 DEF NeededInv
<1>6. WholeInv
  BY <1>3 DEF Init, WholeInv, DependenciesEarlier
<1> QED BY <1>1, <1>2, <1>4, <1>5, <1>6 DEF PlanInv

\* The selection of a strategy and the start of the planner.
LEMMA SelectKeeps ==
  ASSUME PlanInv, NEW q \in Requests, Select(q)
  PROVE  PlanInv'
<1>1. /\ stack' = <<>> /\ ordered' = <<>> /\ issues' = {}
      /\ phase' = "planning" /\ request' = q /\ roots' = goal'
      /\ UNCHANGED <<registry, verdict>>
  BY DEF Select, PlanInv, PhaseInv
<1>2. goal' \subseteq Capability
  <2>1. \A S \in Candidates(q) : S \subseteq Capability
    BY PlanningAssumption DEF Candidates, Request
  <2> QED BY <2>1 DEF Select
<1>3. PlanTypeOK'
  BY <1>1, <1>2 DEF PlanInv, PlanTypeOK
<1>4. PhaseInv'
  BY <1>1 DEF PhaseInv
<1>5. DOMAIN stack' = {} /\ DOMAIN ordered' = {} /\ Len(ordered') = 0 /\ Visited' = {}
  BY <1>1 DEF Visited, Range
<1>6. OnceInv'
  BY <1>5, PlanningAssumption DEF OnceInv, NoDuplicates
<1>7. NeededInv'
  BY <1>5 DEF NeededInv
<1>8. WholeInv'
  BY <1>1, <1>5 DEF WholeInv, DependenciesEarlier, RootAccounted
<1> QED BY <1>3, <1>4, <1>6, <1>7, <1>8 DEF PlanInv

\* The verdict, and the return to the caller.
LEMMA EndKeeps ==
  ASSUME PlanInv, Evaluate \/ Return
  PROVE  PlanInv'
<1>1. CASE Evaluate
  <2>1. /\ UNCHANGED <<registry, request, goal, roots, stack, ordered, issues>>
        /\ phase' = "planned" /\ verdict' = Preflight
        /\ roots = {} /\ stack = <<>>
    BY <1>1 DEF Evaluate
  <2>2. Preflight \in {"blocked", "approval_required", "ready"}
        /\ (Preflight # "blocked" => issues = {})
    BY DEF Preflight
  <2>3. PlanTypeOK'
    BY <2>1, <2>2 DEF PlanInv, PlanTypeOK
  <2>4. PhaseInv'
    BY <2>1, <2>2 DEF PhaseInv
  <2>5. OnceInv' = OnceInv
    BY <2>1 DEF OnceInv, Visited, NoDuplicates
  <2>6. NeededInv' = NeededInv
    BY <2>1 DEF NeededInv, Visited, Closure, Closed, Deps, On
  <2>7. WholeInv' = WholeInv
    BY <2>1
    DEF WholeInv, Accounted, RootAccounted, Visited, DependenciesEarlier, Deps
  <2> QED BY <2>3, <2>4, <2>5, <2>6, <2>7 DEF PlanInv
<1>2. CASE Return
  <2>1. /\ stack' = <<>> /\ ordered' = <<>> /\ issues' = {} /\ goal' = {}
        /\ roots' = {} /\ phase' = "idle" /\ request' = NoRequest
        /\ verdict' = "none" /\ UNCHANGED registry
    BY <1>2 DEF Return
  <2>2. PlanTypeOK'
    BY <2>1 DEF PlanInv, PlanTypeOK
  <2>3. PhaseInv'
    BY <2>1 DEF PhaseInv
  <2>4. DOMAIN stack' = {} /\ DOMAIN ordered' = {} /\ Len(ordered') = 0 /\ Visited' = {}
    BY <2>1 DEF Visited, Range
  <2>5. OnceInv'
    BY <2>4, PlanningAssumption DEF OnceInv, NoDuplicates
  <2>6. NeededInv'
    BY <2>4 DEF NeededInv
  <2>7. WholeInv'
    BY <2>1, <2>4 DEF WholeInv, DependenciesEarlier
  <2> QED BY <2>2, <2>3, <2>5, <2>6, <2>7 DEF PlanInv
<1> QED BY <1>1, <1>2

\* Every step of planning preserves the invariant.
LEMMA NextPlans == PlanInv /\ [PlanNext]_planVars => PlanInv'
<1> SUFFICES ASSUME PlanInv, [PlanNext]_planVars PROVE PlanInv'
  OBVIOUS
<1>1. ASSUME NEW q \in Requests, Select(q) PROVE PlanInv'
  BY <1>1, SelectKeeps
<1>2. ASSUME NEW c \in Capability, Visit(c) PROVE PlanInv'
  BY <1>2, VisitKeeps
<1>3. CASE Leave
  BY <1>3, LeaveKeeps
<1>4. CASE Evaluate \/ Return
  BY <1>4, EndKeeps
<1>5. CASE UNCHANGED planVars
  <2>1. PlanTypeOK' = PlanTypeOK /\ PhaseInv' = PhaseInv
    BY <1>5 DEF planVars, PlanTypeOK, PhaseInv
  <2>2. OnceInv' = OnceInv
    BY <1>5 DEF planVars, OnceInv, Visited, NoDuplicates
  <2>3. NeededInv' = NeededInv
    BY <1>5 DEF planVars, NeededInv, Visited, Closure, Closed, Deps, On
  <2>4. WholeInv' = WholeInv
    BY <1>5 DEF planVars, WholeInv, Accounted, RootAccounted, Visited,
                DependenciesEarlier, Deps
  <2> QED BY <2>1, <2>2, <2>3, <2>4 DEF PlanInv
<1> QED BY <1>1, <1>2, <1>3, <1>4, <1>5 DEF PlanNext

\* A plan that is not blocked has all that the route needs: what was visited
\* has the route, and what each of its members depends on.
LEMMA WholePlan == PlanInv => PlanIsOrdered
<1> SUFFICES ASSUME PlanInv, phase = "planned", verdict # "blocked"
             PROVE  /\ Range(ordered) = Closure(goal)
                    /\ DependenciesEarlier
                    /\ NoDuplicates
                    /\ Len(ordered) <= MaxSteps
  BY DEF PlanIsOrdered
<1>1. issues = {} /\ roots = {} /\ DOMAIN stack = {}
  BY DEF PlanInv, PhaseInv
<1>2. DependenciesEarlier /\ goal \subseteq Visited
  BY <1>1 DEF PlanInv, WholeInv, RootAccounted
<1>3. Visited \subseteq Closure(goal)
  BY DEF PlanInv, NeededInv
<1>4. Closure(goal) \subseteq Visited
  <2>1. Closed(Visited)
    <3> SUFFICES ASSUME NEW c \in Visited
                 PROVE  Deps(c) \subseteq Visited
      BY DEF Closed
    <3>1. PICK i \in DOMAIN ordered : c = ordered[i]
      BY DEF Visited, Range
    <3>2. Deps(c) \subseteq {ordered[j] : j \in 1 .. (i - 1)}
      BY <1>2, <3>1 DEF DependenciesEarlier
    <3>3. \A j \in 1 .. (i - 1) : j \in DOMAIN ordered
      BY <3>1 DEF PlanInv, PlanTypeOK
    <3> QED BY <3>2, <3>3 DEF Visited, Range
  <2>2. Visited \in SUBSET Capability
    BY <1>3, ClosureFacts DEF PlanInv, PlanTypeOK
  <2> QED BY <1>2, <2>1, <2>2, ClosureFacts DEF PlanInv, PlanTypeOK
<1> QED BY <1>2, <1>3, <1>4 DEF PlanInv, OnceInv, Visited

\* The types of the planner's state hold for every graph of capabilities and
\* every request (execution-planner.ts 22-136).
THEOREM PlanTypesHold == PlanSpec => []PlanTypeOK
<1>1. PlanInv => PlanTypeOK
  BY DEF PlanInv
<1> QED BY <1>1, InitPlans, NextPlans, PTL DEF PlanSpec

\* A plan that is not blocked is whole, in order of dependencies, without
\* repetition and within the limit, for every graph of capabilities, with
\* cycles and gaps or without (execution-planner.ts 78-136).
THEOREM PlansAreOrdered == PlanSpec => []PlanIsOrdered
BY InitPlans, NextPlans, WholePlan, PTL DEF PlanSpec

-----------------------------------------------------------------------------
(* What the verdict rests on                                               *)

\* The route is one of the request's that is eligible, if there is any.
GoalInv ==
  phase # "idle" =>
    /\ request \in Requests
    /\ \/ goal = {} /\ \A S \in Candidates(request) : ~Eligible(request, S)
       \/ goal \in Candidates(request) /\ Eligible(request, goal)

\* Each activation is for something that those below it depend on.
PathInv ==
  \A i, j \in DOMAIN stack :
    i < j => stack[j].cap \in Closure(Deps(stack[i].cap))

\* Whatever the planner complains of is so.
IssueInv ==
  \A x \in issues :
    /\ x.cap \in Closure(goal)
    /\ x.code = "cycle" => OnCycle(x.cap)
    /\ x.code \in {"missing", "unavailable"} => ~On(x.cap)
    /\ x.code = "limit" => Cardinality(Closure(goal)) > MaxSteps

JudgeInv ==
  /\ PlanInv
  /\ GoalInv /\ PathInv /\ IssueInv
  /\ phase = "planned" => verdict = Preflight

-----------------------------------------------------------------------------
(* Closures and counts                                                     *)

\* What is fixed while the registry is.
LEMMA SameRegistry ==
  ASSUME registry' = registry, NEW S
  PROVE  Closure(S)' = Closure(S)
BY DEF Closure, Closed, Deps

\* A capability's dependencies are among those of whatever depends on it.
LEMMA DependsOn ==
  ASSUME PlanTypeOK, NEW c \in Capability
  PROVE  /\ Deps(c) \in SUBSET Capability
         /\ Deps(c) \subseteq Closure(Deps(c))
         /\ \A b \in Closure(Deps(c)) : On(b) => Deps(b) \subseteq Closure(Deps(c))
<1>1. Deps(c) \in SUBSET Capability
  BY DEF PlanTypeOK, Deps, Descriptor
<1> QED BY <1>1, ClosureFacts DEF PlanTypeOK

\* The closure of a route is finite.
LEMMA ClosureIsFinite ==
  ASSUME PlanTypeOK
  PROVE  /\ IsFiniteSet(Closure(goal)) /\ Cardinality(Closure(goal)) \in Nat
         /\ \A T \in SUBSET Closure(goal) :
              /\ IsFiniteSet(T) /\ Cardinality(T) \in Nat
              /\ Cardinality(T) <= Cardinality(Closure(goal))
<1>1. Closure(goal) \in SUBSET Capability
  BY ClosureFacts DEF PlanTypeOK
<1>2. IsFiniteSet(Closure(goal)) /\ Cardinality(Closure(goal)) \in Nat
  BY <1>1, PlanningAssumption, FS_Subset, FS_CardinalityType
<1>3. ASSUME NEW T \in SUBSET Closure(goal)
      PROVE  /\ IsFiniteSet(T) /\ Cardinality(T) \in Nat
             /\ Cardinality(T) <= Cardinality(Closure(goal))
  BY <1>2, FS_Subset, FS_CardinalityType
<1> QED BY <1>2, <1>3

\* As many capabilities are planned as the plan has steps.
LEMMA StepsAreCounted ==
  ASSUME PlanTypeOK, NoDuplicates
  PROVE  IsFiniteSet(Visited) /\ Cardinality(Visited) = Len(ordered)
<1> DEFINE n == Len(ordered)
<1>1. n \in Nat /\ DOMAIN ordered = 1 .. n /\ ordered \in [1 .. n -> Capability]
  BY LenProperties DEF PlanTypeOK
<1>2. IsFiniteSet(1 .. n) /\ Cardinality(1 .. n) = n
  <2>1. 1 \in Int /\ n \in Int
    BY <1>1
  <2>2. /\ IsFiniteSet(1 .. n)
        /\ Cardinality(1 .. n) = IF 1 > n THEN 0 ELSE n - 1 + 1
    BY <2>1, FS_Interval
  <2>3. (IF 1 > n THEN 0 ELSE n - 1 + 1) = n
    BY <1>1
  <2> QED BY <2>2, <2>3
<1>3. ordered \in Bijection(1 .. n, Visited)
  <2>1. ordered \in [1 .. n -> Visited]
    BY <1>1 DEF Visited, Range
  <2>2. \A a, b \in 1 .. n : ordered[a] = ordered[b] => a = b
    BY <1>1 DEF NoDuplicates
  <2>3. \A t \in Visited : \E i \in 1 .. n : ordered[i] = t
    BY <1>1 DEF Visited, Range
  <2> QED BY <1>1, <2>1, <2>2, <2>3
          DEF Bijection, Injection, Surjection, IsInjective
<1> QED BY <1>2, <1>3, FS_Bijection DEF ExistsBijection

-----------------------------------------------------------------------------
(* What keeps the grounds of the verdict                                   *)

\* What is called is a dependency of every activation.
LEMMA CallFollows ==
  ASSUME PlanInv, PathInv, NEW c \in Capability, Visit(c), stack # <<>>
  PROVE  \A i \in DOMAIN stack : c \in Closure(Deps(stack[i].cap))
<1> DEFINE n == Len(stack)
<1>1. /\ PlanTypeOK /\ n \in Nat /\ DOMAIN stack = 1 .. n /\ n \in DOMAIN stack
      /\ \A i \in DOMAIN stack : stack[i].cap \in Capability
  <2>1. PlanTypeOK /\ stack \in Seq(Activation)
    BY DEF PlanInv, PlanTypeOK, Activation
  <2>2. n \in Nat \ {0} /\ DOMAIN stack = 1 .. n
    BY <2>1, EmptySeq, LenProperties
  <2>3. \A i \in 1 .. n : stack[i] \in Activation
    BY <2>1, ElementOfSeq
  <2> QED BY <2>1, <2>2, <2>3 DEF Activation
<1>2. c \in Deps(stack[n].cap) /\ On(stack[n].cap)
  BY <1>1 DEF Visit, PlanInv, NeededInv
<1> SUFFICES ASSUME NEW i \in DOMAIN stack
             PROVE  c \in Closure(Deps(stack[i].cap))
  OBVIOUS
<1>3. CASE i = n
  BY <1>1, <1>2, <1>3, DependsOn
<1>4. CASE i # n
  <2>1. i < n
    BY <1>1, <1>4
  <2>2. stack[n].cap \in Closure(Deps(stack[i].cap))
    BY <1>1, <2>1 DEF PathInv
  <2> QED BY <1>1, <1>2, <2>2, DependsOn
<1> QED BY <1>3, <1>4

\* What a call complains of is so.
LEMMA ComplaintsAreSo ==
  ASSUME PlanInv, PathInv, NEW c \in Capability, Visit(c),
         NEW x \in CallIssues(c)
  PROVE  /\ x.cap \in Closure(goal)
         /\ x.code = "cycle" => OnCycle(x.cap)
         /\ x.code \in {"missing", "unavailable"} => ~On(x.cap)
         /\ x.code # "limit"
<1>1. c \in Closure(goal)
  BY CalledNeeded
<1>2. CASE c \in Visiting
  <2>1. x.code = "cycle" /\ x.cap = c
    BY <1>2 DEF CallIssues, Issue
  <2>2. PICK i \in DOMAIN stack : stack[i].cap = c
    BY <1>2 DEF Visiting
  <2>3. stack # <<>>
    BY <2>2
  <2>4. c \in Closure(Deps(c))
    BY <2>2, <2>3, CallFollows
  <2> QED BY <1>1, <2>1, <2>4 DEF OnCycle
<1>3. CASE c \notin Visiting
  BY <1>1, <1>3 DEF CallIssues, Issue, On
<1> QED BY <1>2, <1>3

\* A call keeps the grounds.
LEMMA VisitJudges ==
  ASSUME JudgeInv, NEW c \in Capability, Visit(c)
  PROVE  JudgeInv'
<1>1. /\ UNCHANGED <<registry, request, phase, goal, ordered, verdict>>
      /\ phase = "planning" /\ PlanInv /\ PathInv
  BY DEF Visit, JudgeInv
<1>2. PlanInv'
  BY <1>1, VisitKeeps
<1>3. GoalInv'
  BY <1>1
  DEF JudgeInv, GoalInv, Eligible, Candidates, Closure, Closed, Deps, On,
              NeedsNetwork
<1>4. issues' \subseteq issues \cup CallIssues(c)
  BY DEF Visit
<1>5. IssueInv'
  <2> SUFFICES ASSUME NEW x \in issues'
               PROVE  /\ x.cap \in Closure(goal)
                      /\ x.code = "cycle" => OnCycle(x.cap)
                      /\ x.code \in {"missing", "unavailable"} => ~On(x.cap)
                      /\ x.code = "limit" =>
                           Cardinality(Closure(goal)) > MaxSteps
    BY <1>1 DEF IssueInv, OnCycle, Closure, Closed, Deps, On
  <2>1. CASE x \in issues
    BY <2>1 DEF JudgeInv, IssueInv
  <2>2. CASE x \in CallIssues(c)
    BY <1>1, <2>2, ComplaintsAreSo
  <2> QED BY <1>4, <2>1, <2>2
<1>6. PathInv'
  <2> DEFINE n == Len(stack)
             new == [cap |-> c, left |-> Deps(c)]
  <2>1. /\ stack \in Seq(Activation) /\ Called(c) \in Seq(Activation)
        /\ n \in Nat /\ DOMAIN stack = 1 .. n /\ DOMAIN Called(c) = 1 .. n
        /\ \A i \in 1 .. n : Called(c)[i].cap = stack[i].cap
    <3>1. stack \in Seq(Activation)
      BY <1>1 DEF PlanInv, PlanTypeOK, Activation
    <3>2. Called(c) \in Seq(Activation) /\ Len(Called(c)) = n
      BY <3>1, CalledFacts
    <3> QED BY <3>1, <3>2, CalledFacts, LenProperties
  <2>2. ASSUME NEW i \in 1 .. n, NEW j \in 1 .. n, i < j
        PROVE  stack[j].cap \in Closure(Deps(stack[i].cap))
    BY <2>1, <2>2 DEF JudgeInv, PathInv
  <2>3. CASE stack' = Called(c)
    <3> SUFFICES ASSUME NEW i \in 1 .. n, NEW j \in 1 .. n, i < j
                 PROVE  stack'[j].cap \in Closure(Deps(stack'[i].cap))
      BY <1>1, <2>1, <2>3 DEF PathInv, Closure, Closed, Deps
    <3> QED BY <2>1, <2>2, <2>3
  <2>4. CASE stack' = Append(Called(c), new)
    <3>1. new \in Activation
      BY <1>1, DependsOn DEF PlanInv, Activation
    <3>2. /\ stack' \in Seq(Activation) /\ Len(stack') = n + 1
          /\ \A i \in 1 .. n : stack'[i].cap = stack[i].cap
          /\ stack'[n + 1].cap = c
      <4>1. Len(Called(c)) = n
        BY <2>1, LenProperties
      <4> QED BY <2>1, <2>4, <3>1, <4>1, AppendProperties
    <3>3. DOMAIN stack' = 1 .. n + 1
      BY <3>2, LenProperties
    <3> SUFFICES ASSUME NEW i \in 1 .. n + 1, NEW j \in 1 .. n + 1, i < j
                 PROVE  stack'[j].cap \in Closure(Deps(stack'[i].cap))
      BY <1>1, <3>3 DEF PathInv, Closure, Closed, Deps
    <3>4. CASE j \in 1 .. n
      BY <2>1, <2>2, <3>2, <3>4
    <3>5. CASE j = n + 1
      <4>1. i \in 1 .. n /\ stack # <<>>
        BY <2>1, <3>5
      <4> QED BY <1>1, <2>1, <3>2, <3>5, <4>1, CallFollows
    <3>6. j \in 1 .. n \/ j = n + 1
      <4>1. n \in Nat
        BY <2>1
      <4> QED BY <4>1
    <3> QED BY <3>4, <3>5, <3>6
  <2> QED BY <2>3, <2>4 DEF Visit
<1> QED BY <1>1, <1>2, <1>3, <1>5, <1>6 DEF JudgeInv

\* The end of an activation keeps the grounds: if the plan is full, there are
\* more capabilities to plan than it may have steps.
LEMMA LeaveJudges ==
  ASSUME JudgeInv, Leave
  PROVE  JudgeInv'
<1> DEFINE n == Len(stack)
           c == stack[n].cap
<1>1. /\ UNCHANGED <<registry, request, phase, goal, roots, verdict>>
      /\ phase = "planning" /\ PlanInv /\ PathInv /\ stack # <<>>
  BY DEF Leave, JudgeInv
<1>2. PlanInv'
  BY <1>1, LeaveKeeps
<1>3. GoalInv'
  BY <1>1
  DEF JudgeInv, GoalInv, Eligible, Candidates, Closure, Closed, Deps, On,
              NeedsNetwork
<1>4. PathInv'
  <2>1. /\ n \in Nat \ {0} /\ DOMAIN stack = 1 .. n
        /\ DOMAIN stack' = 1 .. (n - 1)
        /\ \A i \in 1 .. (n - 1) : stack'[i] = stack[i]
    BY <1>1, LeaveFacts
  <2> SUFFICES ASSUME NEW i \in 1 .. (n - 1), NEW j \in 1 .. (n - 1), i < j
               PROVE  stack'[j].cap \in Closure(Deps(stack'[i].cap))
    BY <1>1, <2>1 DEF PathInv, Closure, Closed, Deps
  <2>2. i \in DOMAIN stack /\ j \in DOMAIN stack
    BY <2>1
  <2> QED BY <1>1, <2>1, <2>2 DEF PathInv
<1>5. IssueInv'
  <2>1. issues' \subseteq issues \cup
          IF Len(ordered) >= MaxSteps THEN {Issue("limit", c)} ELSE {}
    BY DEF Leave
  <2>2. c \in Closure(goal) /\ c \notin Visited /\ NoDuplicates
    <3>1. n \in DOMAIN stack
      BY <1>1, LeaveFacts
    <3> QED BY <1>1, <3>1 DEF PlanInv, NeededInv, OnceInv
  <2>3. Len(ordered) >= MaxSteps => Cardinality(Closure(goal)) > MaxSteps
    <3>1. PlanTypeOK /\ Visited \cup {c} \in SUBSET Closure(goal)
      BY <1>1, <2>2 DEF PlanInv, NeededInv
    <3>2. IsFiniteSet(Visited) /\ Cardinality(Visited) = Len(ordered)
      BY <2>2, <3>1, StepsAreCounted
    <3>3. Cardinality(Visited \cup {c}) = Cardinality(Visited) + 1
      BY <2>2, <3>2, FS_AddElement
    <3>4. /\ Cardinality(Visited \cup {c}) <= Cardinality(Closure(goal))
          /\ Cardinality(Closure(goal)) \in Nat
      BY <3>1, ClosureIsFinite
    <3>5. Len(ordered) \in Nat /\ MaxSteps \in Nat
      BY <3>1, PlanningAssumption, LenProperties DEF PlanTypeOK
    <3> QED BY <3>2, <3>3, <3>4, <3>5
  <2> SUFFICES ASSUME NEW x \in issues'
               PROVE  /\ x.cap \in Closure(goal)
                      /\ x.code = "cycle" => OnCycle(x.cap)
                      /\ x.code \in {"missing", "unavailable"} => ~On(x.cap)
                      /\ x.code = "limit" =>
                           Cardinality(Closure(goal)) > MaxSteps
    BY <1>1 DEF IssueInv, OnCycle, Closure, Closed, Deps, On
  <2>4. CASE x \in issues
    BY <2>4 DEF JudgeInv, IssueInv
  <2>5. CASE Len(ordered) >= MaxSteps /\ x = Issue("limit", c)
    BY <2>2, <2>3, <2>5 DEF Issue
  <2> QED BY <2>1, <2>4, <2>5
<1> QED BY <1>1, <1>2, <1>3, <1>4, <1>5 DEF JudgeInv

\* So do the selection of a route, the verdict and the return.
LEMMA AroundJudges ==
  ASSUME JudgeInv,
         (\E q \in Requests : Select(q)) \/ Evaluate \/ Return
  PROVE  JudgeInv'
<1>0. PlanInv'
  BY SelectKeeps, EndKeeps DEF JudgeInv
<1>1. ASSUME NEW q \in Requests, Select(q)
      PROVE  JudgeInv'
  <2>1. /\ stack' = <<>> /\ issues' = {} /\ phase' = "planning"
        /\ request' = q /\ UNCHANGED registry
    BY <1>1 DEF Select, JudgeInv, PlanInv, PhaseInv
  <2>2. DOMAIN stack' = {}
    BY <2>1
  <2>3. PathInv' /\ IssueInv'
    BY <2>1, <2>2 DEF PathInv, IssueInv
  <2>4. \/ goal' = {} /\ \A S \in Candidates(q) : ~Eligible(q, S)
        \/ goal' \in Candidates(q) /\ Eligible(q, goal')
    BY <1>1 DEF Select
  <2>5. GoalInv'
    BY <2>1, <2>4 DEF GoalInv, Eligible, Candidates, Closure, Closed, Deps, On,
                      NeedsNetwork
  <2> QED BY <1>0, <2>1, <2>3, <2>5 DEF JudgeInv
<1>2. CASE Evaluate
  <2>1. /\ UNCHANGED <<registry, request, goal, roots, stack, ordered, issues>>
        /\ phase = "planning" /\ phase' = "planned" /\ verdict' = Preflight
    BY <1>2 DEF Evaluate
  <2>2. PathInv' /\ IssueInv'
    BY <2>1 DEF JudgeInv, PathInv, IssueInv, OnCycle, Closure, Closed, Deps, On
  <2>3. GoalInv'
    BY <2>1 DEF JudgeInv, GoalInv, Eligible, Candidates, Closure, Closed, Deps,
                On, NeedsNetwork
  <2>4. Preflight' = Preflight
    BY <2>1 DEF Preflight, Decisions, Visited, Policy
  <2> QED BY <1>0, <2>1, <2>2, <2>3, <2>4 DEF JudgeInv
<1>3. CASE Return
  <2>1. stack' = <<>> /\ issues' = {} /\ phase' = "idle"
    BY <1>3 DEF Return
  <2>2. DOMAIN stack' = {}
    BY <2>1
  <2> QED BY <1>0, <2>1, <2>2 DEF JudgeInv, PathInv, IssueInv, GoalInv
<1> QED BY <1>1, <1>2, <1>3

\* With nothing planned there is nothing to judge.
LEMMA InitJudges == Init => JudgeInv
<1> SUFFICES ASSUME Init PROVE JudgeInv
  OBVIOUS
<1>1. phase = "idle" /\ DOMAIN stack = {} /\ issues = {}
  BY DEF Init
<1> QED BY <1>1, InitPlans DEF JudgeInv, GoalInv, PathInv, IssueInv

\* Every step of planning preserves the grounds of the verdict.
LEMMA NextJudges == JudgeInv /\ [PlanNext]_planVars => JudgeInv'
<1> SUFFICES ASSUME JudgeInv, [PlanNext]_planVars PROVE JudgeInv'
  OBVIOUS
<1>1. CASE UNCHANGED planVars
  <2>1. UNCHANGED <<registry, request, phase, goal, stack, ordered, issues,
                    verdict>>
    BY <1>1 DEF planVars
  <2>2. PlanInv'
    BY <1>1, NextPlans DEF JudgeInv
  <2>3. PathInv' /\ IssueInv'
    BY <2>1 DEF JudgeInv, PathInv, IssueInv, OnCycle, Closure, Closed, Deps, On
  <2>4. GoalInv'
    BY <2>1 DEF JudgeInv, GoalInv, Eligible, Candidates, Closure, Closed, Deps,
                On, NeedsNetwork
  <2>5. Preflight' = Preflight
    BY <2>1 DEF Preflight, Decisions, Visited, Policy
  <2> QED BY <2>1, <2>2, <2>3, <2>4, <2>5 DEF JudgeInv
<1> QED BY <1>1, VisitJudges, LeaveJudges, AroundJudges DEF PlanNext

-----------------------------------------------------------------------------
(* The verdict                                                             *)

\* What the policy decides, in the words of the property.
LEMMA PolicyJudges ==
  ASSUME PlanTypeOK, NEW c \in Capability
  PROVE  LET decision == Policy(request.profile, registry[c].action)
         IN  /\ decision \in {"deny", "allow", "require_approval"}
             /\ decision = "deny" <=> Forbidden(c)
             /\ decision = "allow" <=>
                  ~Forbidden(c) /\ (ReadOnly(c) \/ OwnWrite(c))
<1> DEFINE a == registry[c].action
<1>1. /\ request.profile \in Profile
      /\ a \in [risk : Risk, kinds : SUBSET Kind]
  BY PlanningAssumption
  DEF PlanTypeOK, Request, NoRequest, Profile, Descriptor, Action
<1>2. PICK risk, kinds : a = [risk |-> risk, kinds |-> kinds]
  BY <1>1
<1>3. a.risk = risk /\ a.kinds = kinds
  BY <1>2
<1>4. ReadOnly(c) <=> /\ risk = "safe" /\ "read" \in kinds
                      /\ kinds \subseteq {"read", "git"}
  <2>1. kinds \in {{"read"}, {"read", "git"}} <=>
          "read" \in kinds /\ kinds \subseteq {"read", "git"}
    OBVIOUS
  <2> QED BY <1>3, <2>1 DEF ReadOnly
<1>5. OwnWrite(c) <=> /\ request.profile = "developer"
                      /\ risk = "guarded" /\ kinds = {"write"}
  BY <1>2, <1>3 DEF OwnWrite
<1>6. Forbidden(c) <=> \/ "credentials" \in kinds
                       \/ request.profile = "observer" /\ ~ReadOnly(c)
  BY <1>3 DEF Forbidden
<1> QED BY <1>3, <1>4, <1>5, <1>6 DEF Policy

\* A route that is not eligible is unfit.
LEMMA IneligibleIsUnfit ==
  ASSUME NEW S, ~Eligible(request, S)
  PROVE  Unfit(S)
BY DEF Eligible, Unfit

\* A plan without complaints has all that its route needs, and there is no
\* cycle in it.
LEMMA NoComplaints ==
  ASSUME JudgeInv, phase = "planned", issues = {}
  PROVE  /\ Visited = Closure(goal)
         /\ \A c \in Visited : ~OnCycle(c)
         /\ Cardinality(Closure(goal)) <= MaxSteps
<1>1. /\ PlanInv /\ PlanTypeOK /\ roots = {} /\ DOMAIN stack = {}
      /\ NoDuplicates /\ Len(ordered) <= MaxSteps
  BY DEF JudgeInv, PlanInv, PhaseInv, OnceInv
<1>2. DependenciesEarlier /\ goal \subseteq Visited
  BY <1>1 DEF PlanInv, WholeInv, RootAccounted
<1>3. Visited \subseteq Closure(goal)
  BY <1>1 DEF PlanInv, NeededInv
<1>4. Visited \in SUBSET Capability
  BY <1>1, <1>3, ClosureFacts DEF PlanTypeOK
<1>5. /\ DOMAIN ordered = 1 .. Len(ordered) /\ Len(ordered) \in Nat
  BY <1>1, LenProperties DEF PlanTypeOK
<1>6. ASSUME NEW i \in DOMAIN ordered
      PROVE  LET before == {ordered[j] : j \in 1 .. (i - 1)}
             IN  /\ before \in SUBSET Capability /\ Closed(before)
                 /\ Deps(ordered[i]) \subseteq before
                 /\ ordered[i] \notin before
  <2> DEFINE before == {ordered[j] : j \in 1 .. (i - 1)}
  <2>1. \A j \in 1 .. (i - 1) : j \in DOMAIN ordered /\ j # i
    BY <1>5
  <2>2. before \in SUBSET Capability
    BY <1>4, <2>1 DEF Visited, Range
  <2>3. ASSUME NEW c \in before
        PROVE  Deps(c) \subseteq before
    <3>1. PICK j \in 1 .. (i - 1) : c = ordered[j]
      OBVIOUS
    <3>2. Deps(c) \subseteq {ordered[k] : k \in 1 .. (j - 1)}
      BY <1>2, <2>1, <3>1 DEF DependenciesEarlier
    <3>3. \A k \in 1 .. (j - 1) : k \in 1 .. (i - 1)
      BY <1>5, <3>1
    <3> QED BY <3>2, <3>3
  <2>4. Deps(ordered[i]) \subseteq before
    BY <1>2 DEF DependenciesEarlier
  <2>5. ordered[i] \notin before
    BY <1>1, <2>1 DEF NoDuplicates
  <2> QED BY <2>2, <2>3, <2>4, <2>5 DEF Closed
<1>7. ASSUME NEW c \in Visited
      PROVE  ~OnCycle(c)
  <2>1. PICK i \in DOMAIN ordered : c = ordered[i]
    BY DEF Visited, Range
  <2>2. PICK before \in SUBSET Capability :
          Closed(before) /\ Deps(c) \subseteq before /\ c \notin before
    BY <1>6, <2>1
  <2> QED BY <2>2 DEF OnCycle, Closure
<1>8. Closure(goal) \subseteq Visited
  <2>1. Closed(Visited)
    <3> SUFFICES ASSUME NEW c \in Visited
                 PROVE  Deps(c) \subseteq Visited
      BY DEF Closed
    <3>1. PICK i \in DOMAIN ordered : c = ordered[i]
      BY DEF Visited, Range
    <3>2. \A j \in 1 .. (i - 1) : j \in DOMAIN ordered
      BY <1>5
    <3> QED BY <1>2, <3>1, <3>2 DEF DependenciesEarlier, Visited, Range
  <2> QED BY <1>1, <1>2, <1>4, <2>1, ClosureFacts DEF PlanTypeOK
<1>9. Cardinality(Visited) = Len(ordered)
  BY <1>1, StepsAreCounted
<1>10. Visited = Closure(goal)
  BY <1>3, <1>8
<1>11. Cardinality(Closure(goal)) <= MaxSteps
  BY <1>1, <1>9, <1>10
<1>12. \A c \in Visited : ~OnCycle(c)
  BY <1>7
<1> QED BY <1>10, <1>11, <1>12

\* A route that was selected is blocked if and only if it is unfit, and needs
\* no approval if and only if all of it is read only or a developer's own.
LEMMA VerdictOfRoute ==
  ASSUME JudgeInv, phase = "planned", goal # {}
  PROVE  /\ verdict = "blocked" <=> Unfit(goal)
         /\ verdict # "blocked" =>
              (verdict = "ready" <=>
                 \A c \in Closure(goal) : ReadOnly(c) \/ OwnWrite(c))
<1>1. /\ PlanTypeOK /\ verdict = Preflight /\ Eligible(request, goal)
      /\ Closure(goal) \in SUBSET Capability /\ Visited \subseteq Closure(goal)
      /\ goal \subseteq Closure(goal)
  BY ClosureFacts
  DEF JudgeInv, GoalInv, PlanInv, PlanTypeOK, NeededInv
<1>2. "deny" \in Decisions <=> \E c \in Visited : Forbidden(c)
  BY <1>1, PolicyJudges DEF Decisions
<1>3. CASE issues # {}
  <2>1. PICK x \in issues : TRUE
    BY <1>3
  <2>2. x.code \in {"cycle", "missing", "unavailable", "limit"}
    BY <1>1, <2>1 DEF PlanTypeOK
  <2>3. Unfit(goal)
    BY <2>1, <2>2 DEF JudgeInv, IssueInv, Unfit
  <2> QED BY <1>1, <1>3, <2>3 DEF Preflight
<1>4. CASE issues = {}
  <2>1. /\ Visited = Closure(goal) /\ \A c \in Visited : ~OnCycle(c)
        /\ Cardinality(Closure(goal)) <= MaxSteps
    BY <1>4, NoComplaints
  <2>2. Cardinality(Closure(goal)) \in Nat /\ MaxSteps \in Nat
    BY <1>1, ClosureIsFinite, PlanningAssumption
  <2>3. Unfit(goal) <=> \E c \in Closure(goal) : Forbidden(c)
    BY <1>1, <2>1, <2>2 DEF Unfit, Eligible
  <2>4. ordered # <<>>
    <3>1. ordered = <<>> => Visited = {}
      BY DEF Visited, Range
    <3> QED BY <1>1, <2>1, <3>1
  <2>5. verdict = "blocked" <=> Unfit(goal)
    BY <1>1, <1>2, <1>4, <2>1, <2>3, <2>4 DEF Preflight
  <2>6. ASSUME verdict # "blocked"
        PROVE  verdict = "ready" <=>
                 \A c \in Closure(goal) : ReadOnly(c) \/ OwnWrite(c)
    <3>1. verdict = "ready" <=> "require_approval" \notin Decisions
      BY <1>1, <2>6 DEF Preflight
    <3>2. \A c \in Closure(goal) : ~Forbidden(c)
      BY <2>3, <2>5, <2>6
    <3>3. ASSUME NEW c \in Closure(goal)
          PROVE  Policy(request.profile, registry[c].action) # "require_approval"
                   <=> ReadOnly(c) \/ OwnWrite(c)
      BY <1>1, <3>2, PolicyJudges
    <3> QED BY <2>1, <3>1, <3>3 DEF Decisions
  <2> QED BY <2>5, <2>6
<1> QED BY <1>3, <1>4

\* The invariant tells what the request deserves.
LEMMA JudgedRight == JudgeInv => VerdictIsRight
<1> SUFFICES ASSUME JudgeInv, phase = "planned"
             PROVE  /\ request.explicit =>
                         (verdict = "blocked" <=> Unfit(request.wants))
                    /\ ~request.explicit =>
                         IF verdict = "blocked"
                         THEN request.wants # {} =>
                                \E c \in request.wants : Unfit({c})
                         ELSE \E c \in request.wants :
                                goal = {c} /\ ~Unfit({c})
                    /\ verdict # "blocked" =>
                         (verdict = "ready" <=> \A c \in Closure(goal) :
                                                  ReadOnly(c) \/ OwnWrite(c))
  BY DEF VerdictIsRight
<1>1. /\ verdict = Preflight /\ request \in Requests
      /\ \/ goal = {} /\ \A S \in Candidates(request) : ~Eligible(request, S)
         \/ goal \in Candidates(request) /\ Eligible(request, goal)
  BY DEF JudgeInv, GoalInv
<1>2. request.explicit => request.wants # {}
  BY <1>1, PlanningAssumption
<1>3. CASE goal = {}
  <2>1. verdict = "blocked"
    BY <1>1, <1>3 DEF Preflight
  <2>2. \A S \in Candidates(request) : S # {}
    BY <1>2 DEF Candidates
  <2>3. \A S \in Candidates(request) : Unfit(S)
    BY <1>1, <1>3, <2>2, IneligibleIsUnfit
  <2> QED BY <2>1, <2>3 DEF Candidates
<1>4. CASE goal # {}
  <2>1. goal \in Candidates(request)
    BY <1>1, <1>4
  <2>2. /\ verdict = "blocked" <=> Unfit(goal)
        /\ verdict # "blocked" =>
             (verdict = "ready" <=>
                \A c \in Closure(goal) : ReadOnly(c) \/ OwnWrite(c))
    BY <1>4, VerdictOfRoute
  <2> QED BY <2>1, <2>2 DEF Candidates
<1> QED BY <1>3, <1>4

\* The verdict is what the request deserves, for every graph of capabilities,
\* every request and every limit, whichever component finds the fault
\* (strategy-engine.ts 42-180, execution-planner.ts 22-136, policy index.ts
\* 18-92, evaluation-engine.ts 13-70).
THEOREM VerdictsAreRight == PlanSpec => []VerdictIsRight
BY JudgedRight, InitJudges, NextJudges, PTL DEF PlanSpec

-----------------------------------------------------------------------------
(* The inductive invariant of the workflow                                 *)

\* The step of a capability in the plan.
At(c) == CHOOSE i \in DOMAIN ordered : ordered[i] = c

\* The plan that is executed is whole, and nothing in it is out of use.
UsedInv ==
  /\ goal = {evaluation}
  /\ ordered \in Seq(Capability)
  /\ Range(ordered) = Closure(goal)
  /\ DependenciesEarlier /\ NoDuplicates
  /\ \A c \in Closure(goal) : On(c)

\* Until a run starts all the planner's; from then on the plan is fixed.
SharedPlan ==
  /\ registry \in Registries /\ registry \in [Capability -> Descriptor]
  /\ phase \in {"idle", "planning", "planned", "used"}
  /\ phase # "used" => JudgeInv
  /\ phase = "used" => UsedInv

RunState == {"none", "running", "completed", "failed", "cancelled", "refused",
             "orphaned"}
RunRecord ==
  [status : RunState, namespace : Namespace \cup {"none"}, private : BOOLEAN,
   budget : Budget, step : Nat, limit : Int,
   recalled : SUBSET Nat, answers : Nat, replans : Nat, output : Nat,
   candidate : [good : BOOLEAN, size : Nat]]

WorkTypes ==
  /\ open \in Namespace
  /\ run \in [Run -> RunRecord]
  /\ memory \in Seq(Entry)

\* A run is between two steps of the plan or in a call of one of the two that
\* call, and is past the synthesis only with a candidate that passed it.
RunInv(r) ==
  Running(r) =>
    /\ phase = "used"
    /\ run[r].namespace \in Namespace
    /\ run[r].step \in 1 .. At(evaluation)
    /\ run[r].step <= At(team) => run[r].answers < run[r].budget.agents
    /\ run[r].limit # 0 => run[r].step \in {At(team), At(synthesis)}
    /\ run[r].step > At(synthesis) => run[r].candidate.good

Committed(r) == \E i \in DOMAIN memory : memory[i].run = r

\* An entry is of a run that is past its commit, or ended after it.
EntryInv(i) ==
  \A r \in Run : memory[i].run = r =>
    /\ run[r].status \in {"running", "completed", "refused", "orphaned"}
    /\ memory[i].good /\ ~run[r].private
    /\ Running(r) => /\ run[r].step > At(commit)
                     /\ memory[i].namespace = run[r].namespace
                     /\ memory[i].size \in {0, run[r].candidate.size}

\* A run has one entry if it is past its commit, and was to have one.
CommitInv ==
  /\ \A i, j \in DOMAIN memory :
       memory[i].run \in Run /\ memory[i].run = memory[j].run => i = j
  /\ \A r \in Run :
       /\ run[r].status = "completed" /\ ~run[r].private => Committed(r)
       /\ Running(r) /\ ~run[r].private /\ run[r].step > At(commit) =>
            Committed(r)

WorkInv ==
  /\ SharedPlan
  /\ WorkTypes
  /\ \A r \in Run : RunInv(r)
  /\ \A i \in DOMAIN memory : EntryInv(i)
  /\ CommitInv

-----------------------------------------------------------------------------
(* The plan                                                                *)

\* The four steps are in the plan once each, in the order in which the
\* published capabilities depend on each other.
LEMMA Positions ==
  ASSUME UsedInv, registry \in Registries, registry \in [Capability -> Descriptor]
  PROVE  /\ At(team) \in Nat /\ At(synthesis) \in Nat /\ At(commit) \in Nat
         /\ At(evaluation) \in Nat
         /\ 1 <= At(team) /\ At(team) < At(synthesis)
         /\ At(synthesis) < At(commit) /\ At(commit) < At(evaluation)
         /\ At(evaluation) <= Len(ordered)
         /\ \A i \in 1 .. Len(ordered) :
              /\ ordered[i] = recall =>
                   i \notin {At(team), At(synthesis), At(commit), At(evaluation)}
              /\ \A c \in {team, synthesis, commit, evaluation} :
                   ordered[i] = c <=> i = At(c)
<1>1. UsedInv /\ registry \in Registries /\ registry \in [Capability -> Descriptor]
  OBVIOUS
<1>2. /\ Len(ordered) \in Nat /\ DOMAIN ordered = 1 .. Len(ordered)
  BY <1>1, LenProperties DEF UsedInv
<1>3. {evaluation} \in SUBSET Capability
  BY PublishedAssumption
<1>4. /\ evaluation \in Closure(goal)
      /\ \A c \in Closure(goal) : Deps(c) \subseteq Closure(goal)
  BY <1>1, <1>3, ClosureFacts DEF UsedInv
<1>5. registry[evaluation].status = "on"
  BY <1>1, <1>4 DEF UsedInv, On
<1>6. /\ commit \in Deps(evaluation) /\ synthesis \in Deps(commit)
      /\ team \in Deps(synthesis)
  BY <1>1, <1>5, PublishedAssumption DEF Deps
<1>7. {team, synthesis, commit, evaluation} \subseteq Range(ordered)
  <2>1. commit \in Closure(goal)
    BY <1>4, <1>6
  <2>2. synthesis \in Closure(goal)
    BY <2>1, <1>4, <1>6
  <2>3. team \in Closure(goal)
    BY <2>2, <1>4, <1>6
  <2> QED BY <1>1, <1>4, <2>1, <2>2, <2>3 DEF UsedInv
<1>8. ASSUME NEW c \in {team, synthesis, commit, evaluation}
      PROVE  /\ At(c) \in DOMAIN ordered /\ ordered[At(c)] = c
             /\ \A i \in DOMAIN ordered : ordered[i] = c => i = At(c)
  <2>1. \E i \in DOMAIN ordered : ordered[i] = c
    BY <1>7 DEF Range
  <2>2. At(c) \in DOMAIN ordered /\ ordered[At(c)] = c
    BY <2>1 DEF At
  <2> QED BY <1>1, <2>2 DEF UsedInv, NoDuplicates
<1>9. ASSUME NEW c \in {synthesis, commit, evaluation},
             NEW d \in {team, synthesis, commit}, d \in Deps(c)
      PROVE  At(d) < At(c)
  <2>1. At(c) \in DOMAIN ordered /\ ordered[At(c)] = c
    BY <1>8
  <2>2. d \in {ordered[j] : j \in 1 .. (At(c) - 1)}
    BY <1>1, <1>9, <2>1 DEF UsedInv, DependenciesEarlier
  <2>3. PICK j \in 1 .. (At(c) - 1) : d = ordered[j]
    BY <2>2
  <2>4. j \in DOMAIN ordered
    BY <1>2, <2>1
  <2>5. j = At(d)
    BY <1>8, <2>3, <2>4
  <2> QED BY <1>2, <2>1, <2>5
<1>10. /\ At(team) < At(synthesis) /\ At(synthesis) < At(commit)
       /\ At(commit) < At(evaluation)
  BY <1>6, <1>9
<1>11. /\ At(team) \in 1 .. Len(ordered) /\ At(synthesis) \in 1 .. Len(ordered)
       /\ At(commit) \in 1 .. Len(ordered) /\ At(evaluation) \in 1 .. Len(ordered)
  BY <1>2, <1>8
<1>12. ASSUME NEW i \in 1 .. Len(ordered)
       PROVE  /\ ordered[i] = recall =>
                   i \notin {At(team), At(synthesis), At(commit), At(evaluation)}
              /\ \A c \in {team, synthesis, commit, evaluation} :
                   ordered[i] = c <=> i = At(c)
  BY <1>2, <1>8, PublishedAssumption
<1> QED BY <1>2, <1>10, <1>11, <1>12

\* While the plan stays, so do the places of its steps.
LEMMA SamePlaces ==
  ASSUME ordered' = ordered, NEW c
  PROVE  At(c)' = At(c)
BY DEF At

\* A plan that is executed has the planner's and the policy's consent.
LEMMA UsedIsSound ==
  ASSUME SharedPlan, phase \in {"planned", "used"}, verdict # "blocked",
         goal = {evaluation}
  PROVE  UsedInv
<1>1. CASE phase = "used"
  BY <1>1 DEF SharedPlan
<1>2. CASE phase = "planned"
  <2>1. JudgeInv
    BY <1>2 DEF SharedPlan
  <2>2. PlanIsOrdered
    BY <2>1, WholePlan DEF JudgeInv
  <2>3. Eligible(request, goal)
    BY <1>2, <2>1 DEF JudgeInv, GoalInv
  <2>4. ordered \in Seq(Capability)
    BY <2>1 DEF JudgeInv, PlanInv, PlanTypeOK
  <2> QED BY <1>2, <2>2, <2>3, <2>4 DEF PlanIsOrdered, Eligible, UsedInv
<1> QED BY <1>1, <1>2

\* So it stays what it is when a run starts.
LEMMA StartShares ==
  ASSUME SharedPlan, phase \in {"planned", "used"}, verdict # "blocked",
         goal = {evaluation}, phase' = "used",
         UNCHANGED <<registry, goal, ordered>>
  PROVE  SharedPlan'
<1>1. UsedInv
  BY UsedIsSound
<1>2. Closure(goal)' = Closure(goal)
  BY DEF Closure, Closed, Deps
<1>3. /\ registry' = registry /\ goal' = goal /\ ordered' = ordered
  OBVIOUS
<1>4. UsedInv'
  <2>1. Range(ordered)' = Range(ordered)
    BY <1>3 DEF Range
  <2>2. DependenciesEarlier' /\ NoDuplicates'
    BY <1>1, <1>3 DEF UsedInv, DependenciesEarlier, NoDuplicates, Deps
  <2>3. \A c \in Closure(goal)' : On(c)'
    BY <1>1, <1>2, <1>3 DEF UsedInv, On
  <2> QED BY <1>1, <1>2, <1>3, <2>1, <2>2, <2>3 DEF UsedInv
<1> QED BY <1>3, <1>4 DEF SharedPlan

\* A plan that stays is shared still.
LEMMA PlanStays == SharedPlan /\ UNCHANGED planVars => SharedPlan'
<1> SUFFICES ASSUME SharedPlan, UNCHANGED planVars
             PROVE  SharedPlan'
  OBVIOUS
<1>1. phase # "used" => JudgeInv'
  BY NextJudges DEF SharedPlan
<1>2. phase = "used" => UsedInv'
  <2>1. Closure(goal)' = Closure(goal)
    BY DEF Closure, Closed, Deps, planVars
  <2> QED BY <2>1
      DEF SharedPlan, UsedInv, DependenciesEarlier, NoDuplicates, On, Deps,
          planVars
<1> QED BY <1>1, <1>2 DEF SharedPlan, planVars

\* Every step shares the plan: the planner works on it only before it is used.
LEMMA PlanIsShared == SharedPlan /\ [Next]_vars => SharedPlan'
<1> SUFFICES ASSUME SharedPlan, [Next]_vars
             PROVE  SharedPlan'
  OBVIOUS
<1>1. CASE UNCHANGED planVars
  BY <1>1, PlanStays
<1>2. CASE PlanNext
  <2>1. /\ phase # "used" /\ registry' = registry
        /\ phase' \in {"idle", "planning", "planned"}
    BY <1>2 DEF PlanNext, Select, Visit, Leave, Evaluate, Return, SharedPlan
  <2>2. JudgeInv'
    BY <1>2, <2>1, NextJudges DEF SharedPlan
  <2> QED BY <2>1, <2>2 DEF SharedPlan
<1>3. CASE \E r \in Run, private \in BOOLEAN, b \in Budgets : Start(r, private, b)
  BY <1>3, StartShares DEF Start
<1>4. ASSUME NEW r \in Run, Pipeline(r)
      PROVE  UNCHANGED planVars
  BY <1>4
  DEF Pipeline, Recall, CallRole, CallFails, Cancel, Synthesize, Commit,
      EvaluateResult, StoreRefuses, Answer, Repaired
<1>5. ASSUME NEW i \in DOMAIN memory, Expire(i) \/ Forget(i)
      PROVE  UNCHANGED planVars
  BY <1>5 DEF Expire, Forget
<1>6. ASSUME NEW w \in Namespace, OpenWorkspace(w)
      PROVE  UNCHANGED planVars
  BY <1>6 DEF OpenWorkspace
<1>7. CASE Crash
  BY <1>1, <1>7 DEF Crash
<1> QED BY <1>1, <1>2, <1>3, <1>4, <1>5, <1>6, <1>7 DEF Next, WorkNext, vars

-----------------------------------------------------------------------------
(* Frames                                                                  *)

\* What a run is before it starts.
LEMMA NoRunIs ==
  /\ NoRun \in RunRecord /\ NoRun.status = "none" /\ NoRun.step = 1
  /\ NoRun.limit = 0 /\ NoRun.answers = 0
<1>1. [good |-> FALSE, size |-> 0] \in [good : BOOLEAN, size : Nat]
  OBVIOUS
<1>2. NoBudget \in Budget
  BY DEF NoBudget, Budget
<1> QED BY <1>1, <1>2 DEF NoRun, RunRecord, RunState

\* The record of a run that ended has its status, and whether it was private.
LEMMA EndedIs ==
  ASSUME WorkTypes, NEW r \in Run, NEW status \in RunState
  PROVE  /\ Ended(r, status) \in RunRecord
         /\ Ended(r, status).status = status
         /\ Ended(r, status).private = run[r].private
<1>1. run[r].private \in BOOLEAN
  BY DEF WorkTypes, RunRecord
<1>2. PICK n \in RunRecord : n = NoRun
  BY NoRunIs
<1>3. Ended(r, status) = [n EXCEPT !.status = status, !.private = run[r].private]
  BY <1>2 DEF Ended
<1> QED BY <1>1, <1>3 DEF RunRecord

\* A run that ends changes no other.
LEMMA Ending ==
  ASSUME WorkTypes, NEW r \in Run, NEW status \in RunState,
         run' = End(r, status)
  PROVE  /\ run' \in [Run -> RunRecord]
         /\ \A q \in Run \ {r} : run'[q] = run[q]
         /\ run'[r].status = status /\ run'[r].private = run[r].private
<1>1. PICK x \in RunRecord :
        /\ x = Ended(r, status) /\ x.status = status
        /\ x.private = run[r].private
  BY EndedIs
<1>2. run' = [run EXCEPT ![r] = x]
  BY <1>1 DEF End
<1> QED BY <1>1, <1>2 DEF WorkTypes

\* A step of one run, and no entry of memory: whether it is past its commit
\* changes only when it ends, and then as its state says.
LEMMA RunMoves ==
  ASSUME WorkInv, NEW r \in Run, Running(r),
         run' \in [Run -> RunRecord],
         \A q \in Run \ {r} : run'[q] = run[q],
         UNCHANGED <<planVars, open, memory>>,
         run'[r].private = run[r].private,
         \/ /\ run'[r].status = "running" /\ RunInv(r)'
            /\ run'[r].namespace = run[r].namespace
            /\ run'[r].step > At(commit) <=> run[r].step > At(commit)
            /\ run[r].step > At(commit) =>
                 run'[r].candidate = run[r].candidate
         \/ run'[r].status \in {"failed", "cancelled"} /\ run[r].step <= At(commit)
         \/ run'[r].status \in {"refused", "orphaned"}
         \/ run'[r].status = "completed" /\ run[r].step > At(commit)
  PROVE  WorkInv'
<1>1. SharedPlan'
  BY PlanStays DEF WorkInv
<1>2. /\ At(team)' = At(team) /\ At(synthesis)' = At(synthesis)
      /\ At(commit)' = At(commit) /\ At(evaluation)' = At(evaluation)
  BY SamePlaces DEF planVars
<1>3. WorkTypes'
  BY DEF WorkInv, WorkTypes
<1>4. ASSUME NEW q \in Run
      PROVE  RunInv(q)'
  <2>1. CASE q = r
    BY <2>1 DEF RunInv, Running
  <2>2. CASE q # r
    <3>1. run'[q] = run[q] /\ RunInv(q) /\ phase' = phase
      BY <2>2 DEF WorkInv, planVars
    <3> QED BY <1>2, <3>1 DEF RunInv, Running
  <2> QED BY <2>1, <2>2
<1>5. ASSUME NEW i \in DOMAIN memory
      PROVE  EntryInv(i)'
  <2> SUFFICES ASSUME NEW q \in Run, memory[i].run = q
               PROVE  /\ run'[q].status \in
                           {"running", "completed", "refused", "orphaned"}
                      /\ memory[i].good /\ ~run'[q].private
                      /\ run'[q].status = "running" =>
                           /\ run'[q].step > At(commit)
                           /\ memory[i].namespace = run'[q].namespace
                           /\ memory[i].size \in {0, run'[q].candidate.size}
    BY <1>2 DEF EntryInv, Running
  <2>1. /\ run[q].status \in {"running", "completed", "refused", "orphaned"}
        /\ memory[i].good /\ ~run[q].private
        /\ run[q].status = "running" =>
             /\ run[q].step > At(commit)
             /\ memory[i].namespace = run[q].namespace
             /\ memory[i].size \in {0, run[q].candidate.size}
    BY DEF WorkInv, EntryInv, Running
  <2>2. CASE q # r
    BY <2>1, <2>2
  <2>3. CASE q = r
    <3>1. run[r].step > At(commit)
      BY <2>1, <2>3 DEF Running
    <3>2. run'[r].status \notin {"failed", "cancelled"}
      <4>1. phase = "used" /\ SharedPlan
        BY DEF WorkInv, RunInv
      <4>2. At(commit) \in Nat /\ run[r].step \in Nat
        BY <4>1, Positions DEF SharedPlan, WorkInv, WorkTypes, RunRecord
      <4> QED BY <3>1, <4>2
    <3>3. CASE run'[r].status = "running"
      BY <2>1, <2>3, <3>1, <3>3 DEF Running
    <3>4. CASE run'[r].status # "running"
      <4>1. run'[r].status \in {"completed", "refused", "orphaned"}
        BY <3>2, <3>4
      <4> QED BY <2>1, <2>3, <3>4, <4>1
    <3> QED BY <3>3, <3>4
  <2> QED BY <2>2, <2>3
<1>6. ASSUME NEW q \in Run
      PROVE  /\ run'[q].status = "completed" /\ ~run'[q].private => Committed(q)
             /\ run'[q].status = "running" /\ ~run'[q].private
                /\ run'[q].step > At(commit) => Committed(q)
  BY DEF WorkInv, CommitInv, Running
<1>7. CommitInv'
  BY <1>2, <1>6 DEF WorkInv, CommitInv, Committed, Running
<1> QED BY <1>1, <1>3, <1>4, <1>5, <1>7 DEF WorkInv

-----------------------------------------------------------------------------
(* The steps of a run                                                      *)

\* Where a run that executes is in the plan.
LEMMA RunFacts ==
  ASSUME WorkInv, NEW r \in Run, Running(r)
  PROVE  /\ WorkTypes /\ run \in [Run -> RunRecord] /\ run[r] \in RunRecord
         /\ run[r].status = "running" /\ phase = "used"
         /\ run[r].namespace \in Namespace
         /\ run[r].step \in 1 .. At(evaluation)
         /\ run[r].step <= At(team) => run[r].answers < run[r].budget.agents
         /\ run[r].limit # 0 => run[r].step \in {At(team), At(synthesis)}
         /\ run[r].step > At(synthesis) => run[r].candidate.good
         /\ At(team) \in Nat /\ At(synthesis) \in Nat /\ At(commit) \in Nat
         /\ At(evaluation) \in Nat
         /\ At(team) < At(synthesis) /\ At(synthesis) < At(commit)
         /\ At(commit) < At(evaluation)
         /\ ordered[run[r].step] = recall =>
              run[r].step \notin {At(team), At(synthesis), At(commit),
                                  At(evaluation)}
         /\ ordered[run[r].step] = team => run[r].step = At(team)
         /\ ordered[run[r].step] = synthesis => run[r].step = At(synthesis)
         /\ ordered[run[r].step] = commit => run[r].step = At(commit)
         /\ ordered[run[r].step] = evaluation => run[r].step = At(evaluation)
<1>1. SharedPlan /\ WorkTypes /\ RunInv(r)
  BY DEF WorkInv
<1>2. phase = "used" /\ run[r].step \in 1 .. At(evaluation)
  BY <1>1 DEF RunInv
<1>3. /\ At(team) \in Nat /\ At(synthesis) \in Nat /\ At(commit) \in Nat
      /\ At(evaluation) \in Nat
      /\ 1 <= At(team) /\ At(team) < At(synthesis)
      /\ At(synthesis) < At(commit) /\ At(commit) < At(evaluation)
      /\ At(evaluation) <= Len(ordered)
      /\ \A i \in 1 .. Len(ordered) :
           /\ ordered[i] = recall =>
                i \notin {At(team), At(synthesis), At(commit), At(evaluation)}
           /\ \A c \in {team, synthesis, commit, evaluation} :
                ordered[i] = c <=> i = At(c)
  BY <1>1, <1>2, Positions DEF SharedPlan
<1>4. Len(ordered) \in Nat
  BY <1>1, <1>2, LenProperties DEF SharedPlan, UsedInv
<1>5. run[r].step \in 1 .. Len(ordered)
  BY <1>2, <1>3, <1>4
<1> QED BY <1>1, <1>2, <1>3, <1>5 DEF RunInv, WorkTypes, Running

\* A run that stays at its step, or goes on from one that is not the commit.
LEMMA RunGoesOn ==
  ASSUME WorkInv, NEW r \in Run, Running(r),
         run' \in [Run -> RunRecord],
         \A q \in Run \ {r} : run'[q] = run[q],
         UNCHANGED <<planVars, open, memory>>,
         run'[r].private = run[r].private,
         run'[r].namespace = run[r].namespace,
         run'[r].status = "running",
         run'[r].budget = run[r].budget,
         \/ /\ run'[r].step = run[r].step
            /\ run[r].step \in {At(team), At(synthesis)}
            /\ run[r].step = At(team) => run'[r].answers < run[r].budget.agents
         \/ /\ run'[r].step = run[r].step + 1 /\ run'[r].limit = 0
            /\ run[r].step = At(team)
         \/ /\ run'[r].step = run[r].step + 1 /\ run'[r].limit = 0
            /\ run[r].step = At(synthesis) /\ run'[r].candidate.good
         \/ /\ run'[r].step = run[r].step + 1 /\ run'[r].limit = 0
            /\ run'[r].candidate = run[r].candidate
            /\ run'[r].answers = run[r].answers
            /\ run[r].step \notin {At(team), At(synthesis), At(commit),
                                   At(evaluation)}
  PROVE  WorkInv'
<1>1. /\ At(team)' = At(team) /\ At(synthesis)' = At(synthesis)
      /\ At(commit)' = At(commit) /\ At(evaluation)' = At(evaluation)
      /\ phase' = phase
  BY SamePlaces DEF planVars
<1>2. /\ run[r] \in RunRecord /\ phase = "used"
      /\ run[r].namespace \in Namespace
      /\ run[r].step \in 1 .. At(evaluation)
      /\ run[r].step <= At(team) => run[r].answers < run[r].budget.agents
      /\ run[r].step > At(synthesis) => run[r].candidate.good
      /\ At(team) \in Nat /\ At(synthesis) \in Nat /\ At(commit) \in Nat
      /\ At(evaluation) \in Nat
      /\ At(team) < At(synthesis) /\ At(synthesis) < At(commit)
      /\ At(commit) < At(evaluation)
  BY RunFacts
<1>3. run[r].step \in Nat
  BY <1>2
<1>4. /\ run'[r].step \in 1 .. At(evaluation)
      /\ run'[r].step > At(commit) <=> run[r].step > At(commit)
  BY <1>2, <1>3
<1>5. run[r].step > At(commit) => run'[r].candidate = run[r].candidate
  BY <1>2, <1>3
<1>6. run'[r].limit # 0 => run'[r].step \in {At(team), At(synthesis)}
  BY <1>2, <1>3
<1>7. run'[r].step > At(synthesis) => run'[r].candidate.good
  BY <1>2, <1>3
<1>8. run'[r].step <= At(team) => run'[r].answers < run'[r].budget.agents
  BY <1>2, <1>3
<1>9. RunInv(r)'
  BY <1>1, <1>2, <1>4, <1>6, <1>7, <1>8 DEF RunInv
<1> QED BY <1>4, <1>5, <1>9, RunMoves

\* What is recalled leaves the run past that step, with the candidate it had.
LEMMA RecallKeeps ==
  ASSUME WorkInv, NEW r \in Run, Recall(r)
  PROVE  WorkInv'
<1>1. Running(r) /\ ordered[run[r].step] = recall /\ run[r].limit = 0
  BY DEF Recall, AtStep
<1>2. /\ WorkTypes /\ run \in [Run -> RunRecord] /\ run[r] \in RunRecord
      /\ run[r].status = "running"
      /\ run[r].step \notin {At(team), At(synthesis), At(commit),
                             At(evaluation)}
  BY <1>1, RunFacts
<1>3. DOMAIN memory \subseteq Nat
  BY <1>2, LenProperties DEF WorkTypes
<1>4. PICK found \in SUBSET Nat :
        run' = [run EXCEPT ![r].recalled = found, ![r].step = @ + 1]
  BY <1>3 DEF Recall, Recalled
<1>5. /\ run' \in [Run -> RunRecord] /\ \A q \in Run \ {r} : run'[q] = run[q]
      /\ run'[r].step = run[r].step + 1 /\ run'[r].limit = 0
      /\ run'[r].private = run[r].private
      /\ run'[r].namespace = run[r].namespace
      /\ run'[r].status = "running" /\ run'[r].budget = run[r].budget
      /\ run'[r].candidate = run[r].candidate
      /\ run'[r].answers = run[r].answers
  BY <1>1, <1>2, <1>4 DEF RunRecord
<1>6. UNCHANGED <<planVars, open, memory>>
  BY DEF Recall
<1> QED BY <1>1, <1>2, <1>5, <1>6, RunGoesOn

\* The share of a role is a number as long as a role is left.
LEMMA ShareIsNumber ==
  ASSUME WorkTypes, NEW r \in Run, run[r].answers < run[r].budget.agents
  PROVE  Share(r) \in Int /\ OutputLeft(r) \in Int
<1>1. /\ run[r].budget \in Budget /\ run[r].answers \in Nat
      /\ run[r].output \in Nat
  BY DEF WorkTypes, RunRecord
<1>2. run[r].budget.agents \in Nat /\ run[r].budget.output \in Nat
  BY <1>1 DEF Budget
<1>3. OutputLeft(r) \in Int /\ run[r].budget.agents - run[r].answers \in Nat \ {0}
  BY <1>1, <1>2 DEF OutputLeft
<1>4. OutputLeft(r) \div (run[r].budget.agents - run[r].answers) \in Int
  BY <1>3
<1> QED BY <1>3, <1>4, WorkflowAssumption DEF Share

\* A call that starts: the run stays where it is.
LEMMA CallStarts ==
  ASSUME WorkInv, NEW r \in Run, Running(r), NEW n \in Int,
         run' = [run EXCEPT ![r].limit = n],
         run[r].step \in {At(team), At(synthesis)},
         UNCHANGED <<planVars, open, memory>>
  PROVE  WorkInv'
<1>1. /\ run \in [Run -> RunRecord] /\ run[r] \in RunRecord
      /\ run[r].status = "running" /\ At(team) \in Nat
      /\ run[r].step <= At(team) => run[r].answers < run[r].budget.agents
  BY RunFacts
<1>2. /\ run' \in [Run -> RunRecord] /\ \A q \in Run \ {r} : run'[q] = run[q]
      /\ run'[r].step = run[r].step /\ run'[r].private = run[r].private
      /\ run'[r].namespace = run[r].namespace
      /\ run'[r].status = "running" /\ run'[r].budget = run[r].budget
      /\ run'[r].answers = run[r].answers
  BY <1>1 DEF RunRecord
<1>3. run[r].step = At(team) => run'[r].answers < run[r].budget.agents
  BY <1>1, <1>2
<1> QED BY <1>2, <1>3, RunGoesOn

\* A run that fails or is cancelled no later than at its commit.
LEMMA RunIsLost ==
  ASSUME WorkInv, NEW r \in Run, Running(r),
         NEW status \in {"failed", "cancelled"}, run' = End(r, status),
         run[r].step <= At(commit), UNCHANGED <<planVars, open, memory>>
  PROVE  WorkInv'
<1>1. /\ run' \in [Run -> RunRecord] /\ \A q \in Run \ {r} : run'[q] = run[q]
      /\ run'[r].status = status /\ run'[r].private = run[r].private
  <2>1. status \in RunState
    BY DEF RunState
  <2> QED BY <2>1, Ending DEF WorkInv
<1> QED BY <1>1, RunMoves

\* A role is called, or the budget that is left does not allow it.
LEMMA CallRoleKeeps ==
  ASSUME WorkInv, NEW r \in Run, CallRole(r)
  PROVE  WorkInv'
<1>1. Running(r) /\ ordered[run[r].step] = team
  BY DEF CallRole, AtStep
<1>2. /\ WorkTypes /\ run[r].step = At(team) /\ At(team) \in Nat
      /\ At(commit) \in Nat /\ At(synthesis) \in Nat
      /\ At(team) < At(synthesis) /\ At(synthesis) < At(commit)
      /\ run[r].step <= At(team) => run[r].answers < run[r].budget.agents
  BY <1>1, RunFacts
<1>3. run[r].answers < run[r].budget.agents /\ run[r].step <= At(commit)
  BY <1>2
<1>4. Share(r) \in Int
  BY <1>2, <1>3, ShareIsNumber
<1>5. UNCHANGED <<planVars, open, memory>>
  BY DEF CallRole
<1>6. CASE run' = [run EXCEPT ![r].limit = Share(r)]
  BY <1>1, <1>2, <1>4, <1>5, <1>6, CallStarts
<1>7. CASE run' = End(r, "failed")
  BY <1>1, <1>3, <1>5, <1>7, RunIsLost
<1> QED BY <1>6, <1>7 DEF CallRole

\* A call in flight is before the commit, so nothing of its run is in memory.
LEMMA CallFailsKeeps ==
  ASSUME WorkInv, NEW r \in Run, CallFails(r) \/ Cancel(r)
  PROVE  WorkInv'
<1>1. /\ Running(r) /\ run[r].limit > 0
      /\ run' = End(r, "failed") \/ run' = End(r, "cancelled")
      /\ UNCHANGED <<planVars, open, memory>>
  BY DEF CallFails, Cancel, Calling
<1>2. run[r].limit # 0
  BY <1>1
<1>3. run[r].step <= At(commit)
  <2>1. /\ run[r].step \in {At(team), At(synthesis)} /\ At(team) \in Nat
        /\ At(synthesis) \in Nat /\ At(commit) \in Nat
        /\ At(team) < At(synthesis) /\ At(synthesis) < At(commit)
    BY <1>1, <1>2, RunFacts
  <2> QED BY <2>1
<1> QED BY <1>1, <1>3, RunIsLost

\* The synthesis passes the candidate on, has it repaired or gives up.
LEMMA SynthesizeKeeps ==
  ASSUME WorkInv, NEW r \in Run, Synthesize(r)
  PROVE  WorkInv'
<1>1. /\ Running(r) /\ run[r].limit = 0 /\ ordered[run[r].step] = synthesis
      /\ UNCHANGED <<planVars, open, memory>>
  BY DEF Synthesize, AtStep
<1>2. /\ WorkTypes /\ run \in [Run -> RunRecord] /\ run[r] \in RunRecord
      /\ run[r].status = "running" /\ run[r].step = At(synthesis)
      /\ At(synthesis) \in Nat /\ At(commit) \in Nat /\ At(team) \in Nat
      /\ At(synthesis) < At(commit) /\ At(team) < At(synthesis)
  BY <1>1, RunFacts
<1>3. CASE run[r].candidate.good /\ run' = [run EXCEPT ![r].step = @ + 1]
  <2>1. /\ run' \in [Run -> RunRecord] /\ \A q \in Run \ {r} : run'[q] = run[q]
        /\ run'[r].step = run[r].step + 1 /\ run'[r].limit = 0
        /\ run'[r].private = run[r].private
        /\ run'[r].namespace = run[r].namespace
        /\ run'[r].status = "running" /\ run'[r].budget = run[r].budget
        /\ run'[r].candidate = run[r].candidate
    BY <1>1, <1>2, <1>3 DEF RunRecord
  <2> QED BY <1>1, <1>2, <1>3, <2>1, RunGoesOn
<1>4. CASE run' = [run EXCEPT ![r].limit = OutputLeft(r)]
  <2>1. OutputLeft(r) \in Int
    <3>1. run[r].budget \in Budget /\ run[r].output \in Nat
      BY <1>2 DEF RunRecord
    <3>2. run[r].budget.output \in Nat
      BY <3>1 DEF Budget
    <3> QED BY <3>1, <3>2 DEF OutputLeft
  <2> QED BY <1>1, <1>2, <1>4, <2>1, CallStarts
<1>5. CASE run' = End(r, "failed")
  <2>1. run[r].step <= At(commit)
    BY <1>2
  <2> QED BY <1>1, <1>5, <2>1, RunIsLost
<1> QED BY <1>3, <1>4, <1>5 DEF Synthesize

\* The candidate changes only at the team, before anything is committed.
LEMMA AnswerKeeps ==
  ASSUME WorkInv, NEW r \in Run, NEW size \in Sizes, NEW good \in BOOLEAN,
         Answer(r, size, good)
  PROVE  WorkInv'
<1> DEFINE last == run[r].answers + 1 = run[r].budget.agents
<1>1. /\ Running(r) /\ ordered[run[r].step] = team
      /\ UNCHANGED <<planVars, open, memory>>
  BY DEF Answer, Calling
<1>2. /\ WorkTypes /\ run \in [Run -> RunRecord] /\ run[r] \in RunRecord
      /\ run[r].status = "running" /\ run[r].step = At(team)
      /\ At(team) \in Nat /\ At(synthesis) \in Nat
      /\ At(team) < At(synthesis)
      /\ run[r].step <= At(team) => run[r].answers < run[r].budget.agents
  BY <1>1, RunFacts
<1>3. size \in Nat
  BY WorkflowAssumption
<1>4. run[r].answers \in Nat /\ run[r].budget.agents \in Nat
  BY <1>2 DEF RunRecord, Budget
<1>5. PICK cand \in [good : BOOLEAN, size : Nat], next \in Nat :
        /\ run' = [run EXCEPT ![r].limit = 0,
                              ![r].answers = @ + 1,
                              ![r].output = @ + size,
                              ![r].candidate = cand,
                              ![r].step = next]
        /\ next = IF last THEN run[r].step + 1 ELSE run[r].step
  <2>1. [good |-> good, size |-> size] \in [good : BOOLEAN, size : Nat]
    BY <1>3
  <2>2. (IF last THEN run[r].step + 1 ELSE run[r].step) \in Nat
    BY <1>2
  <2> QED BY <2>1, <2>2 DEF Answer
<1>6. /\ run' \in [Run -> RunRecord] /\ \A q \in Run \ {r} : run'[q] = run[q]
      /\ run'[r].step = next /\ run'[r].limit = 0
      /\ run'[r].private = run[r].private
      /\ run'[r].namespace = run[r].namespace
      /\ run'[r].status = "running" /\ run'[r].budget = run[r].budget
      /\ run'[r].answers = run[r].answers + 1
  BY <1>2, <1>3, <1>5 DEF RunRecord
<1>7. CASE last
  BY <1>1, <1>2, <1>5, <1>6, <1>7, RunGoesOn
<1>8. CASE ~last
  <2>1. run[r].answers < run[r].budget.agents
    BY <1>2
  <2>2. run'[r].answers < run[r].budget.agents
    BY <1>4, <1>6, <1>8, <2>1
  <2>3. run'[r].step = run[r].step
    BY <1>5, <1>6, <1>8
  <2> QED BY <1>1, <1>2, <1>6, <2>2, <2>3, RunGoesOn
<1> QED BY <1>7, <1>8

\* A repair that passes the checks is the candidate from then on.
LEMMA RepairedKeeps ==
  ASSUME WorkInv, NEW r \in Run, NEW size \in Sizes, NEW good \in BOOLEAN,
         Repaired(r, size, good)
  PROVE  WorkInv'
<1>1. /\ Running(r) /\ ordered[run[r].step] = synthesis
      /\ UNCHANGED <<planVars, open, memory>>
  BY DEF Repaired, Calling
<1>2. /\ WorkTypes /\ run \in [Run -> RunRecord] /\ run[r] \in RunRecord
      /\ run[r].status = "running" /\ run[r].step = At(synthesis)
      /\ At(synthesis) \in Nat /\ At(commit) \in Nat
      /\ At(synthesis) < At(commit)
  BY <1>1, RunFacts
<1>3. CASE good
  <2>1. size \in Nat
    BY WorkflowAssumption
  <2>2. PICK cand \in [good : BOOLEAN, size : Nat] :
          /\ run' = [run EXCEPT ![r].limit = 0,
                                ![r].replans = 1,
                                ![r].output = @ + size,
                                ![r].candidate = cand,
                                ![r].step = @ + 1]
          /\ cand.good
    <3>1. [good |-> TRUE, size |-> size] \in [good : BOOLEAN, size : Nat]
      BY <2>1
    <3> QED BY <1>3, <3>1 DEF Repaired
  <2>3. /\ run' \in [Run -> RunRecord] /\ \A q \in Run \ {r} : run'[q] = run[q]
        /\ run'[r].step = run[r].step + 1 /\ run'[r].limit = 0
        /\ run'[r].private = run[r].private
        /\ run'[r].namespace = run[r].namespace
        /\ run'[r].status = "running" /\ run'[r].budget = run[r].budget
        /\ run'[r].candidate = cand
    BY <1>2, <2>1, <2>2 DEF RunRecord
  <2> QED BY <1>1, <1>2, <2>2, <2>3, RunGoesOn
<1>4. CASE ~good
  <2>1. run[r].step <= At(commit)
    BY <1>2
  <2>2. run' = End(r, "failed")
    BY <1>4 DEF Repaired
  <2> QED BY <1>1, <2>1, <2>2, RunIsLost
<1> QED BY <1>3, <1>4

\* What reaches the evaluation passed the synthesis, and completes.
LEMMA EvaluateKeeps ==
  ASSUME WorkInv, NEW r \in Run, EvaluateResult(r)
  PROVE  WorkInv'
<1>1. /\ Running(r) /\ ordered[run[r].step] = evaluation
      /\ UNCHANGED <<planVars, open, memory>>
  BY DEF EvaluateResult, AtStep
<1>2. /\ WorkTypes /\ run[r].step = At(evaluation)
      /\ run[r].step > At(synthesis) => run[r].candidate.good
      /\ At(synthesis) \in Nat /\ At(commit) \in Nat /\ At(evaluation) \in Nat
      /\ At(synthesis) < At(commit) /\ At(commit) < At(evaluation)
  BY <1>1, RunFacts
<1>3. run[r].candidate.good /\ run[r].step > At(commit)
  BY <1>2
<1>4. run' = End(r, "completed")
  BY <1>3 DEF EvaluateResult
<1>5. "completed" \in RunState
  BY DEF RunState
<1>6. /\ run' \in [Run -> RunRecord] /\ \A q \in Run \ {r} : run'[q] = run[q]
      /\ run'[r].status = "completed" /\ run'[r].private = run[r].private
  BY <1>2, <1>4, <1>5, Ending
<1> QED BY <1>1, <1>3, <1>6, RunMoves

\* A run may be refused a write before or after its commit.
LEMMA StoreRefusesKeeps ==
  ASSUME WorkInv, NEW r \in Run, StoreRefuses(r)
  PROVE  WorkInv'
<1>1. /\ Running(r) /\ run' = End(r, "refused")
      /\ UNCHANGED <<planVars, open, memory>>
  BY DEF StoreRefuses
<1>2. "refused" \in RunState
  BY DEF RunState
<1>3. /\ run' \in [Run -> RunRecord] /\ \A q \in Run \ {r} : run'[q] = run[q]
      /\ run'[r].status = "refused" /\ run'[r].private = run[r].private
  BY <1>1, <1>2, Ending DEF WorkInv
<1> QED BY <1>1, <1>3, RunMoves

-----------------------------------------------------------------------------
(* Memory                                                                  *)

\* The entry of a run, and the run that is past its commit.
LEMMA CommitKeeps ==
  ASSUME WorkInv, NEW r \in Run, Commit(r)
  PROVE  WorkInv'
<1> DEFINE n == Len(memory)
           new == [run |-> r, namespace |-> run[r].namespace,
                   size |-> run[r].candidate.size,
                   good |-> run[r].candidate.good, state |-> "valid"]
<1>1. /\ Running(r) /\ ordered[run[r].step] = commit /\ run[r].limit = 0
      /\ UNCHANGED <<planVars, open>> /\ run' = [run EXCEPT ![r].step = @ + 1]
      /\ memory' = IF run[r].private THEN memory ELSE Append(memory, new)
  BY DEF Commit, AtStep
<1>2. /\ WorkTypes /\ run \in [Run -> RunRecord] /\ run[r] \in RunRecord
      /\ run[r].status = "running" /\ phase = "used"
      /\ run[r].namespace \in Namespace
      /\ run[r].step = At(commit)
      /\ run[r].step > At(synthesis) => run[r].candidate.good
      /\ At(team) \in Nat /\ At(synthesis) \in Nat /\ At(commit) \in Nat
      /\ At(evaluation) \in Nat /\ At(team) < At(synthesis)
      /\ At(synthesis) < At(commit) /\ At(commit) < At(evaluation)
  BY <1>1, RunFacts
<1>3. /\ At(team)' = At(team) /\ At(synthesis)' = At(synthesis)
      /\ At(commit)' = At(commit) /\ At(evaluation)' = At(evaluation)
      /\ phase' = phase
  BY <1>1, SamePlaces DEF planVars
<1>4. /\ run' \in [Run -> RunRecord] /\ \A q \in Run \ {r} : run'[q] = run[q]
      /\ run'[r].step = run[r].step + 1 /\ run'[r].limit = 0
      /\ run'[r].private = run[r].private
      /\ run'[r].namespace = run[r].namespace
      /\ run'[r].status = "running" /\ run'[r].candidate = run[r].candidate
  <2>1. PICK next \in Nat : /\ run' = [run EXCEPT ![r].step = next]
                            /\ next = run[r].step + 1
    <3>1. run' = [run EXCEPT ![r].step = @ + 1]
      BY DEF Commit
    <3>2. PICK next \in Nat : next = run[r].step + 1
      BY <1>2
    <3>3. run' = [run EXCEPT ![r].step = next]
      BY <3>1, <3>2, Zenon
    <3> QED BY <3>2, <3>3, Zenon
  <2>2. PICK old \in RunRecord : old = run[r]
    BY <1>2
  <2> DEFINE y == [old EXCEPT !.step = next]
  <2>3. /\ y \in RunRecord /\ y.step = next
        /\ y.limit = old.limit /\ y.private = old.private
        /\ y.namespace = old.namespace /\ y.status = old.status
        /\ y.candidate = old.candidate
    BY DEF RunRecord
  <2>4. PICK x \in RunRecord :
          /\ x = [old EXCEPT !.step = next] /\ x.step = next
          /\ x.limit = old.limit /\ x.private = old.private
          /\ x.namespace = old.namespace /\ x.status = old.status
          /\ x.candidate = old.candidate
    BY <2>3
  <2>5. run' = [run EXCEPT ![r] = x]
    BY <2>1, <2>2, <2>4
  <2> QED BY <1>1, <1>2, <2>1, <2>2, <2>4, <2>5
<1>5. run[r].candidate.good /\ run'[r].step > At(commit)
  BY <1>2, <1>4
<1>6. SharedPlan'
  BY <1>1, PlanStays DEF WorkInv
<1>7. ASSUME NEW q \in Run
      PROVE  RunInv(q)'
  <2>1. CASE q = r
    <3>1. /\ run'[r].step \in 1 .. At(evaluation)
          /\ ~(run'[r].step <= At(team))
      BY <1>2, <1>4
    <3> QED BY <1>2, <1>3, <1>4, <1>5, <2>1, <3>1 DEF RunInv
  <2>2. CASE q # r
    <3>1. run'[q] = run[q] /\ RunInv(q)
      BY <1>4, <2>2 DEF WorkInv
    <3> QED BY <1>3, <3>1 DEF RunInv, Running
  <2> QED BY <2>1, <2>2
<1>8. ~Committed(r)
  <2>1. ASSUME NEW i \in DOMAIN memory, memory[i].run = r
        PROVE  FALSE
    <3>1. run[r].step > At(commit)
      BY <1>1, <2>1 DEF WorkInv, EntryInv
    <3> QED BY <1>2, <3>1
  <2> QED BY <2>1 DEF Committed
\* What was in memory is of other runs.
<1>9. ASSUME NEW i \in DOMAIN memory, NEW q \in Run, memory[i].run = q
      PROVE  /\ q # r
             /\ run'[q].status \in {"running", "completed", "refused", "orphaned"}
             /\ memory[i].good /\ ~run'[q].private
             /\ run'[q].status = "running" =>
                  /\ run'[q].step > At(commit)
                  /\ memory[i].namespace = run'[q].namespace
                  /\ memory[i].size \in {0, run'[q].candidate.size}
  <2>1. q # r /\ EntryInv(i)
    BY <1>8, <1>9 DEF Committed, WorkInv
  <2> QED BY <1>4, <1>9, <2>1 DEF EntryInv, Running
<1>10. CASE run[r].private
  <2>1. memory' = memory
    BY <1>1, <1>10
  <2>2. WorkTypes'
    BY <1>1, <1>2, <1>4, <2>1 DEF WorkTypes
  <2>3. \A i \in DOMAIN memory' : EntryInv(i)'
    BY <1>3, <1>9, <2>1 DEF EntryInv, Running
  <2>4. CommitInv'
    BY <1>3, <1>4, <1>10, <2>1 DEF WorkInv, CommitInv, Committed, Running
  <2> QED BY <1>6, <1>7, <2>2, <2>3, <2>4 DEF WorkInv
<1>11. CASE ~run[r].private
  <2>1. PICK e \in Entry : e = new
    <3>1. run[r].candidate \in [good : BOOLEAN, size : Nat]
      BY <1>2 DEF RunRecord
    <3> QED BY <1>2, <3>1 DEF Entry
  <2>2. e.run = r /\ e.namespace = run[r].namespace /\ e.good
        /\ e.size = run[r].candidate.size
    BY <1>5, <2>1
  <2>3. n \in Nat /\ DOMAIN memory = 1 .. n /\ memory \in Seq(Entry)
    BY <1>2, LenProperties DEF WorkTypes
  <2>4. memory' = Append(memory, e)
    BY <1>1, <1>11, <2>1
  <2>5. /\ memory' \in Seq(Entry) /\ DOMAIN memory' = 1 .. (n + 1)
        /\ memory'[n + 1] = e
        /\ \A i \in 1 .. n : memory'[i] = memory[i]
    BY <2>3, <2>4, AppendProperties, LenProperties
  <2>6. /\ n + 1 \in DOMAIN memory'
        /\ \A i \in DOMAIN memory' : i \in 1 .. n \/ i = n + 1
        /\ \A i \in 1 .. n : i \in DOMAIN memory'
    BY <2>3, <2>5
  <2> HIDE DEF n, new
  <2>7. WorkTypes'
    BY <1>1, <1>2, <1>4, <2>5 DEF WorkTypes
  <2>8. ASSUME NEW i \in DOMAIN memory'
        PROVE  EntryInv(i)'
    <3>1. CASE i \in 1 .. n
      BY <1>3, <1>9, <2>3, <2>5, <3>1 DEF EntryInv, Running
    <3>2. CASE i = n + 1
      BY <1>3, <1>4, <1>5, <1>11, <2>2, <2>5, <3>2 DEF EntryInv, Running
    <3> QED BY <2>6, <3>1, <3>2
  <2>9. ASSUME NEW i \in DOMAIN memory', NEW j \in DOMAIN memory',
               memory'[i].run \in Run, memory'[i].run = memory'[j].run
        PROVE  i = j
    <3>1. CASE i \in 1 .. n /\ j \in 1 .. n
      BY <2>3, <2>5, <2>9, <3>1 DEF WorkInv, CommitInv
    <3>2. ASSUME NEW k \in 1 .. n
          PROVE  memory'[k].run # r
      BY <1>8, <2>3, <2>5 DEF Committed
    <3> QED BY <2>2, <2>5, <2>6, <2>9, <3>1, <3>2
  <2>10. ASSUME NEW q \in Run, Committed(q) \/ q = r
         PROVE  Committed(q)'
    BY <2>2, <2>3, <2>5, <2>6, <2>10 DEF Committed
  <2>11. CommitInv'
    BY <1>3, <1>4, <2>9, <2>10 DEF WorkInv, CommitInv, Running
  <2> QED BY <1>6, <1>7, <2>7, <2>8, <2>11 DEF WorkInv
<1> QED BY <1>10, <1>11

\* Entries that expire, are forgotten or are pruned keep whose they are.
LEMMA MemoryAges ==
  ASSUME WorkInv, UNCHANGED <<planVars, run>>, open' \in Namespace,
         memory' \in Seq(Entry), DOMAIN memory' = DOMAIN memory,
         \A i \in DOMAIN memory :
           /\ memory'[i].run = memory[i].run
           /\ memory'[i].namespace = memory[i].namespace
           /\ memory'[i].good = memory[i].good
           /\ memory'[i].size \in {0, memory[i].size}
  PROVE  WorkInv'
<1>1. /\ At(team)' = At(team) /\ At(synthesis)' = At(synthesis)
      /\ At(commit)' = At(commit) /\ At(evaluation)' = At(evaluation)
      /\ phase' = phase /\ run' = run
  BY SamePlaces DEF planVars
<1>2. SharedPlan'
  BY PlanStays DEF WorkInv
<1>3. WorkTypes'
  BY DEF WorkInv, WorkTypes
<1>4. ASSUME NEW r \in Run
      PROVE  RunInv(r)' /\ Committed(r)' = Committed(r)
  <2>1. RunInv(r)
    BY DEF WorkInv
  <2> QED BY <1>1, <2>1 DEF RunInv, Running, Committed
<1>5. ASSUME NEW i \in DOMAIN memory'
      PROVE  EntryInv(i)'
  <2>1. EntryInv(i)
    BY DEF WorkInv
  <2> QED BY <1>1, <2>1 DEF EntryInv, Running
<1>6. CommitInv'
  BY <1>1, <1>4 DEF WorkInv, CommitInv, Running
<1> QED BY <1>2, <1>3, <1>4, <1>5, <1>6 DEF WorkInv

\* An entry in another state, with its size or none, is an entry.
LEMMA EntryAges ==
  ASSUME NEW e \in Entry
  PROVE  /\ [e EXCEPT !.state = "expired"] \in Entry
         /\ [e EXCEPT !.state = "expired"].run = e.run
         /\ [e EXCEPT !.state = "expired"].namespace = e.namespace
         /\ [e EXCEPT !.state = "expired"].good = e.good
         /\ [e EXCEPT !.state = "expired"].size = e.size
         /\ [e EXCEPT !.state = "deleted", !.size = 0] \in Entry
         /\ [e EXCEPT !.state = "deleted", !.size = 0].run = e.run
         /\ [e EXCEPT !.state = "deleted", !.size = 0].namespace = e.namespace
         /\ [e EXCEPT !.state = "deleted", !.size = 0].good = e.good
         /\ [e EXCEPT !.state = "deleted", !.size = 0].size = 0
BY DEF Entry

\* An entry that expires or is forgotten is still of its run.
LEMMA ExpireKeeps ==
  ASSUME WorkInv, NEW i \in DOMAIN memory, Expire(i) \/ Forget(i)
  PROVE  WorkInv'
<1>1. memory \in Seq(Entry) /\ open \in Namespace
  BY DEF WorkInv, WorkTypes
<1>2. /\ Len(memory) \in Nat /\ DOMAIN memory = 1 .. Len(memory)
      /\ memory[i] \in Entry
  BY <1>1, LenProperties
<1>3. PICK old \in Entry : old = memory[i]
  BY <1>2
<1>4. PICK e \in Entry :
        /\ memory' = [memory EXCEPT ![i] = e]
        /\ e.run = memory[i].run /\ e.namespace = memory[i].namespace
        /\ e.good = memory[i].good /\ e.size \in {0, memory[i].size}
  <2>1. CASE Expire(i)
    <3>1. memory' = [memory EXCEPT ![i] = [old EXCEPT !.state = "expired"]]
      BY <1>3, <2>1 DEF Expire
    <3> QED BY <1>3, <3>1, EntryAges
  <2>2. CASE Forget(i)
    <3>1. memory' =
            [memory EXCEPT ![i] = [old EXCEPT !.state = "deleted", !.size = 0]]
      BY <1>3, <2>2 DEF Forget
    <3> QED BY <1>3, <3>1, EntryAges
  <2> QED BY <2>1, <2>2
<1>5. memory' \in Seq(Entry) /\ DOMAIN memory' = DOMAIN memory
  BY <1>1, <1>2, <1>4, ExceptSeq
<1>6. ASSUME NEW j \in DOMAIN memory
      PROVE  /\ memory'[j].run = memory[j].run
             /\ memory'[j].namespace = memory[j].namespace
             /\ memory'[j].good = memory[j].good
             /\ memory'[j].size \in {0, memory[j].size}
  BY <1>4
<1>7. UNCHANGED <<planVars, run>> /\ open' = open
  BY DEF Expire, Forget
<1> QED BY <1>1, <1>5, <1>6, <1>7, MemoryAges

\* So is what opening a workspace prunes.
LEMMA OpenKeeps ==
  ASSUME WorkInv, NEW w \in Namespace, OpenWorkspace(w)
  PROVE  WorkInv'
<1>1. memory \in Seq(Entry) /\ Len(memory) \in Nat
      /\ DOMAIN memory = 1 .. Len(memory)
  BY LenProperties DEF WorkInv, WorkTypes
<1>2. ASSUME NEW i \in DOMAIN memory
      PROVE  /\ memory'[i] \in Entry
             /\ memory'[i].run = memory[i].run
             /\ memory'[i].namespace = memory[i].namespace
             /\ memory'[i].good = memory[i].good
             /\ memory'[i].size \in {0, memory[i].size}
  <2>1. PICK old \in Entry : old = memory[i]
    BY <1>1
  <2>2. memory'[i] = IF old.state = "expired"
                     THEN [old EXCEPT !.state = "deleted", !.size = 0]
                     ELSE old
    BY <2>1 DEF OpenWorkspace
  <2>3. CASE old.state = "expired"
    <3>1. memory'[i] = [old EXCEPT !.state = "deleted", !.size = 0]
      BY <2>2, <2>3
    <3> QED BY <2>1, <3>1, EntryAges
  <2>4. CASE old.state # "expired"
    BY <2>1, <2>2, <2>4
  <2> QED BY <2>3, <2>4
<1>3. DOMAIN memory' = DOMAIN memory
  BY DEF OpenWorkspace
<1>4. memory' \in Seq(Entry)
  <2>1. memory' = [i \in 1 .. Len(memory) |-> memory'[i]]
    BY <1>1 DEF OpenWorkspace
  <2> QED BY <1>1, <1>2, <2>1
<1>5. UNCHANGED <<planVars, run>> /\ open' \in Namespace
  BY DEF OpenWorkspace
<1> QED BY <1>2, <1>3, <1>4, <1>5, MemoryAges

-----------------------------------------------------------------------------
(* The whole                                                               *)

\* A run starts at the first step of a sound plan, with nothing in memory.
LEMMA StartKeeps ==
  ASSUME WorkInv, NEW r \in Run, NEW private \in BOOLEAN, NEW b \in Budgets,
         Start(r, private, b)
  PROVE  WorkInv'
<1>1. /\ phase \in {"planned", "used"} /\ verdict # "blocked"
      /\ goal = {evaluation} /\ phase' = "used" /\ run[r].status = "none"
      /\ UNCHANGED <<registry, goal, ordered>> /\ open' = open
      /\ memory' = memory
  BY DEF Start
<1>2. SharedPlan /\ WorkTypes
  BY DEF WorkInv
<1>3. SharedPlan'
  BY <1>1, <1>2, StartShares
<1>4. /\ At(team)' = At(team) /\ At(synthesis)' = At(synthesis)
      /\ At(commit)' = At(commit) /\ At(evaluation)' = At(evaluation)
  BY <1>1, SamePlaces
<1>5. PICK x \in RunRecord :
        /\ run' = [run EXCEPT ![r] = x]
        /\ x.status = "running" /\ x.namespace = open /\ x.step = 1
        /\ x.limit = 0 /\ x.answers = 0 /\ x.budget = b
  <2>2. PICK n \in RunRecord :
          n = NoRun /\ n.step = 1 /\ n.limit = 0 /\ n.answers = 0
    BY NoRunIs
  <2>3. b \in Budget /\ open \in Namespace
    BY <1>2, WorkflowAssumption DEF WorkTypes
  <2>4. run' = [run EXCEPT ![r] = [n EXCEPT !.status = "running",
                                            !.namespace = open,
                                            !.private = private,
                                            !.budget = b]]
    BY <2>2 DEF Start
  <2> DEFINE y == [n EXCEPT !.status = "running", !.namespace = open,
                            !.private = private, !.budget = b]
  <2>5. /\ y \in RunRecord
        /\ y.status = "running" /\ y.namespace = open /\ y.step = n.step
        /\ y.limit = n.limit /\ y.answers = n.answers /\ y.budget = b
    BY <2>3 DEF RunRecord, RunState
  <2> HIDE DEF y
  <2>6. run' = [run EXCEPT ![r] = y]
    BY <2>4 DEF y
  <2> QED BY <2>2, <2>5, <2>6
<1>6. /\ run' \in [Run -> RunRecord] /\ run'[r] = x
      /\ \A q \in Run \ {r} : run'[q] = run[q]
  BY <1>2, <1>5 DEF WorkTypes
<1>7. WorkTypes'
  BY <1>1, <1>2, <1>6 DEF WorkTypes
<1>8. /\ At(team) \in Nat /\ At(synthesis) \in Nat /\ At(commit) \in Nat
      /\ At(evaluation) \in Nat /\ 1 <= At(team)
      /\ At(team) < At(synthesis) /\ At(synthesis) < At(commit)
      /\ At(commit) < At(evaluation)
  BY <1>1, <1>2, UsedIsSound, Positions DEF SharedPlan
<1>9. ASSUME NEW q \in Run
      PROVE  RunInv(q)'
  <2>1. CASE q = r
    <3>1. 0 < b.agents
      BY WorkflowAssumption DEF Budget
    <3>2. 1 \in 1 .. At(evaluation) /\ ~(1 > At(synthesis))
      BY <1>8
    <3>3. open \in Namespace
      BY <1>2 DEF WorkTypes
    <3> QED BY <1>1, <1>4, <1>5, <1>6, <2>1, <3>1, <3>2, <3>3 DEF RunInv
  <2>2. CASE q # r
    <3>1. run'[q] = run[q] /\ RunInv(q)
      BY <1>6, <2>2 DEF WorkInv
    <3> QED BY <1>1, <1>4, <3>1 DEF RunInv, Running
  <2> QED BY <2>1, <2>2
<1>10. ASSUME NEW i \in DOMAIN memory
       PROVE  EntryInv(i)'
  <2>1. EntryInv(i)
    BY DEF WorkInv
  <2>2. memory[i].run # r
    BY <1>1, <2>1 DEF EntryInv
  <2> QED BY <1>1, <1>4, <1>6, <2>1, <2>2 DEF EntryInv, Running
<1>11. CommitInv'
  <2>1. ~(x.step > At(commit))
    BY <1>5, <1>8
  <2> QED BY <1>1, <1>4, <1>5, <1>6, <2>1
      DEF WorkInv, CommitInv, Committed, Running
<1> QED BY <1>1, <1>3, <1>7, <1>9, <1>10, <1>11 DEF WorkInv

\* A crash ends the runs that execute; what they committed stays.
LEMMA CrashKeeps == WorkInv /\ Crash => WorkInv'
<1> SUFFICES ASSUME WorkInv, Crash
             PROVE  WorkInv'
  OBVIOUS
<1>1. /\ run' = [r \in Run |-> IF Running(r) THEN Ended(r, "orphaned") ELSE run[r]]
      /\ UNCHANGED <<planVars, open, memory>>
  BY DEF Crash
<1>2. /\ At(team)' = At(team) /\ At(synthesis)' = At(synthesis)
      /\ At(commit)' = At(commit) /\ At(evaluation)' = At(evaluation)
  BY <1>1, SamePlaces DEF planVars
<1>3. ASSUME NEW r \in Run
      PROVE  /\ run'[r] \in RunRecord
             /\ run'[r].status # "running"
             /\ run'[r].private = run[r].private
             /\ run'[r].status = run[r].status
                \/ run'[r].status = "orphaned"
  <2>1. CASE Running(r)
    <3>1. PICK x \in RunRecord :
            x = Ended(r, "orphaned") /\ x.status = "orphaned"
            /\ x.private = run[r].private
      BY EndedIs DEF WorkInv, RunState
    <3> QED BY <1>1, <2>1, <3>1
  <2>2. CASE ~Running(r)
    BY <1>1, <2>2 DEF WorkInv, WorkTypes, Running
  <2> QED BY <2>1, <2>2
<1>4. SharedPlan'
  BY <1>1, PlanStays DEF WorkInv
<1>5. run' \in [Run -> RunRecord]
  BY <1>1, <1>3
<1>6. WorkTypes'
  BY <1>1, <1>5 DEF WorkInv, WorkTypes
<1>7. ASSUME NEW r \in Run
      PROVE  RunInv(r)'
  BY <1>3 DEF RunInv, Running
<1>8. ASSUME NEW i \in DOMAIN memory
      PROVE  EntryInv(i)'
  <2>1. EntryInv(i)
    BY DEF WorkInv
  <2> QED BY <1>1, <1>3, <2>1 DEF EntryInv, Running
<1>9. CommitInv'
  BY <1>1, <1>3 DEF WorkInv, CommitInv, Committed, Running
<1> QED BY <1>1, <1>4, <1>6, <1>7, <1>8, <1>9 DEF WorkInv

\* While the plan is made no run executes, so it may change.
LEMMA PlanningKeeps == WorkInv /\ PlanNext /\ UNCHANGED workVars => WorkInv'
<1> SUFFICES ASSUME WorkInv, PlanNext, UNCHANGED workVars
             PROVE  WorkInv'
  OBVIOUS
<1>1. phase # "used"
  BY DEF PlanNext, Select, Visit, Leave, Evaluate, Return
<1>2. open' = open /\ run' = run /\ memory' = memory
  BY DEF workVars
<1>3. \A r \in Run : ~Running(r)
  BY <1>1 DEF WorkInv, RunInv
<1>4. SharedPlan'
  BY PlanIsShared DEF WorkInv, Next
<1>5. WorkTypes'
  BY <1>2 DEF WorkInv, WorkTypes
<1>6. \A r \in Run : RunInv(r)'
  BY <1>2, <1>3 DEF RunInv, Running
<1>7. ASSUME NEW i \in DOMAIN memory
      PROVE  EntryInv(i)'
  <2>1. EntryInv(i)
    BY DEF WorkInv
  <2> QED BY <1>2, <1>3, <2>1 DEF EntryInv, Running
<1>8. CommitInv'
  BY <1>2, <1>3 DEF WorkInv, CommitInv, Committed, Running
<1> QED BY <1>2, <1>4, <1>5, <1>6, <1>7, <1>8 DEF WorkInv

\* Before anything runs memory has the entries of an earlier process.
LEMMA InitWorks == WorkInit => WorkInv
<1> SUFFICES ASSUME WorkInit
             PROVE  WorkInv
  OBVIOUS
<1>1. /\ Init /\ open \in Namespace /\ run = [r \in Run |-> NoRun]
      /\ memory \in Stored
  BY DEF WorkInit
<1>2. /\ memory \in Seq(Entry)
      /\ \A i \in DOMAIN memory : memory[i].run \notin Run
  BY <1>1, WorkflowAssumption
<1>3. SharedPlan
  BY <1>1, InitJudges, PlanningAssumption DEF Init, SharedPlan
<1>4. NoRun \in RunRecord /\ NoRun.status = "none"
  BY NoRunIs
<1>5. \A r \in Run : run[r].status = "none"
  BY <1>1, <1>4
<1>6. WorkTypes
  BY <1>1, <1>2, <1>4 DEF WorkTypes
<1>7. \A r \in Run : RunInv(r)
  BY <1>5 DEF RunInv, Running
<1>8. \A i \in DOMAIN memory : EntryInv(i)
  BY <1>2 DEF EntryInv
<1>9. CommitInv
  BY <1>2, <1>5 DEF CommitInv, Running
<1> QED BY <1>3, <1>6, <1>7, <1>8, <1>9 DEF WorkInv

\* Every step of planning, of a run, of memory and a crash preserves it.
LEMMA NextWorks == WorkInv /\ [Next]_vars => WorkInv'
<1> SUFFICES ASSUME WorkInv, [Next]_vars
             PROVE  WorkInv'
  OBVIOUS
<1>1. ASSUME NEW r \in Run, Pipeline(r)
      PROVE  WorkInv'
  <2>1. ASSUME NEW size \in Sizes, NEW good \in BOOLEAN,
               Answer(r, size, good) \/ Repaired(r, size, good)
        PROVE  WorkInv'
    BY <2>1, AnswerKeeps, RepairedKeeps
  <2> QED BY <1>1, <2>1, RecallKeeps, CallRoleKeeps, CallFailsKeeps,
             SynthesizeKeeps, CommitKeeps, EvaluateKeeps, StoreRefusesKeeps
      DEF Pipeline
<1>2. ASSUME NEW r \in Run, NEW private \in BOOLEAN, NEW b \in Budgets,
             Start(r, private, b)
      PROVE  WorkInv'
  BY <1>2, StartKeeps
<1>3. ASSUME NEW i \in DOMAIN memory, Expire(i) \/ Forget(i)
      PROVE  WorkInv'
  BY <1>3, ExpireKeeps
<1>4. ASSUME NEW w \in Namespace, OpenWorkspace(w)
      PROVE  WorkInv'
  BY <1>4, OpenKeeps
<1>5. CASE PlanNext /\ UNCHANGED workVars
  BY <1>5, PlanningKeeps
<1>6. CASE UNCHANGED vars
  <2>1. /\ open \in Namespace /\ memory \in Seq(Entry)
    BY DEF WorkInv, WorkTypes
  <2> QED BY <1>6, <2>1, MemoryAges DEF vars, workVars
<1> QED BY <1>1, <1>2, <1>3, <1>4, <1>5, <1>6, CrashKeeps DEF Next, WorkNext

-----------------------------------------------------------------------------
(* The budgets                                                             *)

\* What the calls of a run take of its budget.  The repair is the one call that
\* is not the team's, made only when the budget has one for it.
CallsInv(r) ==
  /\ run[r].limit \in Nat
  /\ Calls(r) <= run[r].budget.calls
  /\ run[r].output + run[r].limit <= run[r].budget.output
  /\ run[r].replans <= run[r].budget.replans
  /\ Running(r) =>
       /\ run[r].step <= At(synthesis) => run[r].replans = 0
       /\ run[r].limit # 0 /\ run[r].step = At(synthesis) =>
            run[r].budget.replans > 0

\* What a run was given of memory: it is of the workspace that is open for as
\* long as the run executes.
RecallInv(r) ==
  /\ run[r].recalled \subseteq DOMAIN memory
  /\ Cardinality(run[r].recalled) <= run[r].budget.items
  /\ SizeOf(run[r].recalled) <= run[r].budget.bytes
  /\ Running(r) => run[r].namespace = open

BudgetInv == \A r \in Run : CallsInv(r) /\ RecallInv(r)

\* Sizes are numbers, and the sum of those of some entries is one.
LEMMA SizesAreNumbers ==
  ASSUME WorkTypes
  PROVE  /\ DOMAIN memory = 1 .. Len(memory) /\ Len(memory) \in Nat
         /\ \A i \in DOMAIN memory : memory[i].size \in Nat
         /\ \A S \in SUBSET DOMAIN memory :
              /\ IsFiniteSet(S) /\ Cardinality(S) \in Nat
              /\ SizeOf(S) \in Nat
         /\ Cardinality({}) = 0 /\ SizeOf({}) = 0
<1>1. /\ DOMAIN memory = 1 .. Len(memory) /\ Len(memory) \in Nat
      /\ \A i \in DOMAIN memory : memory[i] \in Entry
  BY LenProperties DEF WorkTypes
<1>2. \A i \in DOMAIN memory : memory[i].size \in Nat
  BY <1>1 DEF Entry
<1> DEFINE size == [i \in DOMAIN memory |-> memory[i].size]
<1>3. ASSUME NEW S \in SUBSET DOMAIN memory
      PROVE  /\ IsFiniteSet(S) /\ Cardinality(S) \in Nat
             /\ SumFunctionOnSet(size, S) \in Nat
             /\ S = {} => SumFunctionOnSet(size, S) = 0
  <2>1. IsFiniteSet(S) /\ Cardinality(S) \in Nat
    <3>1. IsFiniteSet(1 .. Len(memory))
      BY <1>1, FS_Interval
    <3> QED BY <1>1, <3>1, FS_Subset, FS_CardinalityType
  <2>2. \A i \in S : size[i] \in Nat
    BY <1>2
  <2> HIDE DEF size
  <2> QED BY <2>1, <2>2, SumType
<1>4. Cardinality({}) = 0
  BY FS_EmptySet
<1>5. \A S : SizeOf(S) = SumFunctionOnSet(size, S)
  BY DEF SizeOf
<1> HIDE DEF size
<1>6. SizeOf({}) = 0
  BY <1>3, <1>5
<1> QED BY <1>1, <1>2, <1>3, <1>4, <1>5, <1>6

\* Fewer entries are no larger.
LEMMA FewerAreSmaller ==
  ASSUME WorkTypes, NEW T \in SUBSET DOMAIN memory, NEW S \in SUBSET T
  PROVE  SizeOf(S) <= SizeOf(T) /\ Cardinality(S) <= Cardinality(T)
<1> DEFINE size == [i \in DOMAIN memory |-> memory[i].size]
<1>1. /\ IsFiniteSet(T)
      /\ \A i \in T : size[i] \in Nat
  BY SizesAreNumbers
<1>2. Cardinality(S) <= Cardinality(T)
  BY <1>1, FS_Subset
<1>3. SizeOf(S) = SumFunctionOnSet(size, S) /\ SizeOf(T) = SumFunctionOnSet(size, T)
  BY DEF SizeOf
<1> HIDE DEF size
<1>4. \A i \in S : size[i] \in Nat /\ size[i] <= size[i]
  BY <1>1
<1>5. SumFunctionOnSet(size, S) <= SumFunctionOnSet(size, T)
  BY <1>1, <1>4, SumAtMost
<1> QED BY <1>2, <1>3, <1>5

\* Entries keep their size or are emptied, so what was recalled gets no larger.
LEMMA EntriesShrink ==
  ASSUME WorkTypes, WorkTypes', NEW S \in SUBSET DOMAIN memory,
         DOMAIN memory \subseteq DOMAIN memory',
         \A i \in DOMAIN memory : memory'[i].size <= memory[i].size
  PROVE  SizeOf(S)' <= SizeOf(S) /\ SizeOf(S)' \in Nat
<1> DEFINE size == [i \in DOMAIN memory |-> memory[i].size]
           next == [i \in DOMAIN memory' |-> memory'[i].size]
<1>1. IsFiniteSet(S) /\ \A i \in S : size[i] \in Nat
  BY SizesAreNumbers
<1>2. \A i \in S : next[i] \in Nat /\ next[i] <= size[i]
  <2>1. \A i \in DOMAIN memory' : memory'[i].size \in Nat
    <3>1. \A i \in DOMAIN memory' : memory'[i] \in Entry
      BY DEF WorkTypes
    <3> QED BY <3>1 DEF Entry
  <2> QED BY <2>1
<1>3. SizeOf(S) = SumFunctionOnSet(size, S) /\ SizeOf(S)' = SumFunctionOnSet(next, S)
  BY DEF SizeOf
<1> HIDE DEF size, next
<1>4. SumFunctionOnSet(next, S) <= SumFunctionOnSet(size, S)
  BY <1>1, <1>2, SumAtMost
<1>5. SumFunctionOnSet(next, S) \in Nat
  BY <1>1, <1>2, SumType
<1> QED BY <1>3, <1>4, <1>5

\* What is newer than an entry that is recalled is recalled too, and all of it
\* fits the budget.
LEMMA RecalledFits ==
  ASSUME WorkTypes, NEW namespace, NEW budget \in Budget
  PROVE  /\ Recalled(namespace, budget) \subseteq DOMAIN memory
         /\ Cardinality(Recalled(namespace, budget)) <= budget.items
         /\ SizeOf(Recalled(namespace, budget)) <= budget.bytes
         /\ \A i \in Recalled(namespace, budget) :
              /\ Current(i, namespace)
              /\ \A j \in DOMAIN memory :
                   i < j /\ Current(j, namespace) =>
                     j \in Recalled(namespace, budget)
<1> DEFINE rows == {i \in DOMAIN memory : Current(i, namespace)}
           UpTo(i) == {j \in rows : i = j \/ i < j}
           found == Recalled(namespace, budget)
<1>1. found = {i \in rows : /\ Cardinality(UpTo(i)) <= budget.items
                            /\ SizeOf(UpTo(i)) <= budget.bytes}
  BY DEF Recalled, Newer
<1>2. /\ budget.items \in Nat /\ budget.bytes \in Nat
      /\ DOMAIN memory = 1 .. Len(memory) /\ Len(memory) \in Nat
      /\ \A S \in SUBSET DOMAIN memory :
           Cardinality(S) \in Nat /\ SizeOf(S) \in Nat
      /\ Cardinality({}) = 0 /\ SizeOf({}) = 0
  BY SizesAreNumbers DEF Budget
<1>3. rows \subseteq DOMAIN memory /\ \A i \in rows : UpTo(i) \in SUBSET DOMAIN memory
  OBVIOUS
<1> HIDE DEF rows, found
<1>4. ASSUME NEW i \in rows, Cardinality(UpTo(i)) <= budget.items,
             SizeOf(UpTo(i)) <= budget.bytes, NEW S \in SUBSET UpTo(i)
      PROVE  Cardinality(S) <= budget.items /\ SizeOf(S) <= budget.bytes
  <2>1. UpTo(i) \in SUBSET DOMAIN memory /\ S \in SUBSET DOMAIN memory
    BY <1>3
  <2>2. Cardinality(S) <= Cardinality(UpTo(i)) /\ SizeOf(S) <= SizeOf(UpTo(i))
    BY <2>1, FewerAreSmaller
  <2>3. /\ Cardinality(S) \in Nat /\ SizeOf(S) \in Nat
        /\ Cardinality(UpTo(i)) \in Nat /\ SizeOf(UpTo(i)) \in Nat
    BY <1>2, <2>1
  <2> HIDE DEF UpTo
  <2> QED BY <1>2, <1>4, <2>2, <2>3
<1>5. Cardinality(found) <= budget.items /\ SizeOf(found) <= budget.bytes
  <2>1. CASE found = {}
    BY <1>2, <2>1
  <2>2. CASE found # {}
    <3>1. found \subseteq Nat
      BY <1>1, <1>2, <1>3
    <3>2. PICK m \in found : \A k \in found : m <= k
      BY <2>2, <3>1, LeastNumber
    <3>3. found \in SUBSET UpTo(m)
      BY <1>1, <3>1, <3>2
    <3> HIDE DEF UpTo
    <3> QED BY <1>1, <1>4, <3>2, <3>3
  <2> QED BY <2>1, <2>2
<1>6. ASSUME NEW i \in found, NEW j \in rows, i < j
      PROVE  j \in found
  <2>1. i \in Nat /\ j \in Nat /\ rows \subseteq Nat
    BY <1>1, <1>2, <1>3
  <2>2. UpTo(j) \in SUBSET UpTo(i)
    <3> SUFFICES ASSUME NEW k \in UpTo(j)
                 PROVE  k \in rows /\ i < k
      OBVIOUS
    <3>1. k \in rows /\ k \in Nat /\ (j = k \/ j < k)
      BY <2>1
    <3> QED BY <1>6, <2>1, <3>1
  <2> HIDE DEF UpTo
  <2>3. Cardinality(UpTo(j)) <= budget.items /\ SizeOf(UpTo(j)) <= budget.bytes
    BY <1>1, <1>4, <2>2
  <2> QED BY <1>1, <2>3
<1> QED BY <1>1, <1>3, <1>5, <1>6 DEF found, rows

\* The numbers of a run.
LEMMA RunNumbers ==
  ASSUME WorkTypes, NEW r \in Run
  PROVE  /\ run[r] \in RunRecord
         /\ run[r].answers \in Nat /\ run[r].replans \in Nat
         /\ run[r].output \in Nat /\ run[r].limit \in Int
         /\ run[r].budget \in Budget /\ run[r].step \in Nat
         /\ run[r].budget.agents \in 1 .. 3 /\ run[r].budget.calls \in 1 .. 4
         /\ run[r].budget.output \in Nat /\ run[r].budget.replans \in 0 .. 1
         /\ run[r].budget.items \in Nat /\ run[r].budget.bytes \in Nat
<1>1. run[r] \in RunRecord
  BY DEF WorkTypes
<1>2. run[r].budget \in Budget
  BY <1>1 DEF RunRecord
<1> QED BY <1>1, <1>2 DEF RunRecord, Budget

\* Memory grows, and no entry does.
MemoryGrows ==
  /\ WorkTypes'
  /\ DOMAIN memory \subseteq DOMAIN memory'
  /\ \A i \in DOMAIN memory : memory'[i].size <= memory[i].size

LEMMA NextGrows ==
  ASSUME WorkInv, [Next]_vars
  PROVE  MemoryGrows
<1>1. WorkTypes /\ WorkTypes'
  BY NextWorks DEF WorkInv
<1>2. /\ DOMAIN memory = 1 .. Len(memory) /\ Len(memory) \in Nat
      /\ memory \in Seq(Entry)
      /\ \A i \in DOMAIN memory :
           /\ memory[i].size \in Nat /\ 0 <= memory[i].size
           /\ memory[i].size <= memory[i].size
  BY <1>1, SizesAreNumbers DEF WorkTypes
<1>3. CASE memory' = memory
  BY <1>1, <1>2, <1>3 DEF MemoryGrows
<1>4. ASSUME NEW r \in Run, Commit(r), memory' # memory
      PROVE  MemoryGrows
  <2>1. PICK e : memory' = Append(memory, e)
    BY <1>4 DEF Commit
  <2>2. /\ DOMAIN memory' = 1 .. Len(memory) + 1
        /\ \A i \in 1 .. Len(memory) : memory'[i] = memory[i]
    BY <1>2, <2>1
  <2> QED BY <1>1, <1>2, <2>2 DEF MemoryGrows
<1>5. ASSUME NEW i \in DOMAIN memory, Expire(i) \/ Forget(i)
      PROVE  MemoryGrows
  <2>1. PICK e \in Entry : e = memory[i]
    BY <1>2
  <2>2. \/ memory' = [memory EXCEPT ![i] = [e EXCEPT !.state = "expired"]]
        \/ memory' =
             [memory EXCEPT ![i] = [e EXCEPT !.state = "deleted", !.size = 0]]
    BY <1>5, <2>1 DEF Expire, Forget
  <2>3. \A j \in DOMAIN memory : memory'[j].size \in {0, memory[j].size}
    BY <2>1, <2>2, EntryAges
  <2> QED BY <1>1, <1>2, <2>2, <2>3 DEF MemoryGrows
<1>6. ASSUME NEW w \in Namespace, OpenWorkspace(w)
      PROVE  MemoryGrows
  <2>1. DOMAIN memory' = DOMAIN memory
    BY <1>6 DEF OpenWorkspace
  <2>2. ASSUME NEW j \in DOMAIN memory
        PROVE  memory'[j].size \in {0, memory[j].size}
    <3>1. PICK e \in Entry : e = memory[j]
      BY <1>2
    <3>2. \/ memory'[j] = [e EXCEPT !.state = "deleted", !.size = 0]
          \/ memory'[j] = e
      BY <1>6, <3>1 DEF OpenWorkspace
    <3> QED BY <3>1, <3>2, EntryAges
  <2> QED BY <1>1, <1>2, <2>1, <2>2 DEF MemoryGrows
<1>7. ASSUME NEW r \in Run, Pipeline(r), ~Commit(r)
      PROVE  memory' = memory
  BY <1>7
  DEF Pipeline, Recall, CallRole, CallFails, Cancel, Synthesize,
      EvaluateResult, StoreRefuses, Answer, Repaired
<1>8. ASSUME NEW r \in Run, NEW private \in BOOLEAN, NEW b \in Budgets,
             Start(r, private, b)
      PROVE  memory' = memory
  BY <1>8 DEF Start
<1> QED BY <1>3, <1>4, <1>5, <1>6, <1>7, <1>8
        DEF Next, WorkNext, Crash, vars, workVars

\* What was recalled stays within its budget.
LEMMA RecallStays ==
  ASSUME WorkTypes, MemoryGrows, NEW r \in Run, RecallInv(r),
         run'[r].recalled = run[r].recalled, run'[r].budget = run[r].budget,
         run'[r].status = "running" =>
           /\ Running(r) /\ open' = open
           /\ run'[r].namespace = run[r].namespace
  PROVE  RecallInv(r)'
<1>1. PICK S \in SUBSET DOMAIN memory : S = run[r].recalled
  BY DEF RecallInv
<1>2. SizeOf(S)' <= SizeOf(S) /\ SizeOf(S)' \in Nat
  BY EntriesShrink DEF MemoryGrows
<1>3. SizeOf(S) \in Nat /\ run[r].budget.bytes \in Nat
  BY SizesAreNumbers, RunNumbers
<1>4. SizeOf(run[r].recalled)' = SizeOf(S)'
  BY <1>1 DEF SizeOf
<1>5. SizeOf(S) <= run[r].budget.bytes
  BY <1>1 DEF RecallInv
<1>6. SizeOf(S)' <= run[r].budget.bytes
  BY <1>2, <1>3, <1>5
<1> QED BY <1>1, <1>4, <1>6 DEF RecallInv, MemoryGrows, Running

\* A run that neither called nor recalled anything is within any budget.
LEMMA IdleIsWithin ==
  ASSUME WorkTypes, MemoryGrows, NEW r \in Run,
         run'[r].limit = 0, run'[r].answers = 0, run'[r].replans = 0,
         run'[r].output = 0, run'[r].recalled = {},
         run'[r].status = "running" => run'[r].namespace = open'
  PROVE  CallsInv(r)' /\ RecallInv(r)'
<1>1. run'[r] \in RunRecord
  BY DEF MemoryGrows, WorkTypes
<1>2. run'[r].budget \in Budget
  BY <1>1 DEF RunRecord
<1>3. /\ run'[r].budget.calls \in 1 .. 4 /\ run'[r].budget.output \in Nat
      /\ run'[r].budget.replans \in 0 .. 1
      /\ run'[r].budget.items \in Nat /\ run'[r].budget.bytes \in Nat
  BY <1>2 DEF Budget
<1>4. CallsInv(r)'
  BY <1>3 DEF CallsInv, Calls
<1>5. SizeOf({})' <= SizeOf({}) /\ SizeOf({})' \in Nat
  BY EntriesShrink DEF MemoryGrows
<1>6. SizeOf({}) = 0 /\ Cardinality({}) = 0
  BY SizesAreNumbers
<1>7. SizeOf(run[r].recalled)' = SizeOf({})'
  BY DEF SizeOf
<1> QED BY <1>3, <1>4, <1>5, <1>6, <1>7 DEF RecallInv, Running

\* A run that ended has nothing left of what it did.
LEMMA EndIsWithin ==
  ASSUME WorkTypes, MemoryGrows, NEW r \in Run,
         NEW status \in RunState \ {"running"}, run'[r] = Ended(r, status)
  PROVE  CallsInv(r)' /\ RecallInv(r)'
<1>1. /\ Ended(r, status).status = status /\ Ended(r, status).limit = 0
      /\ Ended(r, status).answers = 0 /\ Ended(r, status).replans = 0
      /\ Ended(r, status).output = 0 /\ Ended(r, status).recalled = {}
  BY DEF Ended, NoRun
<1> QED BY <1>1, IdleIsWithin

\* What the calls of a run have taken is a matter of its record, and of the
\* place of the synthesis only while it executes.
LEMMA CallsStay ==
  ASSUME NEW r \in Run, CallsInv(r), run'[r] = run[r],
         Running(r) => ordered' = ordered
  PROVE  CallsInv(r)'
<1>1. Running(r) => At(synthesis)' = At(synthesis)
  BY SamePlaces
<1> QED BY <1>1 DEF CallsInv, Calls, Running

\* One run moves.
LEMMA OneRunMoves ==
  ASSUME WorkTypes, MemoryGrows, BudgetInv, NEW r \in Run,
         \A q \in Run \ {r} : run'[q] = run[q],
         ordered' = ordered, open' = open,
         CallsInv(r)' /\ RecallInv(r)'
  PROVE  BudgetInv'
<1> SUFFICES ASSUME NEW q \in Run \ {r}
             PROVE  CallsInv(q)' /\ RecallInv(q)'
  BY DEF BudgetInv
<1>1. CallsInv(q) /\ RecallInv(q) /\ run'[q] = run[q]
  BY DEF BudgetInv
<1>2. CallsInv(q)'
  BY <1>1, CallsStay
<1>3. RecallInv(q)'
  BY <1>1, RecallStays DEF Running
<1> QED BY <1>2, <1>3

\* A run that ends leaves the others what they had.
LEMMA EndingIsWithin ==
  ASSUME WorkTypes, MemoryGrows, BudgetInv, NEW r \in Run,
         NEW status \in RunState \ {"running"}, run' = End(r, status),
         UNCHANGED <<planVars, open, memory>>
  PROVE  BudgetInv'
<1>1. run' = [run EXCEPT ![r] = Ended(r, status)]
  BY DEF End
<1>2. run'[r] = Ended(r, status) /\ \A q \in Run \ {r} : run'[q] = run[q]
  BY <1>1 DEF WorkTypes
<1>3. CallsInv(r)' /\ RecallInv(r)'
  BY <1>2, EndIsWithin
<1> QED BY <1>2, <1>3, OneRunMoves DEF planVars

\* What a run that executes may count on.
LEMMA RunIsWithin ==
  ASSUME WorkInv, BudgetInv, NEW r \in Run, Running(r)
  PROVE  /\ run \in [Run -> RunRecord] /\ run[r] \in RunRecord
         /\ run[r].answers \in Nat /\ run[r].replans \in Nat
         /\ run[r].output \in Nat /\ run[r].limit \in Nat
         /\ run[r].step \in Nat
         /\ run[r].budget.agents \in 1 .. 3 /\ run[r].budget.calls \in 1 .. 4
         /\ run[r].budget.output \in Nat /\ run[r].budget.replans \in 0 .. 1
         /\ run[r].answers + run[r].replans
              + (IF run[r].limit > 0 THEN 1 ELSE 0) <= run[r].budget.calls
         /\ run[r].output + run[r].limit <= run[r].budget.output
         /\ run[r].replans <= run[r].budget.replans
         /\ run[r].step <= At(synthesis) => run[r].replans = 0
         /\ run[r].limit # 0 /\ run[r].step = At(synthesis) =>
              run[r].budget.replans > 0
         /\ run[r].step <= At(team) => run[r].answers < run[r].budget.agents
         /\ At(team) \in Nat /\ At(synthesis) \in Nat /\ At(commit) \in Nat
         /\ At(team) < At(synthesis) /\ At(synthesis) < At(commit)
<1>1. WorkTypes /\ CallsInv(r)
  BY DEF WorkInv, BudgetInv
<1>2. /\ run \in [Run -> RunRecord] /\ run[r] \in RunRecord
      /\ run[r].step <= At(team) => run[r].answers < run[r].budget.agents
      /\ At(team) \in Nat /\ At(synthesis) \in Nat /\ At(commit) \in Nat
      /\ At(team) < At(synthesis) /\ At(synthesis) < At(commit)
  BY RunFacts
<1>3. /\ run[r].answers \in Nat /\ run[r].replans \in Nat
      /\ run[r].output \in Nat /\ run[r].step \in Nat
      /\ run[r].budget.agents \in 1 .. 3 /\ run[r].budget.calls \in 1 .. 4
      /\ run[r].budget.output \in Nat /\ run[r].budget.replans \in 0 .. 1
  BY <1>1, RunNumbers
<1> QED BY <1>1, <1>2, <1>3 DEF CallsInv, Calls

\* A run whose calls are within its budget after a step that leaves what it was
\* given of memory.
LEMMA RunStaysWithin ==
  ASSUME WorkInv, MemoryGrows, BudgetInv, NEW r \in Run, Running(r),
         \A q \in Run \ {r} : run'[q] = run[q],
         ordered' = ordered, open' = open,
         run'[r].recalled = run[r].recalled, run'[r].budget = run[r].budget,
         run'[r].namespace = run[r].namespace,
         run'[r].limit \in Nat,
         run'[r].answers + run'[r].replans
           + (IF run'[r].limit > 0 THEN 1 ELSE 0) <= run[r].budget.calls,
         run'[r].output + run'[r].limit <= run[r].budget.output,
         run'[r].replans <= run[r].budget.replans,
         run'[r].step <= At(synthesis) => run'[r].replans = 0,
         run'[r].limit # 0 /\ run'[r].step = At(synthesis) =>
           run[r].budget.replans > 0
  PROVE  BudgetInv'
<1>1. At(synthesis)' = At(synthesis)
  BY SamePlaces
<1>2. CallsInv(r)'
  BY <1>1 DEF CallsInv, Calls
<1>3. RecallInv(r)'
  BY RecallStays DEF BudgetInv, WorkInv
<1> QED BY <1>2, <1>3, OneRunMoves DEF WorkInv

\* The newest entries that fit are recalled.
LEMMA RecallIsWithin ==
  ASSUME WorkInv, MemoryGrows, BudgetInv, NEW r \in Run, Recall(r)
  PROVE  BudgetInv'
<1>1. /\ Running(r) /\ run[r].limit = 0 /\ ordered[run[r].step] = recall
      /\ open' = open /\ memory' = memory /\ ordered' = ordered
  BY DEF Recall, AtStep, planVars
<1>2. /\ WorkTypes /\ run \in [Run -> RunRecord] /\ run[r] \in RunRecord
      /\ run[r].budget \in Budget
      /\ run[r].budget.items \in Nat /\ run[r].budget.bytes \in Nat
  BY <1>1, RunFacts, RunNumbers DEF WorkInv
<1>3. PICK found \in SUBSET DOMAIN memory :
        /\ run' = [run EXCEPT ![r].recalled = found, ![r].step = @ + 1]
        /\ Cardinality(found) <= run[r].budget.items
        /\ SizeOf(found) <= run[r].budget.bytes
  <2> DEFINE found == IF run[r].private THEN {}
                      ELSE Recalled(run[r].namespace, run[r].budget)
  <2>1. SizeOf({}) = 0 /\ Cardinality({}) = 0
    BY <1>2, SizesAreNumbers
  <2>2. /\ found \in SUBSET DOMAIN memory
        /\ Cardinality(found) <= run[r].budget.items
        /\ SizeOf(found) <= run[r].budget.bytes
    BY <1>2, <2>1, RecalledFits
  <2>3. run' = [run EXCEPT ![r].recalled = found, ![r].step = @ + 1]
    BY DEF Recall
  <2> HIDE DEF found
  <2> QED BY <2>2, <2>3
<1>4. /\ \A q \in Run \ {r} : run'[q] = run[q]
      /\ run'[r].recalled = found /\ run'[r].budget = run[r].budget
      /\ run'[r].namespace = run[r].namespace /\ run'[r].limit = 0
      /\ run'[r].answers = run[r].answers /\ run'[r].output = run[r].output
      /\ run'[r].replans = run[r].replans /\ run'[r].step = run[r].step + 1
      /\ run'[r].status = "running"
  BY <1>1, <1>2, <1>3 DEF RunRecord, Running
<1>5. CallsInv(r)'
  <2>1. At(synthesis)' = At(synthesis)
    BY <1>1, SamePlaces
  <2>2. /\ run[r].step \in Nat /\ At(synthesis) \in Nat
        /\ run[r].step <= At(synthesis) => run[r].replans = 0
    BY <1>1, RunIsWithin
  <2>3. run[r].step + 1 <= At(synthesis) => run[r].replans = 0
    BY <2>2
  <2> QED BY <1>1, <1>4, <2>1, <2>3 DEF BudgetInv, CallsInv, Calls
<1>6. RecallInv(r)'
  <2>1. SizeOf(run[r].recalled)' = SizeOf(found)
    BY <1>1, <1>4 DEF SizeOf
  <2> QED BY <1>1, <1>3, <1>4, <2>1 DEF BudgetInv, RecallInv, Running
<1> QED BY <1>1, <1>2, <1>4, <1>5, <1>6, OneRunMoves

\* A share is no more than what is left.
LEMMA ShareIsLeft ==
  ASSUME NEW left \in Nat, NEW n \in 1 .. 3
  PROVE  left \div n \in Nat /\ left \div n <= left
<1>1. CASE n = 1
  BY <1>1
<1>2. CASE n = 2
  BY <1>2
<1>3. CASE n = 3
  BY <1>3
<1> QED BY <1>1, <1>2, <1>3

\* A role is called with what is left of the output, and only when the team has
\* a call for each of its roles.
LEMMA CallRoleIsWithin ==
  ASSUME WorkInv, MemoryGrows, BudgetInv, NEW r \in Run, CallRole(r)
  PROVE  BudgetInv'
<1>1. /\ Running(r) /\ run[r].limit = 0 /\ ordered[run[r].step] = team
      /\ UNCHANGED <<planVars, open, memory>> /\ ordered' = ordered
  BY DEF CallRole, AtStep, planVars
<1>2. CASE ~CanCall(r)
  <2>1. run' = End(r, "failed") /\ "failed" \in RunState \ {"running"}
    BY <1>2 DEF CallRole, RunState
  <2> QED BY <1>1, <2>1, EndingIsWithin DEF WorkInv
<1>3. CASE CanCall(r)
  <2>1. /\ run[r].step = At(team) /\ run[r].answers < run[r].budget.agents
        /\ run[r].replans = 0 /\ At(team) < At(synthesis)
        /\ run[r].answers \in Nat /\ run[r].output \in Nat
        /\ run[r].budget.agents \in 1 .. 3 /\ run[r].budget.calls \in 1 .. 4
        /\ run[r].budget.output \in Nat /\ run[r].budget.replans \in 0 .. 1
        /\ run \in [Run -> RunRecord] /\ run[r] \in RunRecord
        /\ At(team) \in Nat /\ At(synthesis) \in Nat
    <3>1. run[r].step = At(team)
      BY <1>1, RunFacts
    <3> QED BY <1>1, <3>1, RunIsWithin
  <2>2. PICK left \in Int : /\ left = OutputLeft(r) /\ MinOutput <= left
                            /\ left = run[r].budget.output - run[r].output
    BY <1>3, <2>1, WorkflowAssumption DEF CanCall, OutputLeft
  <2>3. MinOutput \in Nat \ {0} /\ left \in Nat
    BY <2>2, WorkflowAssumption
  <2>4. PICK share \in Nat : share = Share(r) /\ share <= left
    <3>1. PICK n \in 1 .. 3 : n = run[r].budget.agents - run[r].answers
      BY <2>1
    <3>2. left \div n \in Nat /\ left \div n <= left
      BY <2>3, ShareIsLeft
    <3>3. Share(r) = IF left \div n > MinOutput THEN left \div n ELSE MinOutput
      BY <2>2, <3>1 DEF Share
    <3> QED BY <2>2, <2>3, <3>2, <3>3
  <2>5. run' = [run EXCEPT ![r].limit = share]
    BY <1>3, <2>4 DEF CallRole
  <2>6. /\ \A q \in Run \ {r} : run'[q] = run[q]
        /\ run'[r].recalled = run[r].recalled /\ run'[r].budget = run[r].budget
        /\ run'[r].namespace = run[r].namespace /\ run'[r].limit = share
        /\ run'[r].answers = run[r].answers /\ run'[r].output = run[r].output
        /\ run'[r].replans = 0 /\ run'[r].step = At(team)
    BY <2>1, <2>5 DEF RunRecord
  <2>7. run[r].budget.agents <= run[r].budget.calls
    BY <1>3 DEF CanCall
  <2>8. /\ run[r].answers + 0 + (IF share > 0 THEN 1 ELSE 0)
             <= run[r].budget.calls
        /\ run[r].output + share <= run[r].budget.output
        /\ 0 <= run[r].budget.replans /\ At(team) # At(synthesis)
    BY <2>1, <2>2, <2>4, <2>7
  <2> QED BY <1>1, <2>6, <2>8, RunStaysWithin
<1> QED BY <1>2, <1>3

\* An answer is no larger than it was promised to be.
LEMMA AnswerIsWithin ==
  ASSUME WorkInv, MemoryGrows, BudgetInv, NEW r \in Run, NEW size \in Sizes,
         NEW good \in BOOLEAN, Answer(r, size, good)
  PROVE  BudgetInv'
<1>1. /\ Running(r) /\ run[r].limit > 0 /\ ordered[run[r].step] = team
      /\ size <= run[r].limit /\ size \in Nat
      /\ open' = open /\ ordered' = ordered
  BY WorkflowAssumption DEF Answer, Calling, planVars
<1>2. run[r].step = At(team)
  BY <1>1, RunFacts
<1>3. /\ run \in [Run -> RunRecord] /\ run[r] \in RunRecord
      /\ run[r].answers \in Nat /\ run[r].replans = 0
      /\ run[r].output \in Nat /\ run[r].limit \in Nat
      /\ run[r].answers + 1 <= run[r].budget.calls
      /\ run[r].output + run[r].limit <= run[r].budget.output
      /\ run[r].budget.calls \in 1 .. 4 /\ run[r].budget.replans \in 0 .. 1
      /\ run[r].budget.output \in Nat
  BY <1>1, <1>2, RunIsWithin
<1>4. PICK cand, next :
        run' = [run EXCEPT ![r].limit = 0,
                           ![r].answers = @ + 1,
                           ![r].output = @ + size,
                           ![r].candidate = cand,
                           ![r].step = next]
  BY DEF Answer
<1>5. /\ \A q \in Run \ {r} : run'[q] = run[q]
      /\ run'[r].recalled = run[r].recalled /\ run'[r].budget = run[r].budget
      /\ run'[r].namespace = run[r].namespace /\ run'[r].limit = 0
      /\ run'[r].answers = run[r].answers + 1
      /\ run'[r].output = run[r].output + size /\ run'[r].replans = 0
  BY <1>3, <1>4 DEF RunRecord
<1>6. /\ run[r].answers + 1 + 0 + (IF 0 > 0 THEN 1 ELSE 0)
           <= run[r].budget.calls
      /\ run[r].output + size + 0 <= run[r].budget.output
      /\ 0 <= run[r].budget.replans
  BY <1>1, <1>3
<1> QED BY <1>1, <1>5, <1>6, RunStaysWithin

\* The synthesis has a candidate repaired only when a call, and output, is left.
LEMMA SynthesizeIsWithin ==
  ASSUME WorkInv, MemoryGrows, BudgetInv, NEW r \in Run, Synthesize(r)
  PROVE  BudgetInv'
<1>1. /\ Running(r) /\ run[r].limit = 0 /\ ordered[run[r].step] = synthesis
      /\ UNCHANGED <<planVars, open, memory>> /\ ordered' = ordered
  BY DEF Synthesize, AtStep, planVars
<1>2. run[r].step = At(synthesis) /\ At(synthesis) \in Nat
  BY <1>1, RunFacts
<1>3. /\ run \in [Run -> RunRecord] /\ run[r] \in RunRecord
      /\ run[r].answers \in Nat /\ run[r].replans = 0
      /\ run[r].output \in Nat
      /\ run[r].answers <= run[r].budget.calls
      /\ run[r].output <= run[r].budget.output
      /\ run[r].budget.calls \in 1 .. 4 /\ run[r].budget.replans \in 0 .. 1
      /\ run[r].budget.output \in Nat
  BY <1>1, <1>2, RunIsWithin
<1>4. CASE run' = [run EXCEPT ![r].step = @ + 1]
  <2>1. /\ \A q \in Run \ {r} : run'[q] = run[q]
        /\ run'[r].recalled = run[r].recalled /\ run'[r].budget = run[r].budget
        /\ run'[r].namespace = run[r].namespace /\ run'[r].limit = 0
        /\ run'[r].answers = run[r].answers /\ run'[r].output = run[r].output
        /\ run'[r].replans = 0
    BY <1>1, <1>3, <1>4 DEF RunRecord
  <2>2. /\ run[r].answers + 0 + (IF 0 > 0 THEN 1 ELSE 0)
             <= run[r].budget.calls
        /\ run[r].output + 0 <= run[r].budget.output
        /\ 0 <= run[r].budget.replans
    BY <1>3
  <2> QED BY <1>1, <2>1, <2>2, RunStaysWithin
<1>5. CASE CanRepair(r) /\ run' = [run EXCEPT ![r].limit = OutputLeft(r)]
  <2>1. PICK left \in Nat : /\ left = OutputLeft(r)
                            /\ left = run[r].budget.output - run[r].output
    BY <1>3 DEF OutputLeft
  <2>2. run[r].budget.replans > 0 /\ run[r].budget.calls > run[r].answers
    BY <1>5 DEF CanRepair
  <2>3. /\ \A q \in Run \ {r} : run'[q] = run[q]
        /\ run'[r].recalled = run[r].recalled /\ run'[r].budget = run[r].budget
        /\ run'[r].namespace = run[r].namespace /\ run'[r].limit = left
        /\ run'[r].answers = run[r].answers /\ run'[r].output = run[r].output
        /\ run'[r].replans = 0
    BY <1>3, <1>5, <2>1 DEF RunRecord
  <2>4. /\ run[r].answers + 0 + (IF left > 0 THEN 1 ELSE 0)
             <= run[r].budget.calls
        /\ run[r].output + left <= run[r].budget.output
        /\ 0 <= run[r].budget.replans
    BY <1>3, <2>1, <2>2
  <2> QED BY <1>1, <2>2, <2>3, <2>4, RunStaysWithin
<1>6. CASE run' = End(r, "failed")
  <2>1. "failed" \in RunState \ {"running"}
    BY DEF RunState
  <2> QED BY <1>1, <1>6, <2>1, EndingIsWithin DEF WorkInv
<1> QED BY <1>4, <1>5, <1>6 DEF Synthesize

\* The one repair that a budget has is taken from it.
LEMMA RepairedIsWithin ==
  ASSUME WorkInv, MemoryGrows, BudgetInv, NEW r \in Run, NEW size \in Sizes,
         NEW good \in BOOLEAN, Repaired(r, size, good)
  PROVE  BudgetInv'
<1>1. /\ Running(r) /\ run[r].limit > 0 /\ ordered[run[r].step] = synthesis
      /\ size <= run[r].limit /\ size \in Nat
      /\ UNCHANGED <<planVars, open, memory>> /\ ordered' = ordered
  BY WorkflowAssumption DEF Repaired, Calling, planVars
<1>2. run[r].step = At(synthesis) /\ At(synthesis) \in Nat
  BY <1>1, RunFacts
<1>3. /\ run \in [Run -> RunRecord] /\ run[r] \in RunRecord
      /\ run[r].answers \in Nat /\ run[r].replans = 0
      /\ run[r].output \in Nat /\ run[r].limit \in Nat
      /\ run[r].answers + 1 <= run[r].budget.calls
      /\ run[r].output + run[r].limit <= run[r].budget.output
      /\ run[r].budget.calls \in 1 .. 4 /\ run[r].budget.replans = 1
      /\ run[r].budget.output \in Nat
  BY <1>1, <1>2, RunIsWithin
<1>4. CASE ~good
  <2>1. run' = End(r, "failed") /\ "failed" \in RunState \ {"running"}
    BY <1>4 DEF Repaired, RunState
  <2> QED BY <1>1, <2>1, EndingIsWithin DEF WorkInv
<1>5. CASE good
  <2>1. PICK cand :
          run' = [run EXCEPT ![r].limit = 0,
                             ![r].replans = 1,
                             ![r].output = @ + size,
                             ![r].candidate = cand,
                             ![r].step = @ + 1]
    BY <1>5 DEF Repaired
  <2>2. /\ \A q \in Run \ {r} : run'[q] = run[q]
        /\ run'[r].recalled = run[r].recalled /\ run'[r].budget = run[r].budget
        /\ run'[r].namespace = run[r].namespace /\ run'[r].limit = 0
        /\ run'[r].answers = run[r].answers
        /\ run'[r].output = run[r].output + size /\ run'[r].replans = 1
        /\ run'[r].step = At(synthesis) + 1
    BY <1>2, <1>3, <2>1 DEF RunRecord
  <2>3. /\ run[r].answers + 1 + (IF 0 > 0 THEN 1 ELSE 0)
             <= run[r].budget.calls
        /\ run[r].output + size + 0 <= run[r].budget.output
        /\ 1 <= run[r].budget.replans /\ ~(At(synthesis) + 1 <= At(synthesis))
    BY <1>1, <1>2, <1>3
  <2> QED BY <1>1, <2>2, <2>3, RunStaysWithin
<1> QED BY <1>4, <1>5

\* The commit calls nobody.
LEMMA CommitIsWithin ==
  ASSUME WorkInv, MemoryGrows, BudgetInv, NEW r \in Run, Commit(r)
  PROVE  BudgetInv'
<1>1. /\ Running(r) /\ run[r].limit = 0 /\ ordered[run[r].step] = commit
      /\ open' = open /\ ordered' = ordered
      /\ run' = [run EXCEPT ![r].step = @ + 1]
  BY DEF Commit, AtStep, planVars
<1>2. run[r].step = At(commit)
  BY <1>1, RunFacts
<1>3. /\ run \in [Run -> RunRecord] /\ run[r] \in RunRecord
      /\ run[r].answers + run[r].replans
           + (IF run[r].limit > 0 THEN 1 ELSE 0) <= run[r].budget.calls
      /\ run[r].output + run[r].limit <= run[r].budget.output
      /\ run[r].replans <= run[r].budget.replans
      /\ At(commit) \in Nat /\ At(synthesis) \in Nat /\ At(synthesis) < At(commit)
  BY <1>1, RunIsWithin
<1>4. /\ \A q \in Run \ {r} : run'[q] = run[q]
      /\ run'[r].recalled = run[r].recalled /\ run'[r].budget = run[r].budget
      /\ run'[r].namespace = run[r].namespace
      /\ run'[r].limit = run[r].limit /\ run'[r].limit = 0
      /\ run'[r].answers = run[r].answers /\ run'[r].output = run[r].output
      /\ run'[r].replans = run[r].replans /\ run'[r].step = At(commit) + 1
  BY <1>1, <1>2, <1>3 DEF RunRecord
<1>5. ~(At(commit) + 1 <= At(synthesis))
  BY <1>3
<1> QED BY <1>1, <1>3, <1>4, <1>5, RunStaysWithin

\* Nobody executes while another workspace is opened, and what ages in memory
\* gets no larger.
LEMMA RestIsWithin ==
  ASSUME WorkInv, MemoryGrows, BudgetInv, run' = run,
         \A r \in Run : Running(r) => ordered' = ordered /\ open' = open
  PROVE  BudgetInv'
<1> SUFFICES ASSUME NEW r \in Run
             PROVE  CallsInv(r)' /\ RecallInv(r)'
  BY DEF BudgetInv
<1>1. CallsInv(r) /\ RecallInv(r) /\ WorkTypes
  BY DEF BudgetInv, WorkInv
<1>2. CallsInv(r)'
  BY <1>1, CallsStay
<1>3. RecallInv(r)'
  BY <1>1, RecallStays DEF Running
<1> QED BY <1>2, <1>3

LEMMA StartIsWithin ==
  ASSUME WorkInv, MemoryGrows, BudgetInv, NEW r \in Run,
         NEW private \in BOOLEAN, NEW b \in Budgets, Start(r, private, b)
  PROVE  BudgetInv'
<1>1. /\ open' = open /\ ordered' = ordered /\ WorkTypes
      /\ run' = [run EXCEPT ![r] = [NoRun EXCEPT !.status = "running",
                                                 !.namespace = open,
                                                 !.private = private,
                                                 !.budget = b]]
  BY DEF Start, WorkInv
<1>2. /\ \A q \in Run \ {r} : run'[q] = run[q]
      /\ run'[r].limit = 0 /\ run'[r].answers = 0 /\ run'[r].replans = 0
      /\ run'[r].output = 0 /\ run'[r].recalled = {}
      /\ run'[r].namespace = open
  BY <1>1 DEF WorkTypes, NoRun
<1>3. CallsInv(r)' /\ RecallInv(r)'
  BY <1>1, <1>2, IdleIsWithin
<1> QED BY <1>1, <1>2, <1>3, OneRunMoves

LEMMA CrashIsWithin ==
  ASSUME WorkInv, MemoryGrows, BudgetInv, Crash
  PROVE  BudgetInv'
<1>1. /\ WorkTypes /\ ordered' = ordered
      /\ run' = [r \in Run |-> IF Running(r) THEN Ended(r, "orphaned") ELSE run[r]]
  BY DEF Crash, WorkInv, planVars
<1> SUFFICES ASSUME NEW r \in Run
             PROVE  CallsInv(r)' /\ RecallInv(r)'
  BY DEF BudgetInv
<1>2. CASE Running(r)
  <2>1. run'[r] = Ended(r, "orphaned") /\ "orphaned" \in RunState \ {"running"}
    BY <1>1, <1>2 DEF RunState
  <2> QED BY <1>1, <2>1, EndIsWithin
<1>3. CASE ~Running(r)
  <2>1. run'[r] = run[r] /\ CallsInv(r) /\ RecallInv(r)
    BY <1>1, <1>3 DEF BudgetInv
  <2>2. CallsInv(r)'
    BY <1>1, <2>1, CallsStay
  <2>3. RecallInv(r)'
    BY <1>1, <1>3, <2>1, RecallStays DEF Running
  <2> QED BY <2>2, <2>3
<1> QED BY <1>2, <1>3

LEMMA NextIsWithin ==
  ASSUME WorkInv, BudgetInv, [Next]_vars
  PROVE  BudgetInv'
<1>1. MemoryGrows /\ WorkTypes
  BY NextGrows DEF WorkInv
<1>2. ASSUME NEW r \in Run,
             CallFails(r) \/ Cancel(r) \/ EvaluateResult(r) \/ StoreRefuses(r)
      PROVE  BudgetInv'
  <2>1. PICK status \in RunState \ {"running"} :
          run' = End(r, status) /\ UNCHANGED <<planVars, open, memory>>
    <3>1. {"failed", "cancelled", "completed", "refused"}
            \subseteq RunState \ {"running"}
      BY DEF RunState
    <3> QED BY <1>2, <3>1 DEF CallFails, Cancel, EvaluateResult, StoreRefuses
  <2> QED BY <1>1, <2>1, EndingIsWithin
<1>3. ASSUME NEW r \in Run, Pipeline(r)
      PROVE  BudgetInv'
  <2>1. ASSUME NEW size \in Sizes, NEW good \in BOOLEAN,
               Answer(r, size, good) \/ Repaired(r, size, good)
        PROVE  BudgetInv'
    BY <1>1, <2>1, AnswerIsWithin, RepairedIsWithin
  <2> QED BY <1>1, <1>2, <1>3, <2>1, RecallIsWithin, CallRoleIsWithin,
             SynthesizeIsWithin, CommitIsWithin DEF Pipeline
<1>4. ASSUME NEW r \in Run, NEW private \in BOOLEAN, NEW b \in Budgets,
             Start(r, private, b)
      PROVE  BudgetInv'
  BY <1>1, <1>4, StartIsWithin
<1>5. ASSUME NEW i \in DOMAIN memory, Expire(i) \/ Forget(i)
      PROVE  BudgetInv'
  BY <1>1, <1>5, RestIsWithin DEF Expire, Forget, planVars
<1>6. ASSUME NEW w \in Namespace, OpenWorkspace(w)
      PROVE  BudgetInv'
  BY <1>1, <1>6, RestIsWithin DEF OpenWorkspace
<1>7. CASE PlanNext /\ UNCHANGED workVars
  <2>1. phase # "used"
    BY <1>7 DEF PlanNext, Select, Visit, Leave, Evaluate, Return
  <2>2. \A r \in Run : ~Running(r)
    BY <2>1 DEF WorkInv, RunInv
  <2> QED BY <1>1, <1>7, <2>2, RestIsWithin DEF workVars
<1>8. CASE UNCHANGED vars
  BY <1>1, <1>8, RestIsWithin DEF vars, workVars, planVars
<1> QED BY <1>1, <1>3, <1>4, <1>5, <1>6, <1>7, <1>8, CrashIsWithin
        DEF Next, WorkNext

-----------------------------------------------------------------------------
(* What is recalled                                                        *)

\* An action of the pipeline other than the recall gives its run nothing more.
LEMMA NothingMoreRecalled ==
  ASSUME WorkTypes, [Next]_vars, \A r \in Run : ~Recall(r),
         NEW q \in Run
  PROVE  run'[q].recalled \subseteq run[q].recalled
<1>1. run \in [Run -> RunRecord] /\ \A r \in Run : run[r] \in RunRecord
  BY DEF WorkTypes
<1>2. ASSUME NEW r \in Run, NEW status, run' = End(r, status)
      PROVE  run'[q].recalled \subseteq run[q].recalled
  <2>1. run' = [run EXCEPT ![r] = Ended(r, status)]
        /\ Ended(r, status).recalled = {}
    BY <1>2 DEF End, Ended, NoRun
  <2>2. CASE q = r
    BY <1>1, <2>1, <2>2
  <2>3. CASE q # r
    BY <1>1, <2>1, <2>3
  <2> QED BY <2>2, <2>3
<1>3. ASSUME NEW r \in Run,
             CallFails(r) \/ Cancel(r) \/ EvaluateResult(r) \/ StoreRefuses(r)
      PROVE  run'[q].recalled \subseteq run[q].recalled
  BY <1>2, <1>3 DEF CallFails, Cancel, EvaluateResult, StoreRefuses
<1>4. ASSUME NEW r \in Run, CallRole(r) \/ Synthesize(r) \/ Commit(r)
      PROVE  run'[q].recalled \subseteq run[q].recalled
  <2>1. CASE \E status : run' = End(r, status)
    BY <1>2, <2>1
  <2>2. \/ \E status : run' = End(r, status)
        \/ run' = [run EXCEPT ![r].limit = Share(r)]
        \/ run' = [run EXCEPT ![r].step = @ + 1]
        \/ run' = [run EXCEPT ![r].limit = OutputLeft(r)]
    BY <1>4 DEF CallRole, Synthesize, Commit
  <2>3. \A value : [run EXCEPT ![r].limit = value][q].recalled = run[q].recalled
    BY <1>1 DEF RunRecord
  <2>4. [run EXCEPT ![r].step = @ + 1][q].recalled = run[q].recalled
    BY <1>1 DEF RunRecord
  <2> QED BY <2>1, <2>2, <2>3, <2>4
<1>5. ASSUME NEW r \in Run, NEW size \in Sizes, NEW good \in BOOLEAN,
             Answer(r, size, good) \/ Repaired(r, size, good)
      PROVE  run'[q].recalled \subseteq run[q].recalled
  <2>1. CASE Answer(r, size, good)
    <3>1. run'[q].recalled = run[q].recalled
      BY <1>1, <2>1 DEF Answer, RunRecord
    <3> QED BY <3>1
  <2>2. CASE Repaired(r, size, good) /\ good
    <3>1. run'[q].recalled = run[q].recalled
      BY <1>1, <2>2 DEF Repaired, RunRecord
    <3> QED BY <3>1
  <2>3. CASE Repaired(r, size, good) /\ ~good
    BY <1>2, <2>3 DEF Repaired
  <2> QED BY <1>5, <2>1, <2>2, <2>3
<1>6. ASSUME NEW r \in Run, NEW private \in BOOLEAN, NEW b \in Budgets,
             Start(r, private, b)
      PROVE  run'[q].recalled \subseteq run[q].recalled
  <2> DEFINE first == [NoRun EXCEPT !.status = "running", !.namespace = open,
                                    !.private = private, !.budget = b]
  <2>1. run' = [run EXCEPT ![r] = first]
    BY <1>6 DEF Start
  <2>2. first.recalled = {}
    BY DEF NoRun
  <2> HIDE DEF first
  <2>3. CASE q = r
    BY <1>1, <2>1, <2>2, <2>3
  <2>4. CASE q # r
    BY <1>1, <2>1, <2>4
  <2> QED BY <2>3, <2>4
<1>7. CASE Crash
  BY <1>7 DEF Crash, Ended, NoRun
<1>8. CASE \/ \E i \in DOMAIN memory : Expire(i) \/ Forget(i)
           \/ \E w \in Namespace : OpenWorkspace(w)
           \/ PlanNext /\ UNCHANGED workVars
           \/ UNCHANGED vars
  BY <1>8 DEF Expire, Forget, OpenWorkspace, workVars, vars
<1> QED BY <1>3, <1>4, <1>5, <1>6, <1>7, <1>8 DEF Next, WorkNext, Pipeline

\* A recall takes the newest of what is current in the workspace that is open.
LEMMA RecallTakesTheNewest ==
  ASSUME WorkInv, BudgetInv, NEW r \in Run, Recall(r),
         NEW q \in Run, NEW i \in run'[q].recalled \ run[q].recalled
  PROVE  /\ memory[i].namespace = open /\ memory[i].state = "valid"
         /\ ~run[q].private
         /\ \A j \in (i + 1) .. Len(memory) :
              memory[j].namespace = open /\ memory[j].state = "valid" =>
                j \in run'[q].recalled
<1> DEFINE taken == IF run[r].private THEN {}
                    ELSE Recalled(run[r].namespace, run[r].budget)
<1>1. /\ Running(r) /\ run' = [run EXCEPT ![r].recalled = taken, ![r].step = @ + 1]
  BY DEF Recall, AtStep
<1>2. WorkTypes /\ run \in [Run -> RunRecord] /\ run[r] \in RunRecord
  BY <1>1, RunFacts
<1>3. run[r].namespace = open /\ run[r].budget \in Budget
  BY <1>1, <1>2, RunNumbers DEF BudgetInv, RecallInv
<1> HIDE DEF taken
<1>4. /\ run'[r].recalled = taken
      /\ \A p \in Run \ {r} : run'[p] = run[p]
  BY <1>1, <1>2 DEF RunRecord
<1>5. q = r /\ i \in taken
  BY <1>4
<1>6. ~run[r].private /\ taken = Recalled(open, run[r].budget)
  BY <1>3, <1>5 DEF taken
<1> DEFINE budget == run[r].budget
<1>7. budget \in Budget
  BY <1>3
<1> HIDE DEF budget
<1>8. /\ i \in DOMAIN memory /\ Current(i, open)
      /\ \A j \in DOMAIN memory :
           i < j /\ Current(j, open) => j \in taken
  <2>1. taken = Recalled(open, budget)
    BY <1>6 DEF budget
  <2> QED BY <1>2, <1>5, <1>7, <2>1, RecalledFits
<1>9. memory \in Seq(Entry)
  BY <1>2 DEF WorkTypes
<1>10. /\ DOMAIN memory = 1 .. Len(memory) /\ Len(memory) \in Nat
       /\ i \in Nat
  BY <1>8, <1>9
<1>11. \A j \in (i + 1) .. Len(memory) : j \in DOMAIN memory /\ i < j
  BY <1>10
<1> QED BY <1>4, <1>5, <1>6, <1>8, <1>11 DEF Current

-----------------------------------------------------------------------------
(* Theorems                                                                *)

\* The workflow is in order in every reachable state.
THEOREM WorkInOrder == Spec => []WorkInv
BY InitWorks, NextWorks, PTL DEF Spec

\* What is in memory was earned, for any runs, budgets, sizes of responses and
\* any order of calls, refusals and crashes: each entry is the candidate that
\* passed the checks of one run, and a standard run that completed left exactly
\* one (memory-service.ts 96-160, workflow-engine.ts 73-137, dispatchers.ts of
\* workflows 51-71).
THEOREM MemoryWasEarned == Spec => []MemoryIsEarned
<1>1. WorkInv => MemoryIsEarned
  <2> SUFFICES ASSUME WorkInv
               PROVE  MemoryIsEarned
    OBVIOUS
  <2>1. ASSUME NEW i \in DOMAIN memory, NEW r \in Run, memory[i].run = r
        PROVE  /\ run[r].status \in {"running", "completed", "refused", "orphaned"}
               /\ memory[i].good /\ ~run[r].private
               /\ Running(r) => /\ memory[i].namespace = run[r].namespace
                                /\ run[r].candidate.good
                                /\ memory[i].size \in {0, run[r].candidate.size}
               /\ \A j \in DOMAIN memory : memory[j].run = r => j = i
    <3>1. EntryInv(i) /\ CommitInv
      BY DEF WorkInv
    <3>2. Running(r) => run[r].candidate.good
      <4> SUFFICES ASSUME Running(r)
                   PROVE  run[r].candidate.good
        OBVIOUS
      <4>1. /\ run[r].step \in 1 .. At(evaluation) /\ At(synthesis) \in Nat
            /\ At(commit) \in Nat /\ At(synthesis) < At(commit)
            /\ At(evaluation) \in Nat
            /\ run[r].step > At(synthesis) => run[r].candidate.good
        BY RunFacts
      <4>2. run[r].step > At(commit)
        BY <2>1, <3>1 DEF EntryInv
      <4> QED BY <4>1, <4>2
    <3> QED BY <2>1, <3>1, <3>2 DEF EntryInv, CommitInv
  <2>2. \A r \in Run : run[r].status = "completed" /\ ~run[r].private =>
          \E i \in DOMAIN memory : memory[i].run = r
    BY DEF WorkInv, CommitInv, Committed
  <2> QED BY <2>1, <2>2 DEF MemoryIsEarned
<1> QED BY <1>1, WorkInOrder, PTL

\* Beside the workflow, too, every plan is whole, in order and judged as its
\* request deserves: what executes or forgets never meddles with planning.
THEOREM PlansStaySound == Spec => [](PlanIsOrdered /\ VerdictIsRight)
<1>1. WorkInv => PlanIsOrdered /\ VerdictIsRight
  BY WholePlan, JudgedRight
  DEF WorkInv, SharedPlan, JudgeInv, PlanIsOrdered, VerdictIsRight
<1> QED BY <1>1, WorkInOrder, PTL

\* The calls and the recalls are within the budgets in every reachable state.
THEOREM BudgetsInOrder == Spec => []BudgetInv
<1>1. WorkInit => BudgetInv
  <2> SUFFICES ASSUME WorkInit, NEW r \in Run
               PROVE  CallsInv(r) /\ RecallInv(r)
    BY DEF BudgetInv
  <2>1. WorkTypes
    BY InitWorks DEF WorkInv
  <2>2. /\ run[r].limit = 0 /\ run[r].answers = 0 /\ run[r].replans = 0
        /\ run[r].output = 0 /\ run[r].recalled = {} /\ run[r].status = "none"
    BY DEF WorkInit, NoRun
  <2>3. /\ run[r].budget.calls \in 1 .. 4 /\ run[r].budget.output \in Nat
        /\ run[r].budget.replans \in 0 .. 1
        /\ run[r].budget.items \in Nat /\ run[r].budget.bytes \in Nat
    BY <2>1, RunNumbers
  <2>4. SizeOf({}) = 0 /\ Cardinality({}) = 0
    BY <2>1, SizesAreNumbers
  <2> QED BY <2>2, <2>3, <2>4 DEF CallsInv, RecallInv, Calls, Running
<1>2. WorkInv /\ BudgetInv /\ [Next]_vars => BudgetInv'
  BY NextIsWithin
<1> QED BY <1>1, <1>2, WorkInOrder, PTL DEF Spec

\* At no time has a run made more calls, had and been promised more output, or
\* been given more of memory than its request allows, for any budgets, sizes of
\* responses and any interleaving of the runs (agent-team.ts 48-169,
\* workflow-engine.ts 73-137, memory-service.ts 34-94).
THEOREM BudgetsAreKept == Spec => []BudgetsHold
<1>1. BudgetInv => BudgetsHold
  BY DEF BudgetInv, CallsInv, RecallInv, BudgetsHold
<1> QED BY <1>1, BudgetsInOrder, PTL

\* A recall takes only what is current in the workspace of the session, the
\* newest first, and nothing for a private request, and nothing else ever adds
\* to what was recalled (memory-service.ts 34-94, store.ts 1217-1240).
THEOREM RecallsAreCurrent == Spec => RecallIsCurrent
<1> DEFINE Taken ==
      \A r \in Run : \A i \in run'[r].recalled \ run[r].recalled :
        /\ memory[i].namespace = open /\ memory[i].state = "valid"
        /\ ~run[r].private
        /\ \A j \in (i + 1) .. Len(memory) :
             memory[j].namespace = open /\ memory[j].state = "valid" =>
               j \in run'[r].recalled
<1>1. WorkInv /\ BudgetInv /\ [Next]_vars => Taken
  <2> SUFFICES ASSUME WorkInv, BudgetInv, [Next]_vars
               PROVE  Taken
    OBVIOUS
  <2>1. CASE \A r \in Run : ~Recall(r)
    <3>1. WorkTypes
      BY DEF WorkInv
    <3>2. \A q \in Run : run'[q].recalled \subseteq run[q].recalled
      BY <2>1, <3>1, NothingMoreRecalled
    <3> QED BY <3>2
  <2>2. CASE \E r \in Run : Recall(r)
    BY <2>2, RecallTakesTheNewest
  <2> QED BY <2>1, <2>2
<1>2. RecallIsCurrent <=> [][Taken]_vars
  BY DEF RecallIsCurrent
<1> HIDE DEF Taken
<1> QED BY <1>1, <1>2, WorkInOrder, BudgetsInOrder, PTL DEF Spec

=============================================================================

------------------------------- MODULE MCWorkflow -------------------------------
(***************************************************************************)
(* Instances of planning and of the workflow for TLC.                      *)
(***************************************************************************)
EXTENDS Workflow, TLC

CONSTANTS extra, r1, r2

Capabilities == {recall, team, synthesis, commit, evaluation, extra}
Three == {recall, team, synthesis}

Does(risk, kinds) == [risk |-> risk, kinds |-> kinds]
SafeRead == Does("safe", {"read"})
Has(status, deps, action) == [status |-> status, deps |-> deps, action |-> action]
Absent == Has("absent", {}, SafeRead)

\* The five capabilities as they are published, and one after them that makes
\* a plan of it too long.
Published ==
  recall :> Has("on", {}, SafeRead) @@
  team :> Has("on", {recall}, Does("guarded", {"execute"})) @@
  synthesis :> Has("on", {team}, Does("guarded", {"execute"})) @@
  commit :> Has("on", {synthesis}, Does("guarded", {"write"})) @@
  evaluation :> Has("on", {commit}, SafeRead) @@
  extra :> Has("on", {evaluation}, SafeRead)

\* Every graph of three capabilities, one of which may be out of use.
Edges == {d \in [Three -> SUBSET Three] : \A c \in Three : c \notin d[c]}
Shapes ==
  {[c \in Capabilities |->
      IF c \in Three THEN Has(IF c = team THEN s ELSE "on", d[c], SafeRead)
      ELSE Absent] : s \in Status, d \in Edges}

\* Every pair of actions of a capability and of the one it depends on.
Actions == {SafeRead, Does("safe", {"read", "git"}), Does("guarded", {"write"}),
            Does("safe", {"read", "network"}), Does("destructive", {"write"}),
            Does("guarded", {"system"}), Does("safe", {"read", "credentials"}),
            Does("guarded", {"read", "delete"}), Does("sensitive", {"read"})}
Pairs ==
  {[c \in Capabilities |-> IF c = recall THEN Has("on", {}, a)
                           ELSE IF c = team THEN Has("on", {recall}, b)
                           ELSE Absent] : a \in Actions, b \in Actions}

AllRegistries == {Published} \cup Shapes \cup Pairs

Wants == {{team}, Three}
AllRequests ==
  [explicit : BOOLEAN, wants : Wants, profile : Profile, private : BOOLEAN]
    \cup [explicit : {FALSE}, wants : {{}, {evaluation}, {extra, evaluation}},
          profile : {"developer"}, private : {TRUE}]

TwoBudgets ==
  {[agents |-> 3, calls |-> 4, output |-> 5, items |-> 1, bytes |-> 3, replans |-> 1],
   [agents |-> 1, calls |-> 1, output |-> 2, items |-> 2, bytes |-> 2, replans |-> 1]}

\* Nothing, or what an earlier process committed.
OneEntry == [run |-> "earlier", namespace |-> "w1", size |-> 2, good |-> TRUE,
             state |-> "valid"]
AtMostOneEntry == {<<>>, <<OneEntry>>}

Symmetry == Permutations(Run)

=============================================================================

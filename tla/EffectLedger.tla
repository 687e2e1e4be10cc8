----------------------------- MODULE EffectLedger -----------------------------
(***************************************************************************)
(* What approvals promise, without runs, stores or processes: a permit is  *)
(* asked for one effect; a person grants or refuses it; while granted it   *)
(* may be spent, once, on one slot (a step of a run); and a slot acts at   *)
(* most once, after a permit was spent on it, doing exactly the effect the *)
(* permit was asked for.                                                   *)
(***************************************************************************)
CONSTANTS Permit, Slot, Effect, Nothing

VARIABLES
  permit,  \* for each permit, its state and the effect it is for
  spentOn, \* for each slot, the permit spent on it, or Nothing
  done     \* for each slot, the effect it had, or Nothing

ledgerVars == <<permit, spentOn, done>>

LedgerInit ==
  /\ permit = [a \in Permit |-> [state |-> "none", for |-> Nothing]]
  /\ spentOn = [x \in Slot |-> Nothing]
  /\ done = [x \in Slot |-> Nothing]

Ask(a) ==
  /\ permit[a].state = "none"
  /\ \E e \in Effect :
       permit' = [permit EXCEPT ![a] = [state |-> "asked", for |-> e]]
  /\ UNCHANGED <<spentOn, done>>

Decide(a) ==
  /\ permit[a].state = "asked"
  /\ \E verdict \in {"granted", "void"} :
       permit' = [permit EXCEPT ![a] = [state |-> verdict, for |-> permit[a].for]]
  /\ UNCHANGED <<spentOn, done>>

\* A deadline withdraws a granted permit.
Withdraw(a) ==
  /\ permit[a].state = "granted"
  /\ permit' = [permit EXCEPT ![a] = [state |-> "void", for |-> permit[a].for]]
  /\ UNCHANGED <<spentOn, done>>

Spend(a, x) ==
  /\ permit[a].state = "granted"
  /\ spentOn[x] = Nothing /\ done[x] = Nothing
  /\ permit' = [permit EXCEPT ![a] = [state |-> "spent", for |-> permit[a].for]]
  /\ spentOn' = [spentOn EXCEPT ![x] = a]
  /\ UNCHANGED done

Act(x) ==
  /\ spentOn[x] # Nothing /\ done[x] = Nothing
  /\ done' = [done EXCEPT ![x] = permit[spentOn[x]].for]
  /\ UNCHANGED <<permit, spentOn>>

LedgerNext ==
  \/ \E a \in Permit : Ask(a) \/ Decide(a) \/ Withdraw(a)
  \/ \E a \in Permit, x \in Slot : Spend(a, x)
  \/ \E x \in Slot : Act(x)

LedgerSpec == LedgerInit /\ [][LedgerNext]_ledgerVars

=============================================================================

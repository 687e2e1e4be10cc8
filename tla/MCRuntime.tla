------------------------------- MODULE MCRuntime -------------------------------
(***************************************************************************)
(* Small instances of the runtime for TLC.                                 *)
(***************************************************************************)
EXTENDS RuntimeProperties, TLC

CONSTANTS r1, r2, p1, a1, a2, d1, d2

TwoRuns == {r1, r2}
OnePlan == {p1}
TwoApprovals == {a1, a2}
TwoDescriptors == {d1, d2}
OneDescriptor == {d1}

NoApprovals == {}
First == {1}
Second == {2}
Both == {1, 2}
Chain == [s \in Step |-> 1 .. (s - 1)]

NoFaults == {}
AllFaults == {"backup", "full", "readonly"}

=============================================================================

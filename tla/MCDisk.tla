------------------------------- MODULE MCDisk -------------------------------
(***************************************************************************)
(* A small instance, for TLC, of what must leave a disk in order; the      *)
(* audited store's two processes are of builds that know one and two       *)
(* migrations.                                                             *)
(***************************************************************************)
EXTENDS Disk, TLC

CONSTANTS p1, p2, r1

TwoProcesses == {p1, p2}
Symmetric == Permutations(TwoProcesses)

=============================================================================

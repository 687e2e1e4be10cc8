-------------------------------- MODULE MCCalls --------------------------------
(***************************************************************************)
(* A small instance of the runtime beside that of the dispatchers: two     *)
(* runs of one plan, of a provider's step and a local one after it.        *)
(***************************************************************************)
EXTENDS Calls, MCDispatch

CONSTANTS r1, r2, p1, d1

Chain == [s \in 1 .. NSteps |-> 1 .. (s - 1)]

=============================================================================

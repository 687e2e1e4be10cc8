------------------------------ MODULE MCDispatch ------------------------------
(***************************************************************************)
(* A small instance of the dispatchers for TLC.  Its workspaces: one with  *)
(* more files than the budget, one with links in a circle, and one with a  *)
(* link to the root.                                                       *)
(***************************************************************************)
EXTENDS Dispatch, TLC

CONSTANTS root, docs, lib

NestedTree == (root :> <<1, docs, lib, 4>>) @@ (docs :> <<2, 3>>) @@ (lib :> <<>>)
CyclicTree == (root :> <<2, docs>>) @@ (docs :> <<lib, 1>>) @@ (lib :> <<docs>>)
RootLinkTree == (root :> <<1, docs>>) @@ (docs :> <<root>>) @@ (lib :> <<>>)

Text(size, hits) == [size |-> size, matches |-> hits, text |-> TRUE]
Contents ==
  {Text(1, 0), Text(1, 1), Text(2, 0), Text(3, 0),
   [size |-> 2, matches |-> 0, text |-> FALSE]}

Full ==
  [tree |-> NestedTree, content |-> [f \in 1 .. 4 |-> Text(1, f % 2)]]
Linked == [tree |-> RootLinkTree, content |-> [f \in 1 .. 1 |-> Text(1, 1)]]
Cyclic == [tree : {CyclicTree}, content : [1 .. 2 -> Contents]]

AllStarts == {Full, Linked} \cup Cyclic
FullStart == {Full}

=============================================================================

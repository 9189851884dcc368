----------------------------- MODULE MCTermTree -----------------------------
(***************************************************************************)
(* Instances of TermTree for TLC.                                          *)
(***************************************************************************)
EXTENDS TermTree

\* The default, and make rb=N without preindexing.
Default == [rebalance |-> -1, parallel |-> TRUE]
Rebalancing3 == [rebalance |-> 3, parallel |-> FALSE]

Safe == {Default, Rebalancing3}
=============================================================================

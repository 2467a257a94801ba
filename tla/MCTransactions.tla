---------------------------- MODULE MCTransactions ----------------------------
(* Transactions for TLC: the calls are alike, and so are the models and the  *)
(* files.                                                                    *)
EXTENDS Transactions, TLC

Symmetry ==
    Permutations(Calls) \cup Permutations(Models) \cup Permutations(Files)
===============================================================================

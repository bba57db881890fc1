----------------------------- MODULE MCOrderTx -----------------------------
(* Instances of OrderTx for TLC. *)
EXTENDS OrderTx, TLC

\* Requests, order numbers and transaction numbers are interchangeable, and so
\* are users.
Symmetry ==
    Permutations(Procs) \cup Permutations(Users) \cup
    Permutations(OrderNos) \cup Permutations(TransactionNos)
=============================================================================
